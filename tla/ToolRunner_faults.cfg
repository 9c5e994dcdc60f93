SPECIFICATION Spec
CONSTANTS
    Budgets = {2}
    UseHistory = {TRUE, FALSE}
    Passthrough = {TRUE, FALSE}
    Deferred = {FALSE}
    Replies = {"TOOL_USE", "CONTINUE", "END_TURN", "CANCELLED"}
    MaxTurns = 2
    MaxRestarts = 1
    MaxCalls = 6
    Interruptible = {"beforeTool", "runTools", "afterTool", "passHook", "beforeLlm", "llm", "presented", "checkpoint", "afterTurn"}
    Failing = {"beforeTool", "runTools", "passHook", "beforeLlm", "llm", "presented", "afterTurn"}
INVARIANTS
    FinalMessage
    NeverRerun
    BudgetRespected
PROPERTIES
    TurnEnds
    CancelKeepsResult
