SPECIFICATION Spec
CONSTANTS
    Budgets = {1}
    UseHistory = {TRUE}
    Passthrough = {FALSE}
    Deferred = {FALSE}
    Replies = {"TOOL_USE", "END_TURN"}
    MaxTurns = 2
    MaxRestarts = 0
    MaxCalls = 6
    Interruptible = {}
    Failing = {"beforeTool"}
INVARIANTS
    RequestsPaired
