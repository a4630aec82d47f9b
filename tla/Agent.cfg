\* Every tool that has a case of its own and one other, an answer of up to two
\* calls, and a channel that a slow reader lets fill up.
CONSTANTS
    Tool = {"analyze_repo", "select_provider", "generate_deployment_plan", "create_container", "run_command"}
    HasRepoURL = TRUE
    EventCap = 2
    Caller = {u}
    MaxTurns = 1
    MaxCalls = 2
SPECIFICATION AgentFairSpec
INVARIANTS ActionsFollowRequests EndIsLast
PROPERTY RunReturns
CHECK_DEADLOCK FALSE
