\* Two turns with a plan each, a client whose channel is shorter than the
\* session's events, a confirm request, failing writes and a crash.
CONSTANTS
    Tool = {"generate_deployment_plan"}
    HasRepoURL = FALSE
    EventCap = 2
    Caller = {u}
    MaxTurns = 2
    MaxCalls = 1
    Client = {w}
    ClientCap = 1
    HasWalletKey = TRUE
    DbMayFail = TRUE
    MaxCrashes = 1
    None = None
SPECIFICATION FairSpec
INVARIANTS StreamInOrder AttestedIsLogged
PROPERTIES ServiceImplemented EndIsPassedOn SessionSettles SubscribedStreamEnds
\* The session may be over and every client gone.
CHECK_DEADLOCK FALSE
