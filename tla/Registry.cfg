\* Two providers and an owner, an odd stake, stakes above and below the minimum.
CONSTANTS
    Address = {p, q, o}
    NoAddress = NoAddress
    Payable = {p, q, o}
    InitialOwner = o
    InitialSlashAuthority = o
    Authority = {o, q}
    Endpoint = {"", "https"}
    EmptyEndpoint = ""
    Price = {1}
    Value = {0, 1, 4, 5}
    MIN_STAKE = 4
    MaxStake = 5
    MaxCount = 1
SPECIFICATION Spec
INVARIANTS StakeBacked ActiveIsStaked ProviderCanLeave
