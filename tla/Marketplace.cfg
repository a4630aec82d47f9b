\* One job id, the deployer and a node, which both also act as users; the escrow contract may become the slash authority.
CONSTANTS
    Account = {d, p}
    Node = {p}
    EscrowContract = esc
    AuctionContract = auc
    NoAddress = NoAddress
    Deployer = d
    SlashAuthority = {d, esc}
    EscrowAuthority = {d}
    Fallback = {NoAddress, d}
    Client = {d}
    Counterparty = {p}
    Id = {1}
    DepositValue = {10}
    SessionValue = {10}
    SessionRate = {1}
    PostValue = {10}
    Duration = {60}
    PricePerHour = {3600, 7200}
    ListPrice = {3600}
    StakeValue = {4}
    MIN_STAKE = 4
    MaxStake = 4
    MaxCount = 1
    LOCKUP_PERIOD = 1
    BID_WINDOW = 0
    MaxTime = 2
SPECIFICATION Spec
INVARIANTS AwardIsSession  SlashRefundCompletes
CHECK_DEADLOCK FALSE
