\* An escrow and a stream under the same id over one balance: amounts whose fees
\* are rounded, a rate that does not divide the deposit, enough time to run the
\* stream dry, changes of authority and an account (c) that refuses ETH.
CONSTANTS
    Address = {a, b, c}
    NoAddress = NoAddress
    Payable = {a, b}
    InitialOwner = a
    InitialAuthority = b
    Authority = {a, b}
    SessionId = {1}
    DepositValue = {0, 7, 26}
    StreamValue = {0, 7, 38}
    Rate = {0, 10}
    LOCKUP_PERIOD = 2
    MaxTime = 4
SPECIFICATION Spec
INVARIANTS Solvency StreamConserved DrawnAtRate 
PROPERTY SettlementIsFinal
\* Every record may be settled and the clock at its bound.
CHECK_DEADLOCK FALSE
