\* Two open jobs: what a cancellation refunds.
CONSTANTS
    Address = {u, p}
    NoAddress = NoAddress
    Payable = {u, p}
    InitialOwner = u
    InitialFallback = p
    Fallback = {p}
    JobId = {1, 2}
    Deposit = {5}
    Price = {7200}
    Duration = {60}
    BID_WINDOW = 1
    MaxTime = 3
SPECIFICATION Spec
PROPERTY CancelRefundsDeposit
CHECK_DEADLOCK FALSE
