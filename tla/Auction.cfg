\* Two jobs over one balance, two bidders of whom one refuses ETH, equal and
\* different prices, one below a wei per second, bids before, at and after the
\* end of the window.
CONSTANTS
    Address = {p, q}
    NoAddress = NoAddress
    Payable = {p}
    InitialOwner = p
    InitialFallback = NoAddress
    Fallback = {NoAddress, p}
    JobId = {1, 2}
    Deposit = {0, 5}
    Price = {100, 7200}
    Duration = {60}
    BID_WINDOW = 1
    MaxTime = 2
SPECIFICATION Spec
INVARIANTS AwardIsLowestBid HeldForOpenJobs
PROPERTIES OutcomeIsFinal SettledAfterBids
\* The jobs may be settled and the clock at its bound.
CHECK_DEADLOCK FALSE
