\* One launch, a scan that may be late, a channel that a plan fills.
CONSTANTS
    Session = {s}
    Conn = {c1, c2}
    ClientCap = 1
    MaxScans = 1
    None = None
SPECIFICATION FairSpec
INVARIANTS OneStreamPerSession NeverGivesUp
PROPERTY LostStreamSettles
\* Every launch may be over and the page left.
CHECK_DEADLOCK FALSE
