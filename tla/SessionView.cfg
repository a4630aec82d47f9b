\* Two sign-ins, whose streams may overlap, and a channel that a plan fills.
CONSTANTS
    Session = {s}
    sessionId = s
    Load = {l1, l2}
    Conn = {c1, c2}
    ClientCap = 1
    None = None
SPECIFICATION Spec
INVARIANTS EndShownIsEnd StatusIsHonest
\* The session may be over and the page left.
CHECK_DEADLOCK FALSE
