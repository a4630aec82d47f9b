\* Two accounts, so that lists of both can be on their way, and a secret.
CONSTANTS
    A = A
    B = B
    a1 = a1
    a2 = a2
    Team = {A, B}
    Sessions <- SessionsOf
    Secret = {x}
    MaxPending = 3
    None = None
SPECIFICATION FairSpec
INVARIANTS QuietPageIsCurrent SecretsListed
PROPERTY SpinnerEnds
