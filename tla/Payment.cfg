\* Two requests: they carry two payments, or one payment twice, spelled alike or
\* not, before or after a restart.  With the attestation there are three
\* transactions of one wallet.
CONSTANTS
    Auth = {a, b}
    Spelling = {plain, bare}
    Req = {r1, r2}
    AttestTx = {x}
    MaxRestarts = 1
    None = None
SPECIFICATION PaymentSpec
SYMMETRY Symmetry
INVARIANTS PaidOnce SentCanBeMined ChargedPassed
\* Every request may be over.
CHECK_DEADLOCK FALSE
