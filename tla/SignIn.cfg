\* Two wallets to switch between, and a sign-in beside one that the server still
\* works on.
CONSTANTS
    Wallet = {A, B}
    SignIn = {f1, f2}
    None = None
SPECIFICATION SignInFairSpec
INVARIANTS TokenIsSigned TokenIsStored LockIsHeld
PROPERTY SignInResolves
