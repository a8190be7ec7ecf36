SPECIFICATION Spec
CONSTANTS
    None = None
    Tabs = {t1}
    Wallets = {w1, w2}
    UnlockTTL = 1
    VerifiedTTL = 2
    MaxTime = 2
INVARIANTS LockIsFinal
