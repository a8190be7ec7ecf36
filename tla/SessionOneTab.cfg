SPECIFICATION FairSpec
CONSTANTS
    None = None
    Tabs = {t1}
    Wallets = {w1, w2}
    UnlockTTL = 1
    VerifiedTTL = 2
    MaxTime = 3
INVARIANTS OpenVaultIsWhole VerifiedOfWallet IInv
PROPERTIES ImplementsVault AdapterIsFollowed
