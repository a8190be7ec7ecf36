SPECIFICATION Spec
CONSTANTS
    None = None
    Wallets = {w1, w2}
    Uploads = {u1}
    MaxCid = 2
SYMMETRY MCSymmetry
CONSTRAINT MCBounds
INVARIANTS IInv ListOfOpenVault ListIsCurrent EntryOfWallet
PROPERTIES KeyOfUpload RetryLoads
