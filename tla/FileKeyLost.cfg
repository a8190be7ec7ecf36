SPECIFICATION Spec
CONSTANTS
    Wallets = {w1, w2}
    Uploads = {u1}
    Elsewhere = {v1}
    None = None
    NoProof = NoProof
    NoCall = NoCall
    Null = Null
    Fail = Fail
    TTL = 1
    MaxTime = 2
    MaxNonce = 2
INVARIANT OwnerCanUnwrap
