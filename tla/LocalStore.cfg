SPECIFICATION Spec
CONSTANTS
    wallet = wallet
    put1 = put1
    put2 = put2
    get1 = get1
    del1 = del1
    cid1 = cid1
    i1 = i1
    i2 = i2
    i3 = i3
    Puts = {put1, put2}
    Gets = {get1}
    Dels = {del1}
    Wallets = {wallet}
    Cids = {cid1}
    WalletOf <- MCWalletOf
    CidOf <- MCCidOf
    NoCid = NoCid
    Names = {main, other}
    Default = main
    Instances = {i1, i2, i3}
    NoInst = NoInst
    Absent = Absent
SYMMETRY Symmetry
INVARIANT LInv
PROPERTIES AloneIsAtomic NoBlindOverwrite
CHECK_DEADLOCK FALSE
