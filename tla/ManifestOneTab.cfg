CONSTANTS
    Devices = {"d1"}
    Tabs = {"t1"}
    Wallets = {"w1", "w2"}
    NoCall = NoCall
    MaxEntries = 2
    Calls <- OneTabCalls
    DeviceOf <- OneTabDevice
    Kind <- OneTabKind
    TabOf <- OneTabTab
    WalletOf <- OneTabWallet
    KeyOf <- OneTabKey
    EntryOf <- OneTabEntry
SPECIFICATION FairSpec
INVARIANTS MutexExclusion NoDuplicateEntry AckedEntriesSurvive
PROPERTIES PointerExtends EveryCallSettles ImplementsList
