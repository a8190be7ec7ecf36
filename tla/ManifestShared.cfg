CONSTANTS
    Devices = {"d1", "d2"}
    Tabs = {"t1", "t2", "t3"}
    Wallets = {"w1", "w2"}
    NoCall = NoCall
    MaxEntries = 2
    Calls <- SharedCalls
    DeviceOf <- SharedDevice
    Kind <- SharedKind
    TabOf <- SharedTab
    WalletOf <- SharedWallet
    KeyOf <- SharedWallet
    EntryOf <- SharedEntry
SPECIFICATION Spec
INVARIANTS IInv PointersDesignate
PROPERTIES UsesRegistryLog
