SPECIFICATION Spec
CONSTANTS
    Wallets <- MCWallets
    Publishes <- MCPublishes
    WalletOf <- MCWalletOf
    CidOf <- MCCidOf
    MaxEntries = 2
    MaxTime = 2
INVARIANTS NoDuplicateCid TimesOrdered RecordedOnce ReportedIsListed IInv
PROPERTIES PublishedIsHead HistoryGrows ImplementsLog
\* Every call ends and the clock is bounded.
CHECK_DEADLOCK FALSE
