-------------------------- MODULE MCManifestService --------------------------
(* Instances of ManifestService for TLC.                                    *)
EXTENDS ManifestService

Entry(i, f, a) == [id |-> i, file |-> f, at |-> a]

\* One device, one tab, one wallet: a load, made with the vault-root signature
\* of another wallet, races three appends, of which the last carries again the
\* entry of the first.
OneTabDevice == [t1 |-> "d1"]
OneTabKind ==
    [load1 |-> "load", append1 |-> "append", append2 |-> "append",
     append3 |-> "append"]
OneTabCalls == DOMAIN OneTabKind
OneTabTab == [c \in OneTabCalls |-> "t1"]
OneTabWallet == [c \in OneTabCalls |-> "w1"]
OneTabKey == [OneTabWallet EXCEPT !["load1"] = "w2"]
OneTabEntry ==
    [load1   |-> Entry(1, "f1", 1), append1 |-> Entry(1, "f1", 1),
     append2 |-> Entry(2, "f2", 1), append3 |-> Entry(3, "f1", 1)]

\* Two devices, the first with two tabs, and two wallets: one tab appends, the
\* other loads, publishes what it shows and restores for the second wallet; the
\* second device restores and appends.
SharedDevice == [t1 |-> "d1", t2 |-> "d1", t3 |-> "d2"]
SharedKind ==
    [append1 |-> "append", publish2 |-> "publish", restore2 |-> "restore",
     load2 |-> "load", restore3 |-> "restore", append3 |-> "append"]
SharedCalls == DOMAIN SharedKind
SharedTab ==
    [append1 |-> "t1", publish2 |-> "t2", restore2 |-> "t2", load2 |-> "t2",
     restore3 |-> "t3", append3 |-> "t3"]
SharedWallet ==
    [[c \in SharedCalls |-> "w1"] EXCEPT !["restore2"] = "w2"]
SharedEntry ==
    [c \in SharedCalls |->
        IF c = "append3" THEN Entry(3, "f3", 3) ELSE Entry(1, "f1", 1)]
=============================================================================
