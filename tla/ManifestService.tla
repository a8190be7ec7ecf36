--------------------------- MODULE ManifestService ---------------------------
(***************************************************************************)
(* The manifest of a wallet: an encrypted list of entries kept on IPFS,    *)
(* designated by a CID pointer in the localStorage of a device and, once   *)
(* published, by the registry of the wallet on Solana.                     *)
(*                                                                         *)
(* A call of loadManifestOrInit, appendEntryAndPersist, handleRestore or   *)
(* handlePublish is an element of Calls.  A call is cut at each await that *)
(* lets another callback of the tab, another tab or another device run:    *)
(* pc[c] names the await it is suspended at, base[c] the CID it holds      *)
(* across it.  What lies between two awaits is one action.                 *)
(***************************************************************************)
EXTENDS Integers, Sequences, Functions

CONSTANTS
    Devices,    \* browser profiles: each has its own localStorage
    Tabs,       \* tabs of the application, each with its own heap
    Wallets,
    Calls,      \* invocations, each made at most once
    DeviceOf,   \* [Tabs -> Devices]
    Kind,       \* [Calls -> Kinds]
    TabOf,      \* [Calls -> Tabs]
    WalletOf,   \* [Calls -> Wallets]: the walletPubKey parameter
    KeyOf,      \* [Calls -> Wallets]: the wallet whose vault-root signature
                \*   is the signatureBytes parameter
    EntryOf,    \* the entry an append carries: [id, file, at]
    NoCall,
    MaxEntries  \* capacity of a registry account

Kinds == {"load", "append", "restore", "publish"}

ASSUME CallAssumption ==
    /\ DeviceOf \in [Tabs -> Devices]
    /\ Kind \in [Calls -> Kinds]
    /\ TabOf \in [Calls -> Tabs]
    /\ WalletOf \in [Calls -> Wallets]
    /\ KeyOf \in [Calls -> Wallets]
    /\ DOMAIN EntryOf = Calls
    /\ NoCall \notin Calls
    /\ MaxEntries \in Nat

VARIABLES
    store,      \* the objects IPFS holds; the CID of an object is its index
    ptr,        \* getManifestCid, per device and wallet; 0 is null
    shown,      \* localManifestCid of the registry widget, per tab and wallet
    chain,      \* the CIDs of the registry account of a wallet, oldest first
    tail,       \* the mutex of a tab and wallet: the call whose promise ends
                \*   its chain; NoCall is the promise it was created with
    previous,   \* the promise a call in runExclusive awaits, by its call
    released,   \* the calls whose promise is resolved
    queue,      \* history: the calls in runExclusive, per tab and wallet, in
                \*   the order they came
    pc,         \* where each call is
    base,       \* the CID a call holds across an await
    head,       \* the onChainLatestManifestCid an append was given; 0 is null
    raced,      \* history: <<device, wallet>> whose pointer was set when a
                \*   write that had read it as null, or not at all, landed
    foreign     \* history: wallets a restore was called for with a CID their
                \*   registry does not list, or that were shown another one's

vars == <<store, ptr, shown, chain, tail, previous, released, queue, pc, base, head,
          raced, foreign>>

mutex == <<tail, previous, released, queue>>

NoCid == 0
Pending == {"queued", "init", "reread", "cat", "put", "import", "send"}
Settled == {"done", "failed", "refused", "killed", "late"}

\* Where a call is that failed or was killed at p.  A transaction that was sent
\* may still be executed: its publication is late.
Broken(p, how) == IF p = "send" THEN "late" ELSE how

Object(c, entries) ==
    [wallet |-> WalletOf[c], key |-> KeyOf[c], entries |-> entries]

Dev(c) == DeviceOf[TabOf[c]]
Pointer(c) == ptr[Dev(c)][WalletOf[c]]
Queue(c) == queue[TabOf[c]][WalletOf[c]]

\* Two entries the append takes for the same one.
Same(e, f) == e.id = f.id \/ (e.file = f.file /\ e.at = f.at)

Has(entries, e) == \E i \in DOMAIN entries : Same(entries[i], e)

\* Mutant of Merge: the duplicate check is dropped.
MergeBlindly(entries, e) == Append(entries, e)

Merge(entries, e) == IF Has(entries, e) THEN entries ELSE Append(entries, e)

\* unwrapManifestKey and decryptManifestV1 accept the object the call read.
Opens(c) == LET o == store[base[c]] IN o.wallet = WalletOf[c] /\ o.key = KeyOf[c]

\* The head a component may know: none, or that of some wallet at some time.
\* The answer for the previous wallet stays until the one for the next arrives,
\* and answers are not matched with the wallet they were asked for.
KnownHeads == {NoCid} \cup UNION {Range(chain[w]) : w \in Wallets}

-----------------------------------------------------------------------------
Init ==
    /\ store = <<>>
    /\ ptr = [d \in Devices |-> [w \in Wallets |-> NoCid]]
    /\ shown = [t \in Tabs |-> [w \in Wallets |-> NoCid]]
    /\ chain = [w \in Wallets |-> <<>>]
    /\ tail = [t \in Tabs |-> [w \in Wallets |-> NoCall]]
    /\ previous = [c \in Calls |-> NoCall]
    /\ released = {}
    /\ queue = [t \in Tabs |-> [w \in Wallets |-> <<>>]]
    /\ pc = [c \in Calls |-> "idle"]
    /\ base = [c \in Calls |-> NoCid]
    /\ head = [c \in Calls |-> NoCid]
    /\ raced = {}
    /\ foreign = {}

Fulfilled(p) == p = NoCall \/ p \in released

\* runExclusive releases in its finally block, whatever the outcome.
Release(c) ==
    /\ released' = IF Kind[c] = "append" THEN released \cup {c} ELSE released
    /\ queue' = [queue EXCEPT ![TabOf[c]][WalletOf[c]] =
                     IF Kind[c] = "append" THEN Tail(@) ELSE @]
    /\ UNCHANGED <<tail, previous>>

\* Mutant of SetPointer: the storage key leaves the wallet out.
SetPointerUnscoped(c, cid) ==
    /\ ptr' = [ptr EXCEPT ![Dev(c)] = [w \in Wallets |-> cid]]
    /\ shown' = [shown EXCEPT ![TabOf[c]] = ptr'[Dev(c)]]

\* setManifestCid; its event makes the widget of the same tab read again.
SetPointer(c, cid) ==
    /\ ptr' = [ptr EXCEPT ![Dev(c)][WalletOf[c]] = cid]
    /\ shown' = [shown EXCEPT ![TabOf[c]] = ptr'[Dev(c)]]

\* The write of a call that never read the pointer it replaces.
NoteBlindWrite(c) ==
    raced' = IF Pointer(c) = NoCid THEN raced ELSE raced \cup {<<Dev(c), WalletOf[c]>>}

-----------------------------------------------------------------------------
\* loadManifestOrInit up to its first await, with h the on-chain head.
ReadPointer(c, h) ==
    \/ /\ Pointer(c) # NoCid
       /\ pc' = [pc EXCEPT ![c] = "cat"]
       /\ base' = [base EXCEPT ![c] = Pointer(c)]
       /\ UNCHANGED mutex
    \/ /\ Pointer(c) = NoCid /\ h # NoCid
       /\ pc' = [pc EXCEPT ![c] = "refused"]
       /\ Release(c)
       /\ UNCHANGED base
    \/ /\ Pointer(c) = NoCid /\ h = NoCid
       /\ pc' = [pc EXCEPT ![c] = "init"]
       /\ UNCHANGED <<base, mutex>>

CallLoad(c) ==
    /\ Kind[c] = "load" /\ pc[c] = "idle"
    /\ \E h \in KnownHeads : ReadPointer(c, h)
    /\ UNCHANGED <<store, ptr, shown, chain, head, raced, foreign>>

\* Mutant of CallAppend: the tail is awaited and not replaced.
CallAppendKeepingTail(c) ==
    /\ Kind[c] = "append" /\ pc[c] = "idle"
    /\ \E h \in KnownHeads : head' = [head EXCEPT ![c] = h]
    /\ pc' = [pc EXCEPT ![c] = "queued"]
    /\ previous' = [previous EXCEPT ![c] = tail[TabOf[c]][WalletOf[c]]]
    /\ queue' = [queue EXCEPT ![TabOf[c]][WalletOf[c]] = Append(@, c)]
    /\ UNCHANGED <<tail, released, store, ptr, shown, chain, base, raced, foreign>>

\* runExclusive up to its await: the promise of the call becomes the tail.
CallAppend(c) ==
    /\ Kind[c] = "append" /\ pc[c] = "idle"
    /\ \E h \in KnownHeads : head' = [head EXCEPT ![c] = h]
    /\ pc' = [pc EXCEPT ![c] = "queued"]
    /\ previous' = [previous EXCEPT ![c] = tail[TabOf[c]][WalletOf[c]]]
    /\ tail' = [tail EXCEPT ![TabOf[c]][WalletOf[c]] = c]
    /\ queue' = [queue EXCEPT ![TabOf[c]][WalletOf[c]] = Append(@, c)]
    /\ UNCHANGED <<released, store, ptr, shown, chain, base, raced, foreign>>

\* Mutant of Enter: runExclusive does not await the previous holder.
EnterAtOnce(c) ==
    /\ pc[c] = "queued"
    /\ ReadPointer(c, head[c])
    /\ UNCHANGED <<store, ptr, shown, chain, head, raced, foreign>>

\* The promise awaited is resolved: the exclusive section starts.
Enter(c) ==
    /\ pc[c] = "queued" /\ Fulfilled(previous[c])
    /\ ReadPointer(c, head[c])
    /\ UNCHANGED <<store, ptr, shown, chain, head, raced, foreign>>

\* addBytes of the empty manifest resolves: the pointer is set, whatever it is.
InitLands(c) ==
    /\ pc[c] = "init"
    /\ store' = Append(store, Object(c, <<>>))
    /\ SetPointer(c, Len(store'))
    /\ NoteBlindWrite(c)
    /\ pc' = [pc EXCEPT ![c] = IF Kind[c] = "append" THEN "reread" ELSE "done"]
    /\ UNCHANGED <<chain, mutex, base, head, foreign>>

\* appendEntryAndPersist reads the pointer again once its init returned.
Reread(c) ==
    /\ pc[c] = "reread"
    /\ base' = [base EXCEPT ![c] = Pointer(c)]
    /\ pc' = [pc EXCEPT ![c] = "cat"]
    /\ UNCHANGED <<store, ptr, shown, chain, mutex, head, raced, foreign>>

\* catBytes resolves and the object opens.
CatReturns(c) ==
    /\ pc[c] = "cat" /\ Opens(c)
    /\ pc' = [pc EXCEPT ![c] = IF Kind[c] = "append" THEN "put" ELSE "done"]
    /\ UNCHANGED <<store, ptr, shown, chain, mutex, base, head, raced, foreign>>

\* addBytes of the extended manifest resolves: pointer, return and release.
PutLands(c) ==
    /\ pc[c] = "put"
    /\ store' = Append(store, Object(c, Merge(store[base[c]].entries, EntryOf[c])))
    /\ SetPointer(c, Len(store'))
    /\ pc' = [pc EXCEPT ![c] = "done"]
    /\ Release(c)
    /\ UNCHANGED <<chain, base, head, raced, foreign>>

\* Mutants of Fails: the pointer is set before the upload; a manifest that
\* cannot be fetched is created anew; a rejection leaves the mutex taken.
FailsAfterPointer(c) ==
    /\ pc[c] = "put"
    /\ SetPointer(c, Len(store) + 1)
    /\ pc' = [pc EXCEPT ![c] = "failed"]
    /\ Release(c)
    /\ UNCHANGED <<store, chain, base, head, raced, foreign>>

FailsByInit(c) ==
    /\ pc[c] = "cat" /\ Kind[c] = "append"
    /\ store' = Append(store, Object(c, <<>>))
    /\ SetPointer(c, Len(store'))
    /\ pc' = [pc EXCEPT ![c] = "reread"]
    /\ UNCHANGED <<chain, mutex, base, head, raced, foreign>>

FailsHoldingMutex(c) ==
    /\ pc[c] \in {"init", "cat", "put", "import", "send"}
    /\ pc' = [pc EXCEPT ![c] = Broken(@, "failed")]
    /\ UNCHANGED <<store, ptr, shown, chain, mutex, base, head, raced, foreign>>

\* An await rejects (timeout, network, key or integrity check, quota): the
\* call throws.  A rejected upload may nevertheless have reached the store.
Fails(c) ==
    /\ pc[c] \in {"init", "cat", "put", "import", "send"}
    /\ \/ UNCHANGED store
       \/ /\ pc[c] = "init"
          /\ store' = Append(store, Object(c, <<>>))
       \/ /\ pc[c] = "put"
          /\ store' = Append(store, Object(c, Merge(store[base[c]].entries, EntryOf[c])))
    /\ pc' = [pc EXCEPT ![c] = Broken(@, "failed")]
    /\ Release(c)
    /\ UNCHANGED <<ptr, shown, chain, base, head, raced, foreign>>

-----------------------------------------------------------------------------
\* handleRestore: offered while the widget shows no local pointer and knows a
\* head; it awaits a dynamic import, then sets the pointer.
CallRestore(c) ==
    /\ Kind[c] = "restore" /\ pc[c] = "idle"
    /\ shown[TabOf[c]][WalletOf[c]] = NoCid
    /\ \E h \in KnownHeads \ {NoCid} :
           /\ base' = [base EXCEPT ![c] = h]
           /\ foreign' = IF h \in Range(chain[WalletOf[c]]) THEN foreign
                         ELSE foreign \cup {WalletOf[c]}
    /\ pc' = [pc EXCEPT ![c] = "import"]
    /\ UNCHANGED <<store, ptr, shown, chain, mutex, head, raced>>

\* The widget then shows the CID, for the wallet that is connected by now.
RestoreLands(c) ==
    /\ pc[c] = "import"
    /\ ptr' = [ptr EXCEPT ![Dev(c)][WalletOf[c]] = base[c]]
    /\ \E w \in Wallets :
           /\ shown' = [shown EXCEPT ![TabOf[c]] = [ptr'[Dev(c)] EXCEPT ![w] = base[c]]]
           /\ foreign' = IF w = WalletOf[c] THEN foreign ELSE foreign \cup {w}
    /\ NoteBlindWrite(c)
    /\ pc' = [pc EXCEPT ![c] = "done"]
    /\ UNCHANGED <<store, chain, mutex, base, head>>

\* handlePublish sends the CID the widget shows, which may be stale by then.
CallPublish(c) ==
    /\ Kind[c] = "publish" /\ pc[c] = "idle"
    /\ shown[TabOf[c]][WalletOf[c]] # NoCid
    /\ base' = [base EXCEPT ![c] = shown[TabOf[c]][WalletOf[c]]]
    /\ pc' = [pc EXCEPT ![c] = "send"]
    /\ UNCHANGED <<store, ptr, shown, chain, mutex, head, raced, foreign>>

\* Mutant of PublishLands: the CID is read from the widget at the end.
PublishLandsShown(c) ==
    LET cid == shown[TabOf[c]][WalletOf[c]] IN
    /\ pc[c] \in {"send", "late"}
    /\ cid \notin Range(chain[WalletOf[c]])
    /\ Len(chain[WalletOf[c]]) < MaxEntries
    /\ chain' = [chain EXCEPT ![WalletOf[c]] = Append(@, cid)]
    /\ pc' = [pc EXCEPT ![c] = "done"]
    /\ UNCHANGED <<store, ptr, shown, mutex, base, head, raced, foreign>>

\* The transaction is executed, also after its call timed out or its page was
\* reloaded.  The program refuses a CID it has and an account that is full.
PublishLands(c) ==
    /\ pc[c] \in {"send", "late"}
    /\ base[c] \notin Range(chain[WalletOf[c]])
    /\ Len(chain[WalletOf[c]]) < MaxEntries
    /\ chain' = [chain EXCEPT ![WalletOf[c]] = Append(@, base[c])]
    /\ pc' = [pc EXCEPT ![c] = "done"]
    /\ UNCHANGED <<store, ptr, shown, mutex, base, head, raced, foreign>>

\* The widget mounts or its wallet changes.
Show(t) ==
    /\ shown' = [shown EXCEPT ![t] = ptr[DeviceOf[t]]]
    /\ UNCHANGED <<store, ptr, chain, mutex, pc, base, head, raced, foreign>>

\* The tab is reloaded or crashes: its heap, and every call in it, is lost.
Reload(t) ==
    /\ pc' = [c \in Calls |-> IF TabOf[c] = t /\ pc[c] \in Pending
                              THEN Broken(pc[c], "killed") ELSE pc[c]]
    /\ tail' = [tail EXCEPT ![t] = [w \in Wallets |-> NoCall]]
    /\ queue' = [queue EXCEPT ![t] = [w \in Wallets |-> <<>>]]
    /\ shown' = [shown EXCEPT ![t] = ptr[DeviceOf[t]]]
    /\ UNCHANGED <<previous, released, store, ptr, chain, base, head, raced, foreign>>

Resume(c) ==
    \/ Enter(c) \/ InitLands(c) \/ Reread(c) \/ CatReturns(c) \/ PutLands(c)
    \/ RestoreLands(c) \/ PublishLands(c) \/ Fails(c)

Next ==
    \/ \E c \in Calls : \/ CallLoad(c) \/ CallAppend(c) \/ CallRestore(c)
                        \/ CallPublish(c) \/ Resume(c)
    \/ \E t \in Tabs : Show(t) \/ Reload(t)

Spec == Init /\ [][Next]_vars

\* Promise continuations run, and the IPFS client aborts a request to Kubo whose
\* timer fires (IpfsClient!CallSettles; Helia may keep a call).  A publication
\* waits for the approval of the user.
Awaited == {c \in Calls : Kind[c] # "publish"}

FairSpec == Spec /\ \A c \in Awaited : WF_vars(Resume(c))

-----------------------------------------------------------------------------
Cids == 0 .. Len(store)

TypeOK ==
    /\ store \in Seq([wallet : Wallets, key : Wallets, entries : Seq(Range(EntryOf))])
    /\ ptr \in [Devices -> [Wallets -> Cids]]
    /\ shown \in [Tabs -> [Wallets -> Cids]]
    /\ chain \in [Wallets -> Seq(1 .. Len(store))]
    /\ tail \in [Tabs -> [Wallets -> Calls \cup {NoCall}]]
    /\ previous \in [Calls -> Calls \cup {NoCall}]
    /\ released \subseteq Calls
    /\ queue \in [Tabs -> [Wallets -> Seq(Calls)]]
    /\ pc \in [Calls -> {"idle"} \cup Pending \cup Settled]
    /\ base \in [Calls -> Cids]
    /\ head \in [Calls -> Cids]
    /\ raced \subseteq Devices \X Wallets
    /\ foreign \subseteq Wallets

\* At most one append of a tab and wallet is past the mutex.
Holding == {"init", "reread", "cat", "put"}

MutexExclusion ==
    \A c1, c2 \in Calls :
        /\ Kind[c1] = "append" /\ Kind[c2] = "append"
        /\ TabOf[c1] = TabOf[c2] /\ WalletOf[c1] = WalletOf[c2]
        /\ pc[c1] \in Holding /\ pc[c2] \in Holding
        => c1 = c2

\* A pointer, local, shown or on-chain, designates a stored manifest: nothing is
\* designated before its upload.  As long as no restore took the CID from the
\* registry of another wallet, it is a manifest of that very wallet, wrapped
\* under a key some call of that wallet was given.
Designates(f, s, cid, w) ==
    /\ cid \in DOMAIN s
    /\ w \notin f =>
         /\ s[cid].wallet = w
         /\ \E c \in Calls : WalletOf[c] = w /\ KeyOf[c] = s[cid].key

PointersDesignate ==
    \A w \in Wallets :
        /\ \A d \in Devices : ptr[d][w] # NoCid => Designates(foreign, store, ptr[d][w], w)
        /\ \A t \in Tabs : shown[t][w] # NoCid => Designates(foreign, store, shown[t][w], w)
        /\ \A i \in DOMAIN chain[w] : Designates(foreign, store, chain[w][i], w)

\* No manifest lists an entry twice, whatever calls carry the same entry.
NoDuplicateEntry ==
    \A n \in DOMAIN store :
        \A i, j \in DOMAIN store[n].entries :
            Same(store[n].entries[i], store[n].entries[j]) => i = j

\* The device has one tab open: the code claims no more than an in-tab mutex.
SingleTab(d) ==
    \A t1, t2 \in Tabs : DeviceOf[t1] = d /\ DeviceOf[t2] = d => t1 = t2

Guarded(d, w) == SingleTab(d) /\ <<d, w>> \notin raced

\* An append that returned stays in the manifest of its device, through later
\* appends, failures and reloads, as long as no blind write landed.
Kept(c) == Pointer(c) # NoCid /\ Has(store[Pointer(c)].entries, EntryOf[c])

AckedEntriesSurvive ==
    \A c \in Calls :
        Kind[c] = "append" /\ pc[c] = "done" /\ Guarded(Dev(c), WalletOf[c]) => Kept(c)

\* "No silent regeneration/reset": a pointer that is set only ever moves to a
\* manifest that extends the one it designated.
Extends(s, t) == Len(s) <= Len(t) /\ \A i \in 1 .. Len(s) : s[i] = t[i]

PointerExtends ==
    [][\A d \in Devices, w \in Wallets :
          ptr[d][w] # NoCid /\ ptr'[d][w] # ptr[d][w] /\ Guarded(d, w)' =>
              Extends(store[ptr[d][w]].entries, store'[ptr'[d][w]].entries)]_vars

\* The inductive strengthening behind the theorems of ManifestServiceProofs:
\* what the queue of a mutex holds, what a suspended call may rely on, and
\* that the append past the mutex still holds the current pointer.
QueueInv ==
    \A t \in Tabs, w \in Wallets : \A i \in 1 .. Len(queue[t][w]) :
        LET c == queue[t][w][i] IN
        /\ Kind[c] = "append" /\ TabOf[c] = t /\ WalletOf[c] = w
        /\ pc[c] \in {"queued"} \cup Holding
        /\ i > 1 => pc[c] = "queued"
        /\ \A j \in 1 .. Len(queue[t][w]) : queue[t][w][j] = c => i = j

QueuedInv ==
    \A c \in Calls :
        Kind[c] = "append" /\ pc[c] \in {"queued"} \cup Holding =>
            \E i \in 1 .. Len(Queue(c)) : Queue(c)[i] = c

\* The promise chain is that queue: each call awaits the promise of the one
\* before it, the tail is the promise of the last, and nobody but the first may
\* enter, who always may.
PromiseInv ==
    /\ \A c \in released : pc[c] \in Settled
    /\ \A t \in Tabs, w \in Wallets :
         LET q == queue[t][w] IN
         /\ q = <<>> => Fulfilled(tail[t][w])
         /\ q # <<>> => tail[t][w] = q[Len(q)] /\ Fulfilled(previous[q[1]])
         /\ \A i \in 2 .. Len(q) : previous[q[i]] = q[i - 1]

CallInv ==
    \A c \in Calls :
        /\ pc[c] \in {"queued", "reread", "put"} => Kind[c] = "append"
        /\ pc[c] \in {"init", "cat"} => Kind[c] \in {"load", "append"}
        /\ pc[c] \in {"cat", "put", "import", "send", "late"} =>
             Designates(foreign, store, base[c], WalletOf[c])
        /\ pc[c] = "import" => Kind[c] = "restore"
        /\ pc[c] \in {"send", "late"} => Kind[c] = "publish"
        /\ pc[c] = "reread" => Pointer(c) # NoCid

FreshInv ==
    \A c \in Calls :
        /\ Kind[c] = "append" /\ pc[c] \in {"cat", "put"} /\ Guarded(Dev(c), WalletOf[c])
        => base[c] = Pointer(c)

IInv ==
    /\ TypeOK
    /\ QueueInv /\ QueuedInv /\ PromiseInv /\ CallInv /\ FreshInv
    /\ PointersDesignate /\ NoDuplicateEntry /\ AckedEntriesSurvive

\* A call that starts settles: the mutex is released on every path, so no
\* failure or reload leaves a later append waiting for ever.
EveryCallSettles ==
    \A c \in Awaited : pc[c] \in Pending ~> pc[c] \in Settled

-----------------------------------------------------------------------------
(* What the calls promise together, and what they rely on.                  *)

\* Each append is one step on the list its device has for its wallet, or none,
\* although it reads, uploads and moves the pointer at four awaits; the list is
\* out of the promise where a write that had not read it landed.
Appends == {c \in Calls : Kind[c] = "append"}

ListOf(d, w) ==
    [some    |-> ptr[d][w] # NoCid,
     entries |-> IF ptr[d][w] = NoCid THEN <<>> ELSE store[ptr[d][w]].entries]

AppendState(c) ==
    IF pc[c] \in Pending THEN "pending"
    ELSE IF pc[c] \in {"idle", "done"} THEN pc[c] ELSE "failed"

List == INSTANCE ManifestList WITH
    Calls <- Appends, DeviceOf <- [c \in Appends |-> Dev(c)],
    list <- [d \in Devices |-> [w \in Wallets |-> ListOf(d, w)]],
    state <- [c \in Appends |-> AppendState(c)],
    suspended <- raced \cup {p \in Devices \X Wallets : ~SingleTab(p[1])}

ImplementsList == List!Spec

\* The registry is used as the log that the program and its client implement
\* (Registry!ImplementsLog): a publication is recorded at most once, perhaps
\* long after its call timed out or its page was gone.
Publications == {c \in Calls : Kind[c] = "publish"}

PublicationState(c) ==
    IF pc[c] = "idle" THEN "idle"
    ELSE IF pc[c] = "done" THEN "recorded" ELSE "sent"

Account == INSTANCE RegistryLog WITH
    Calls <- Publications, Capacity <- MaxEntries, log <- chain,
    cid <- [c \in Publications |-> base[c]],
    state <- [c \in Publications |-> PublicationState(c)]

UsesRegistryLog == Account!Spec

-----------------------------------------------------------------------------
(* What the documents and the comments say and the code does not ensure. *)

\* task-06.md: each upload is added to the manifest: an append that returned is
\* listed by the manifest of its device from then on.
EveryAckedEntrySurvives ==
    \A c \in Calls : Kind[c] = "append" /\ pc[c] = "done" => Kept(c)

\* service.ts: "Do not create empty manifest if an on-chain one exists."
NoInitOverChain ==
    [][\A c \in Calls :
          pc[c] # "init" /\ pc'[c] = "init" => chain[WalletOf[c]] = <<>>]_vars
=============================================================================
