# Sovereign Jedi: a verification project

Sovereign Jedi stores files of a wallet owner on IPFS, encrypted in the browser. The list of the
files (the *manifest*) is itself an encrypted object on IPFS; a CID in `localStorage` designates the
current one, and the owner may publish that CID to a registry account on Solana, from which another
device restores it. Files named below without a directory are found in `src/apps/web`,
`src/packages` or `src/programs/sj_registry_program`.

This directory holds TLA+ modules translated from the source, TLC configurations that check them on
small instances, and theorems that TLAPS proves for every value of the constants.
`PROJECT.json` maps each definition to the lines it models and lists runs, mutants, findings,
hazards and theorems.

    tlc -workers 2 -config ManifestOneTab.cfg MCManifestService.tla
    tlapm ManifestServiceProofs.tla

## 1. Inventory

| Component | State | Operations | Talks to |
|---|---|---|---|
| Session manager (`lib/session/SessionManager.ts`) | wallet, open flag, unlock and vault-root messages with signatures, Verified signal (also in `localStorage`) | connect, unlock (two signatures), lock, disconnect, load | hook (`sj-session-changed`), wallet provider |
| Session hook (`useSession.ts`) | React copy of the session, the on-chain registry | refresh on events, fetch of the registry | session manager, registry client |
| Wallet connection (`ConnectWallet.tsx`, `_app.tsx`) | the adapter's public key | follow the adapter, disconnect | session hook |
| Unlock button, identity panel | call in progress | unlock, clear identity and lock | session hook |
| Identity (`VerifyWallet.tsx`, `wallet/utils.ts`, `wallet/types.ts`) | the proof of control, `sj_identity` in the `localStorage` all tabs share; the copy the panel shows | sign to verify, load, clear, poll and storage event | upload, guards, session manager |
| Vault guards (`vaultGuards.ts`, `ProtectedAction.tsx`) | none | predicates of session and stored identity | upload |
| My files page (`pages/index.tsx`) | list shown, in-flight flag, key of the last refresh | refresh, upload | manifest service, upload |
| File upload (`uploadEncryptedToIpfs.ts`, `localEncryption.ts`) | none | derive a key from the proof's signature, wrap a file key with it, seal the file, upload; decrypt (called by no part of the program yet) | identity, IPFS client |
| Manifest service (`manifest/src/service.ts`) | a mutex per wallet | load or init, append | pointer storage, IPFS client, manifest encryption |
| Manifest encryption (`manifest/src/crypto.ts`, parts of `service.ts`) | none | derive, wrap, seal, open, check integrity | |
| Pointer storage (`manifest/src/storage.ts`) | `sj:manifestCid:<wallet>` per browser profile | get (copies a pointer kept without a cluster), set (with event), remove (called by nothing) | |
| Mutex (`manifest/src/internal/mutex.ts`) | tail promise | run exclusive | |
| Registry widget (`RegistryPublishWidget.tsx`) | the pointer it shows | publish, restore | registry client, pointer storage |
| Registry client (`RegistryService.ts`, `solana-registry`, `RetryUtils.ts`) | none | fetch with retries, publish, select head | registry program |
| Registry program (`sj_registry_program/src/lib.rs`) | one account per wallet | `init_registry`, `append_manifest` | |
| IPFS client (`ipfs/src/client.ts`) | the cached promise of the Helia node | add and cat bytes over Kubo or Helia, with timers | IPFS |
| Local storage package (`storage/src/index.ts`) | IndexedDB records, the Dexie instances kept, the last one | init, put, get, delete | used by no other part yet |
| Unlock and root messages (`crypto/src/index.ts`) | none | build, check the expiry, derive a key | session, upload |
| IPFS route (`pages/api/ipfs/add.ts`) | none | forwards an upload to Kubo | called by nothing |

What is hard:

- **Interleaving.** Everything runs on one event loop per tab, cut at each `await`: signatures the
  user may take minutes to give, network calls, dynamic imports. Several tabs share
  `localStorage`, several devices share IPFS and the registry. The only lock is a per-tab,
  per-wallet promise chain around appends; loads are outside of it.
- **Stale state.** Handlers close over the session they were rendered with; the on-chain head a
  caller passes is that of the last answer, of whatever wallet.
- **Failure.** Every network call may reject, or reject after it took effect; a tab may reload
  anywhere; a transaction may land after its confirmation timed out; an IndexedDB transaction may
  abort, or meet an instance that was closed.
- **Keys.** The key of a file depends on one signature over a random nonce, that of the manifest on one
  the wallet can make again; which of them is at hand changes with every verification and reload.
- **Time.** Unlock messages live 10 minutes, Verified 24 hours, and registry entries are ordered by
  the clock of the cluster in seconds.

What makes each component correct: *session*: an open vault holds both signatures, of the connected
wallet, and stays closed once locked; *manifest service*: an acknowledged entry is never lost, doubled or
hidden, pointers designate manifests that exist and are of the right wallet, the mutex is never left taken;
*page*: the list is that of the open vault, and up to date; a file is keyed and listed for the
wallet it was uploaded for; *registry*: append-only, bounded, no duplicate, and all clients agree
that the newest entry is the head; *IPFS client*: what is acknowledged is stored, a page has one node, a
call settles once; *local storage*: no record is replaced unread, and a call alone is one
step; *identity*: a proof is signed by the wallet it names; *encryption*: what was sealed opens with its own
key, for its own wallet and name, and with nothing else.

## 2. Modules

### ManifestService

A call of `loadManifestOrInit`, `appendEntryAndPersist`, `handleRestore` or `handlePublish` is an
element of `Calls`; `Kind`, `TabOf`, `WalletOf`, `KeyOf`, `EntryOf` are its parameters. `pc[c]` names the
await a call is suspended at (`queued` in the mutex, `init` and `put` in an upload, `cat` in a
download, `import`, `send`), `base[c]` the CID it holds meanwhile. One action is the code between
two awaits.

| State | Code |
|---|---|
| `store` | the objects on IPFS; a CID is an index, objects are immutable |
| `ptr` | `localStorage` per device and wallet |
| `shown` | `localManifestCid` of the registry widget |
| `chain` | CIDs of the registry accounts |
| `tail`, `previous`, `released` | the promise chain of a mutex: the promise at its end, the one each call awaits, those that are resolved; a promise is named by the call that made it |
| `queue` | history: the calls in `runExclusive`, in the order they came |
| `raced`, `foreign` | history: a write landed that had not read the pointer it replaced; a restore took a CID of another registry |

Encryption is abstract: an object carries the wallet and key it was made for, and opens for these
only. Contents are a sequence of entries; `Merge` is the duplicate check of the append. The head a
call is given is *any* CID some registry lists, or none: `useSession` matches no answer with its
request. A failed upload may or may not have stored its object. A publication whose call timed out or whose
page is gone is `late`: its transaction may be executed at any later time. The module maps to code of
`service.ts`, `storage.ts`, `mutex.ts`, `crypto.ts`, the widget and the page.

### ManifestList and RegistryLog

Two abstract specifications, and the joint between modules.

`ManifestList` is what callers of the append rely on: a device has for a wallet one list, or none yet; an append puts
its entry at the end of it in *one* step, or fails and leaves it alone. The promise is suspended for a list
that was written unread and for devices with several tabs, where an append may replace the others' entries.
`ManifestService!List` maps the list to the entries of the object the pointer designates.

`RegistryLog` is what the program relies on an account for: a log of CIDs that only grows, holds none twice
and is bounded; a publication is recorded at most once, perhaps long after its call was given up, or lost.
`Registry!ImplementsLog` (program, client and cluster implement it) and `ManifestService!UsesRegistryLog` (the
`chain` of ManifestService does too) are two refinements of it: what is proved of the log, `LogIsSound`, holds of
both, and ManifestService does nothing with the registry beyond what the log allows.

### SessionManager

One record per tab for the fields of the singleton, the adapter, the scheduled synchronisation
effect, and one `unlockVault` call cut at its three awaits (unlock signature, key derivation, root
signature). `during` records what disturbed the call: the adapter moved, or the vault was locked or
reconnected. Signatures record for which wallet the message was built and which account signed.

### VaultSession

What a tab's session promises to the page that reads it: the wallet, whether the vault is open, whether
Verified is there, and whether an open vault has both its signatures (`ready`). `unlockVault()`, three awaits in
SessionManager, is `Begin` and then `Open` or `Refuse` here; `unlock` tells whether it runs, alone or crossed by a
reconnection, a lock or a disconnection, after which it may still open the vault, without a signature perhaps.
`SessionManager!Vault(t)` instantiates it for each tab; `ImplementsVault` is checked and proved. MyFiles moves its
session by the actions of VaultSession and no others.

### Registry

The account of a wallet with `init_registry` and `append_manifest` as the program's constraints
make them (a transaction is atomic, and simulated before it is sent), and calls of
`publishManifest` cut at fetching, sending and confirming. Transactions may be lost, late, or
executed after the client gave up. `SelectHead` is the client's sort as it behaves, with
`publishedAt` compared as objects: it keeps the earlier of two entries of one second. A CID is its rank in the
lexicographic order.

### MyFiles

The page, over VaultSession: `sess` is the session of the moment, `seen` the one the page was rendered with, `due`
a render under way; `load` the refresh in flight, `lastKey` the key of the last one, `up` the uploads. A refresh
and an upload need the gate and both signatures (`Ready`). An unlock may be crossed by a lock or a switch; it opens
the vault after the page was rendered with what crossed it (`UnlockEnds`), because a signature of the wallet takes
longer than a render. `Disconnect` of VaultSession is left out: nothing in the app calls `disconnectWallet()`; the
button clears the identity, and the adapter may stay connected.

Three handlers are cut at their await: `load`, `restoring` (`handleRestore` at its import) and `prompt` (`doVerify`
at the signature). A prompt keeps the wallet of its click, while the account may change, the proof be cleared, or the
button pressed; the proof it saves is of that wallet. A restore keeps wallet and CID of its click: the CID is that of
the registry shown, so of any manifest stored, of any wallet, with or without entries of this page (`StartRestore`). A
manifest (`store`) is sealed for a wallet and lists uploads; a load of another wallet's fails. An append may have read any manifest
of its wallet (`Bases`), as loads and restores move the pointer during its awaits. A reload loses what is in
memory, and the identity panel removes the proof when it mounts without a wallet. `late`, `missed`, `switched` are
histories, explained at their declaration.

### IpfsClient and IpfsStore

One page. A call of `addBytes` or `catBytes` is suspended at the request or body of a Kubo
request, at the context, or at Helia (`pc`). `ctx` is `_ctxPromise`: none, pending, ready, or rejected;
`kubo` and `memory` are the objects of the two nodes, `working` the adds a node has received and may still
store, whether or not their caller waits any more. Each timer is an action: that of Kubo aborts, that of a
Helia add rejects the promise only, that of a Helia fetch sets `aborted`, read when a chunk arrives.

`IpfsStore` is what the rest of the program counts on, and what ManifestService and FileKeys take an
upload and a download to be: a call settles once, an acknowledged add is stored, one that failed
may be stored all the same, a fetch that succeeds found its object, a reload loses nothing if
the store is durable. `IpfsClient!Store` instantiates it with `durable <- useKubo`,
`stored <- kubo \cup memory`, and every await as "pending"; `ImplementsStore` is checked and proved.

### LocalStore

`initStorage` with the instances it makes, keeps and closes (`dbInstances`, `lastDbInstance`, `closed`;
Dexie opens one at its first use, `opened`), and `putManifest` cut at its two transactions, the lookup and
the write, each on the instance that is last at its start (`at`, `seen`). A record is told by the put
that wrote it, the one whose time is its `createdAt`, and its CID. `crowded` is the history of calls that
overlapped with a call or a switch. A transaction may abort, a page may reload; committed records stay.
`getManifest` stands for the calls that only read.

### Identity, LocalEncryption and FileKeys

`Identity` is the proof in one page: `stored` is `sj_identity`, `verify` the message a prompt is open for, `panel` the
identity shown, `mounted` the one the panel had when it was mounted, which its poll goes on comparing
with; `sess` the session as far as the guards read it. Other pages are what they do to the shared key. The
prompt may be answered by any account of the wallet. A reload removes the proof: the adapter does not
reconnect by itself (`_app.tsx`), and the panel clears the identity of a wallet that is not connected.

`LocalEncryption` is `encryptFile` and `decryptFile` with the fields they bind, where they take each from
and in which order, and the manifest's wrap, seal, unwrap and open with their checks. The cryptography is
symbolic: hashes, HMACs, signatures and sealed texts are the records of their arguments, HKDF is built from
HMAC as in the code; a random value is named by use and call, so that two draws differ; a
message's nonce stands for its time of issue too. Encodings (base64, UTF-8, canonical JSON) are injective
and left out.

`FileKeys` composes them: an upload (`up`) passes the guards, takes the stored proof's signature, stores its package
(`Package`), and is listed in a manifest (`ManifestOf`) or orphaned. What the ciphertexts and headers
are follows from `up`, and the properties open them as the program would.

`MCManifestService`, `MCRegistry`, `MCIpfsClient` and `MCLocalStore` give the constants of the instances,
`MCMyFiles` the symmetry and the bounds of one. The `...Proofs` modules extend their module with the theorems. Definitions commented "Mutant" are plausible bugs,
not behaviour: `PROJECT.json` names for each property the one that breaks it.

## 3. Runs

| Run | Checks | Instance |
|---|---|---|
| ManifestOneTab | MutexExclusion, NoDuplicateEntry, AckedEntriesSurvive, PointerExtends, EveryCallSettles, ImplementsList | one tab, one load with a key of another wallet, three appends, one a retry of another |
| ManifestShared | IInv, PointersDesignate, UsesRegistryLog | two devices, three tabs, two wallets: two appends, a load, two restores, one publication |
| SessionOneTab | OpenVaultIsWhole, VerifiedOfWallet, IInv, ImplementsVault, AdapterIsFollowed | one tab, two wallets, time 0..3, lifetimes 1 and 2 |
| RegistryAccount | NoDuplicateCid, TimesOrdered, RecordedOnce, ReportedIsListed, IInv, PublishedIsHead, HistoryGrows, ImplementsLog | one wallet, four calls, a retry among them, capacity 2, time 0..2 |
| MyFilesPage | IInv, ListOfOpenVault, ListIsCurrent, EntryOfWallet, KeyOfUpload, RetryLoads | one page, two wallets, one upload, two manifests, within `MCBounds` |
| IpfsClient | OneNode, IInv, ImplementsStore, CallSettles | one page, either backend: two adds of one content and one too large, a fetch of it and one of the empty object |
| LocalStore | LInv, AloneIsAtomic, NoBlindOverwrite | one wallet, two databases, three instances between reloads: two puts, a get, a delete |
| FileKeys | FInv, ProofIsBySigner, SealedOpens, PackageIsBound, PanelFollows | two wallets, an upload here and one elsewhere, two messages signed, lifetime 1, time 0..2 |
| ManifestLostEntry, ManifestEmptyOverChain, SessionLateUnlock, FileKeyLost | one property each, violated | as above |

**Bounds, and why they are enough.** The mutex needs a holder, a waiter and one more to go wrong; the retry
makes the third append carry an entry already listed. Two wallets are enough for any confusion of one with
another; two devices and two tabs of one of them for every sharing the code has. `MaxEntries = 2` with four
publications exceeds the capacity of an account and `MaxTime = 2` has entries in the same second and in later
ones. Lifetimes 1 and 2 with a clock to 3 let both expire in a session. `MaxCid = 2` allows the empty manifest
of a wallet and the one its upload extends, or one of another wallet that is restored. `MCBounds` prunes that
search: a closed session has no Verified (what reads it needs an open one), and a prompt or a restore does not
overlap with an unlock or an upload, nor a prompt with a load; account changes, locks, events, appended uploads and
reloads do cross them, and so do loads a restore. States are identified up to a permutation of the wallets. The
proofs of MyFiles have no such bound. In IpfsClient two adds of one content let an object be stored by
another call than the one that is told, late or after a reload; a fetch races them; the empty object and the
refused sizes take their error paths. In LocalStore two puts and a delete of one wallet make every order of
lookups and writes, and three instances a switch there and back. In FileKeys two wallets and two messages let
a proof be replaced by one of the same wallet or of the other, and lifetime 1 reaches the instant of expiry
and beyond. What the bounds cut off, the theorems below cover for the safety properties of all seven modules.

**Guards in the properties.** `AckedEntriesSurvive` and `PointerExtends` are stated for a device
with one tab open (`mutex.ts` claims nothing more) where no blind write landed (`raced`);
without the second guard they are false, which is what ManifestLostEntry shows.
`OpenVaultIsWhole` is stated for a call nothing disturbed; SessionLateUnlock shows why. `ListOfOpenVault`
excludes a list whose load outlived its session (`late`). `ListIsCurrent` excludes a page for which a refresh was dropped
because a load was in flight, or whose last load failed or was for a wallet the page has left (`missed`), and it allows
`Skipped`: the empty list of a page whose refresh after a lock was taken for a duplicate. What it excludes then is
the list of another wallet or of an older pointer. `RetryLoads` has no history in it: it says that the next event makes up
for whatever was missed, again but for `Skipped`. `KeyOfUpload` excludes an account that changed since the click on
"Sign to Verify" (`switched`). `PublishedIsHead` leaves open which of two entries of one second is the head.
`AloneIsAtomic` is about calls that
overlapped with nothing, as the package orders nothing; what overlapping puts may not do is
`NoBlindOverwrite`. `CallSettles` leaves out fetches from Helia and calls that await the node, `PanelFollows` the
times when the identity stored is the one of the mount: section 5 says why for both.

**Fairness.** `ManifestService!FairSpec`: a call other than a publication is resumed once it is suspended,
because promise continuations run and a request to Kubo is aborted when its timer fires. That is what
`IpfsClient!CallSettles` shows, from `IpfsClient!FairSpec`, which only assumes that timers fire; with Helia a
download may hang, and the liveness of ManifestService is claimed for a page that uses Kubo.
`SessionManager!FairSpec`: React runs a scheduled effect. `FileKeys!FairSpec`: the interval of the panel fires. Nothing is assumed of users, wallets,
nodes or the cluster. Deadlock is checked except in Registry, where all calls end and the clock is
bounded, and in LocalStore, where each call is made once.

## 4. Proofs

For any number of devices, tabs, wallets, objects, databases and calls, any capacity and any lifetime, under the named
ASSUMEs of the modules (the constants are functions of the right domains, `None` is no wallet,
lifetimes and the capacity are positive, a failure is none of the values that are sealed):

- **ManifestServiceProofs**: `TypeOK`, `MutexExclusion`, `PointersDesignate`, `NoDuplicateEntry`,
  `AckedEntriesSurvive`, `PointerExtends`; `ImplementsList` and `UsesRegistryLog`, two refinements; and what the
  second is worth, `RegistryLogSound`.
- **SessionManagerProofs**: `TypeOK`, `OpenVaultIsWhole`, `VerifiedOfWallet`, `RootInv` (`RootSafe`), and
  `ImplementsVault`: every tab refines VaultSession.
- **RegistryProofs**: `TypeOK`, `NoDuplicateCid`, `WithinCapacity` (a part of `IInv`), `TimesOrdered`, `RecordedOnce`,
  `ReportedIsListed`, `PublishedIsHead`, `HistoryGrows`, and `ImplementsLog`: Registry refines RegistryLog.
- **MyFilesProofs**: `TypeOK`, `ListOfOpenVault`, `ListIsCurrent`, `RetryLoads`, `EntryOfWallet`, `KeyOfUpload`.
- **IpfsClientProofs**: `OneNode`, `ImplementsStore` (IpfsClient refines IpfsStore), and `AckedStays`, the guarantee
  of the store for an object whose add was acknowledged by Kubo.
- **LocalStoreProofs**: `OneInstance`, `AloneIsAtomic`, `NoBlindOverwrite`.
- **FileKeysProofs**: `ProofIsBySigner`, `SealedOpens`, `PackageIsBound`.

Each module's `IInv` (`LInv`, `FInv`) is the inductive invariant; TLC checks it in a run. Why the properties
alone are not inductive:

- *Manifest.* That an acknowledged entry stays rests on the append past the mutex still holding the
  current pointer (`FreshInv`), which rests on there being one such append. That is
  `QueueInv` with `QueuedInv`: every append past the mutex is in the queue, once, and only the head of the queue is
  past it. That the promises of `mutex.ts` amount to that queue is `PromiseInv`: each call awaits the promise of
  the one before it in the queue, the tail is the promise of the last, and what the first awaits is resolved. So
  who may enter is the first, and the first always may (`EnterFirst`). `CallInv` says what the CID of a suspended
  call designates, so that what it later writes does. `Merge` extends a list without duplicates by an entry it
  lacks (`MergeProperties`).
- *Session.* A call that no lock or reconnection crossed was started for the wallet that is still connected and
  holds what it signed so far; if the adapter did not move either, what it holds is that wallet's (`CallInv`). So a
  vault is whole when such a call opens it. A vault is closed while a call runs (`ClosedInv`); with one tab the
  signal in memory is the stored one (`MirrorInv`).
- *The session of the page.* Each step of a tab is a step of VaultSession in that tab and a stutter in the others.
  The first awaits of `unlockVault` stutter, the last is `Open`, with both signatures if nothing crossed it (`CallInv`,
  `ClosedInv`); an event after which Verified is read again is `Announce`. That a crossed call never leaves the
  root message of another wallet is `RootInv`; the key of a refresh depends on it.
- *One step per append.* The list changes when the pointer moves, at `PutLands`; every await before it
  stutters. That step appends to the list of *that moment* because the CID held since the read still is the
  pointer (`FreshInv`), and it repeats nothing (`MergeProperties`). An init or a restore starts a list, or, over one
  that was not read, suspends the promise (`raced`).
- *Registry.* No entry is later than the clock (`ClockInv`), and a transaction nothing crossed will be
  accepted (`FlyingInv`). A publication that is executed has the time of the clock, so it comes before every entry
  in the sort of `selectHead`, unless one has that time too; then the head is the first of these, and was the head before
  (`HeadAfter`). That there is a first is that a non-empty set of naturals has a least element (`LeastNumber`).
- *The registry as a log.* In Registry the execution of a transaction is the step that records, a transaction lost by the
  cluster or refused the one that loses; the client's steps stutter, whatever the client is told. In ManifestService
  the publication of a `late` call is such a step too. `LogIsSound` (one publication for each CID,
  none twice, the capacity, what is recorded stays) is then an invariant of the log, carried over.
- *Page.* With no render due the page shows the session, and a vault open in both is of one wallet (`RenderInv`),
  because a switch closes it, an unlock runs only on a closed vault, and it ends after the render; that keeps the
  list of one wallet from another. A proof, and a prompt, are of the wallet of the session unless the account changed
  since the click (`ProofInv`). Only an upload that ended is listed (`UploadInv`), and in manifests of its wallet
  only, which a restore does not change. No key hides a list that is wrong: a key without a pointer never
  recurs, and for one with a manifest the list shown is that one or was emptied (`KeyInv`); a load is for the pointer of
  the moment unless a refresh was dropped (`LoadInv`). `ListIsCurrent` and `RetryLoads` follow from these.
- *IPFS client.* A node counts once because the context is only made when there is none. For the
  refinement, a body being read is of an object Kubo has, and no node works on a call that was
  not made; a Helia step stutters or is a step of the store because a node exists whenever there are objects in its
  memory (`BackendInv`). One step of the proof maps each action to one of the store's, or to a
  stutter.
- *Local storage.* One instance is kept, it is the last and is not closed (`OneInstance`), and a call that
  is alone is the only one pending, on that instance, with what it read still stored (`AloneInv`). That no put overwrites
  blindly needs no such guard: the write adds or replaces by what the put has seen.
- *Keys.* No two identities held share a nonce, and the message at a prompt is in none of them (`NoncesFresh`);
  so two signatures are equal only if the identities are. From there the proof is about `LocalEncryption`: two
  derived keys are equal only if their signatures are (`KekOfOne`), a sealed header is read back as it was sealed
  (`SealedHeader`), and the wrap opens with its key and its fields only (`UnwrapsWithItsKey`, `RoundTrip`,
  `WrongKeyFails`, `ReadPackage`).

Only model-checked: the liveness properties (EveryCallSettles, AdapterIsFollowed, CallSettles,
PanelFollows), which are out of the prover's reach.

## 5. What the code does not keep

Runs with expectation `violation` (quoted and located in `PROJECT.json`):

- ManifestLostEntry: a load that was creating the empty manifest sets the pointer over an append's.
- ManifestEmptyOverChain: an empty manifest is created while the registry lists one, its answer not being in yet.
- SessionLateUnlock: an unlock pending when the vault is locked opens it.
- FileKeyLost: after a second verification, or a reload, the owner of a file has no signature that opens it; the
  one it was keyed with is over a nonce that nothing keeps.

Divergences seen while modelling, without a run of their own. *Manifest, session, registry, page:*

- `useSession.ts:186-197`, `RegistryPublishWidget.tsx:178`: after a switch the registry shown may be that of the previous
  wallet, and restoring sets the pointer to its manifest (`foreign` in ManifestService, `StartRestore` in MyFiles). The
  page then cannot load its list until another manifest is restored.
- `RegistryPublishWidget.tsx:177-178`: a restore whose import is awaited writes over the pointer an append set meanwhile.
- `RegistryService.ts:90`: `publishedAt` values are BN objects compared by identity, so of the entries of one
  second the head is the earliest, and not the one with the higher CID as lines 81 and 93, `docs/tasks/task-07.md:7-10` and
  test B1 (`packages/solana-registry/tests/registry.test.ts:112-135`) require; the first call of that test shows it.
  `Before` has what the code does, and `PublishedIsHead` promises neither.
- `pages/index.tsx:254-256`: after lock and unlock the list stays empty, the refresh being taken for a duplicate
  (`Skipped` in `ListIsCurrent` and `RetryLoads`); the resets of the key, at a disconnection and at an unlock, run
  with debugging on only.
- `uploadEncryptedToIpfs.ts:154`: after an account change a file is keyed from the proof of the previous wallet, against
  `docs/tasks/T03-5-D001-progdec.md:115` (`switched` in `KeyOfUpload`).
- `SessionManager.ts:628`: the wallet is read again for the root message; the vault may open with the root
  of another wallet than the unlock (excluded from `OpenVaultIsWhole` by `during`).
- `SessionManager.ts:538,620`: the expiry of the unlock message is compared with a time read before the
  signature is awaited; it never refuses.
- `ConnectWallet.tsx:54-56,140`: the comment announces `disconnectWallet()` when the adapter is not
  connected; the effect never calls it.
- `SessionManager.ts:466`: a Verified signal another tab stored for another wallet is not cleared.
- `RegistryService.ts:163-164`: `confirmTransaction` resolves with an error nobody reads, so a duplicate
  rejected at execution is reported as published (excluded from `ReportedIsListed` by `crossed`).
- `pages/index.tsx:346`: the refresh after an append is dropped when a load is in flight, whose list lacks
  the entry (`missed`).
- `pages/index.tsx:406`: a load that returns after a lock shows its list until the next refresh (`late`);
  `docs/tasks/task-06.md:130` says the list of a closed vault is empty.

*Identity and encryption:*

- `wallet/types.ts:168` takes a proof as good at the instant it expires, `crypto/src/index.ts:150` refuses the
  unlock message that carries the same expiry then: the guard lets the upload pass and it fails.
- `IdentityStatus.tsx:72-89`: every load of a page removes the shared `sj_identity`, that of other tabs with it.
- `IdentityStatus.tsx:140`: the poll compares with the identity of the mount. A panel mounted without one keeps
  "Verified" after Disconnect, against its comment at lines 70-71 (excluded from `PanelFollows`).
- `VerifyWallet.tsx:151`: a prompt still open at Disconnect stores its proof after the clear.
- `wallet/types.ts:233`: `saveIdentity` swallows a quota error, and the card says "verified" all the same.
- `decryptFile` is called by no part of the program. It does not read the template, version, cipher or
  integrity of a package; `unwrapManifestKey` does not read the salt stored.

*IPFS:*

- `client.ts:341`: a node context that was rejected stays cached until the page is loaded again.
- `client.ts:339,432`: nothing bounds the creation of the node, and a fetch whose timer fired waits for a chunk that
  may not come: the call, and an append that holds the mutex meanwhile, can hang for ever.
- The Helia add ignores the configured timeout, and Kubo's failure does not fall back to Helia. Objects added
  over Helia are gone with the page unless the network fetched them; those of Kubo are not pinned.
- `config.kuboApiBaseUrl` of `ipfs/src/types.ts` is read by nothing.

*Local storage:*

- `storage/src/index.ts:200`: of two first puts that race the second fails; of two later ones the write order
  decides, so that
  `updatedAt` may go back; a delete between lookup and write is undone by the write.
- `storage/src/index.ts:161`: `initStorage` between the lookup and the write of a put makes it write to one database the
  creation time and CID read in another.
- `manifest/src/storage.ts:86`: a pointer without cluster is copied to every cluster in turn and never removed.

## 6. Not modelled, and why

The primitives (AEAD, hashes, HMAC, ed25519) are trusted and symbolic; their encodings, key sizes and the detection of
the library are left out. The AES helpers of `crypto/src/index.ts` and `crypto-utils.ts` are used by nothing. The
IPFS upload route is a stateless proxy without a caller; smoke pages, theme and layout hold no state of the
system. Of the pointer storage, the copy of a legacy key and `removeManifestCid` are left out: the first happens
once before the states modelled, the second has no caller. The garbage collection of Kubo and the exchange of
blocks between nodes are external. The contents of entries, names and sizes are abstract. The CID format
checks of the registry program are assumed of its inputs. The Solana cluster is external: a clock
and at-most-once atomic transactions. Of the interface, remaining times, clipboard, the card of the
last identity, filters and messages are left out.

Two tabs of one browser are in ManifestService and, as what other pages do to the shared proof, in Identity;
SessionManager is parameterised by tabs and proved for any number, but TLC runs one.

## 7. Plan

In this order, most important behaviour first: ManifestService (the data of the user is at stake there),
SessionManager (what everything is gated by), Registry, MyFiles; then IpfsClient with the store it
implements, LocalStore, and LocalEncryption, Identity and FileKeys; each with its proofs.

The abstract specifications came with the proofs: IpfsStore, ManifestList, RegistryLog, VaultSession.

What is left, in order of value:

1. **Identity over VaultSession**: its session is an abstraction of its own, whose unlock is one step.
2. **PointerStorage**: the copy of legacy keys (`storage.ts:86`) with two clusters and two tabs.
3. A run of SessionManager with two tabs; the proofs already hold for any number.
