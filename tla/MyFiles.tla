------------------------------- MODULE MyFiles -------------------------------
(***************************************************************************)
(* The page "My files" of one tab (apps/web/pages/index.tsx): the list it  *)
(* shows, the refreshes that load it and the uploads that extend it, while *)
(* the wallet changes and the vault is locked and opened again.            *)
(*                                                                         *)
(* The page acts on the session it was last rendered with, and a handler   *)
(* that awaits goes on with the session it was called with.  The session   *)
(* moves as VaultSession allows, which SessionManager implements, where    *)
(* the app calls it: a lock or a switch may cross an unlockVault that      *)
(* waits.  A load, a restore and the prompt of "Sign to Verify" are cut at *)
(* their await; an upload is at its start and at the end of its append     *)
(* (ManifestService has the steps of loads and appends).                   *)
(***************************************************************************)
EXTENDS Integers, Sequences

CONSTANTS
    Wallets,
    None,      \* null
    Uploads,   \* files given to handleFile until they are stored
    MaxCid     \* bound on the manifests made, for TLC

VARIABLES
    adapter,   \* public key of the wallet adapter, None if not connected
    proof,     \* the wallet whose proof signature sj_identity holds, or None
    prompt,    \* the prompt of "Sign to Verify": its wallet, and whether the
               \*   account changed since; None if there is none
    sess,      \* the SessionManager: wallet, vault open, Verified, signatures
    unlock,    \* its unlockVault(): not running, alone, or crossed by another
    seen,      \* the session the page was rendered with
    due,       \* an event reached the hook: a render and its effects are due
    store,     \* store[cid]: the wallet a manifest is sealed for, what it lists
    ptr,       \* ptr[w]: local manifest pointer, 0 is null
    files,     \* the list shown: of which wallet and manifest; None is empty
    lastKey,   \* lastRefreshKeyRef
    load,      \* the load in flight (refreshInFlightRef), or None
    restoring, \* the restore whose import is awaited: its wallet and CID
    up,        \* up[u]: where an upload is, and for which wallet
    late,      \* history: the list shown came for a session already left
    missed,    \* history: since the latest load began a refresh was dropped for
               \*   it, or it failed, or it is not for the wallet shown
    switched   \* history: the account changed since the click that made the
               \*   proof

vars == <<adapter, proof, prompt, sess, unlock, seen, due, store, ptr, restoring, files,
          lastKey, load, up, late, missed, switched>>

identity  == <<proof, prompt, switched>>
session   == <<adapter, identity, sess, unlock, due>>
manifests == <<store, ptr, restoring>>
list      == <<files, lastKey, load, late, missed>>

MaybeWallet == Wallets \cup {None}
Key         == [wallet : Wallets, cid : Nat]
Manifest    == [wallet : Wallets, files : SUBSET Uploads]
Prompt      == [wallet : Wallets, switched : BOOLEAN]
Phases      == {"idle", "sending", "appended"}

ASSUME NullAssumption ==
    /\ None \notin Wallets /\ None \notin Key /\ None \notin Prompt
    /\ MaxCid \in Nat

\* The session as the page may count on it.
Vault == INSTANCE VaultSession

Session == Vault!Session

NoUpload == [pc |-> "idle", wallet |-> None]

Init ==
    /\ adapter = None
    /\ proof = None /\ prompt = None
    /\ Vault!Init
    /\ seen = sess
    /\ due = FALSE
    /\ store = <<>>
    /\ ptr = [w \in Wallets |-> 0]
    /\ restoring = None
    /\ files = None
    /\ lastKey = None
    /\ load = None
    /\ up = [u \in Uploads |-> NoUpload]
    /\ late = FALSE
    /\ missed = FALSE
    /\ switched = FALSE

-----------------------------------------------------------------------------
(* The session. *)

\* isSessionGateOk.
Gate(s) == s.wallet # None /\ s.open /\ s.verified

\* What a refresh and an upload need: the unlock and the vault-root signature
\* too, which an unlockVault that was crossed may lack.
Ready(s) == Gate(s) /\ s.ready

\* Mutant forms of Connected: the vault stays open; a session that has a wallet
\* keeps it.
ConnectedOpen(w) == sess' = [sess EXCEPT !.wallet = w] /\ Vault!Crosses

ConnectedOnce(w) ==
    IF sess.wallet = None THEN Vault!Connect(w) ELSE UNCHANGED <<sess, unlock>>

\* connectWallet(w), from the effect that follows the adapter.
Connected(w) == Vault!Connect(w)

\* The adapter connects or changes account: its effect connects the session.  A
\* proof made for another wallet stays where it is, and a prompt stays open.
AdapterConnects(w) ==
    /\ adapter # w
    /\ adapter' = w
    /\ Connected(w)
    /\ due' = TRUE
    /\ switched' = (switched \/ proof \notin {None, w})
    /\ prompt' = IF prompt = None THEN None
                 ELSE [prompt EXCEPT !.switched = @ \/ prompt.wallet # w]
    /\ UNCHANGED <<proof, seen, manifests, up, list>>

\* The adapter disconnects by itself: nobody follows.
AdapterLost ==
    /\ adapter # None
    /\ adapter' = None
    /\ UNCHANGED <<identity, sess, unlock, seen, due, manifests, up, list>>

\* The disconnect button: the identity is cleared, also when the adapter throws
\* and stays connected; the session and a prompt that is open stay.
Disconnect ==
    /\ adapter # None
    /\ adapter' \in {None, adapter}
    /\ proof' = None
    /\ switched' = FALSE
    /\ UNCHANGED <<prompt, sess, unlock, seen, due, manifests, up, list>>

\* "Sign to Verify": doVerify takes the adapter's key and awaits its signature.
StartVerify ==
    /\ adapter # None /\ prompt = None
    /\ prompt' = [wallet |-> adapter, switched |-> FALSE]
    /\ UNCHANGED <<adapter, proof, switched, sess, unlock, seen, due, manifests, up, list>>

\* The signature is by the key taken at the click: the proof is saved for that
\* key, whatever happened meanwhile, and the session refreshed.
Signed ==
    /\ prompt # None
    /\ proof' = prompt.wallet
    /\ switched' = prompt.switched
    /\ prompt' = None
    /\ due' = TRUE
    /\ Vault!Announce
    /\ UNCHANGED <<adapter, seen, manifests, up, list>>

\* The wallet refuses, or signs with another key.
VerifyFails ==
    /\ prompt # None
    /\ prompt' = None
    /\ UNCHANGED <<adapter, proof, switched, sess, unlock, seen, due, manifests, up, list>>

\* The unlock button starts unlockVault().
StartUnlock ==
    /\ Vault!Begin
    /\ UNCHANGED <<adapter, identity, seen, due, manifests, up, list>>

\* unlockVault() opens the vault.  The page was rendered while it awaited
\* signatures, with whatever crossed it.
UnlockEnds ==
    /\ ~due
    /\ Vault!Open
    /\ due' = TRUE
    /\ UNCHANGED <<adapter, identity, seen, manifests, up, list>>

\* It throws; the session announces nothing.
UnlockRefused ==
    /\ Vault!Refuse
    /\ UNCHANGED <<adapter, identity, seen, due, manifests, up, list>>

\* The identity panel clears the identity, and locks the vault.
Clear ==
    /\ proof' = None
    /\ Vault!Lock
    /\ due' = TRUE
    /\ switched' = FALSE
    /\ UNCHANGED <<adapter, prompt, seen, manifests, up, list>>

\* The session announces an event; Verified may have expired since it was read,
\* or another tab may have saved it.
Event ==
    /\ Vault!Announce
    /\ due' = TRUE
    /\ UNCHANGED <<adapter, identity, seen, manifests, up, list>>

-----------------------------------------------------------------------------
(* The list. *)

\* Mutant form of KeyOf: the pointer is not part of the key.
KeyOfWallet(s) == [wallet |-> s.wallet, cid |-> 0]

\* refreshKey: the gate is open, and the root message is a function of the
\* wallet (SessionManager!RootInv).
KeyOf(s) == [wallet |-> s.wallet, cid |-> ptr'[s.wallet]]

\* Mutant form of Refresh: the key is kept when the load begins.
RefreshMarksKey(s) ==
    \/ /\ ~Ready(s)
       /\ files' = None /\ late' = FALSE
       /\ UNCHANGED <<lastKey, load, missed>>
    \/ /\ Ready(s) /\ load # None
       /\ missed' = TRUE
       /\ UNCHANGED <<files, lastKey, load, late>>
    \/ /\ Ready(s) /\ load = None /\ KeyOf(s) = lastKey
       /\ UNCHANGED list
    \/ /\ Ready(s) /\ load = None /\ KeyOf(s) # lastKey
       /\ load' = [wallet |-> s.wallet, cid |-> ptr'[s.wallet]]
       /\ lastKey' = load'
       /\ missed' = (s.wallet # seen'.wallet)
       /\ UNCHANGED <<files, late>>

\* refreshFromManifest, called with session s, up to its first await.  The list
\* of a closed vault is emptied, and the key of the last refresh is kept.
Refresh(s) ==
    \/ /\ ~Ready(s)
       /\ files' = None /\ late' = FALSE
       /\ UNCHANGED <<lastKey, load, missed>>
    \/ /\ Ready(s) /\ load # None
       /\ missed' = TRUE
       /\ UNCHANGED <<files, lastKey, load, late>>
    \/ /\ Ready(s) /\ load = None /\ KeyOf(s) = lastKey
       /\ UNCHANGED list
    \/ /\ Ready(s) /\ load = None /\ KeyOf(s) # lastKey
       /\ load' = [wallet |-> s.wallet, cid |-> ptr'[s.wallet]]
       /\ missed' = (s.wallet # seen'.wallet)
       /\ UNCHANGED <<files, lastKey, late>>

\* The page renders with the session of the moment, and its effects refresh the
\* list if what they depend on changed.  Verified, if present, is a new object at
\* each event, and the signatures of a closed vault may have changed too.
Render ==
    /\ due
    /\ due' = FALSE
    /\ seen' = sess
    /\ UNCHANGED <<adapter, identity, sess, unlock, manifests, up>>
    /\ \/ Refresh(seen')
       \/ sess = seen /\ ~sess.verified /\ UNCHANGED list

\* What setFiles shows is the list of a session the page has left.
Left == ~(Ready(seen) /\ load.wallet = seen.wallet)

\* The manifest was fetched, and opened: it was sealed for the wallet.
LoadReturns ==
    /\ load # None /\ load.cid # 0
    /\ store[load.cid].wallet = load.wallet
    /\ files' = load
    /\ lastKey' = load
    /\ load' = None
    /\ late' = Left
    /\ UNCHANGED <<session, seen, manifests, up, missed>>

\* No pointer was set: an empty manifest is made, and the pointer set to it,
\* whatever it is by now.
InitReturns ==
    /\ load # None /\ load.cid = 0
    /\ Len(store) < MaxCid
    /\ store' = Append(store, [wallet |-> load.wallet, files |-> {}])
    /\ ptr' = [ptr EXCEPT ![load.wallet] = Len(store')]
    /\ files' = [wallet |-> load.wallet, cid |-> Len(store')]
    /\ lastKey' = load
    /\ load' = None
    /\ late' = Left
    /\ UNCHANGED <<session, seen, restoring, up, missed>>

\* No pointer was set and a manifest is published: the list is left to restore.
RestoreRequired ==
    /\ load # None /\ load.cid = 0
    /\ files' = None /\ late' = FALSE
    /\ load' = None
    /\ missed' = TRUE
    /\ UNCHANGED <<session, seen, manifests, up, lastKey>>

\* Mutant form of LoadFails: the pointer is set before the upload.
LoadFailsAfterPointer ==
    /\ load # None /\ load.cid = 0
    /\ ptr' = [ptr EXCEPT ![load.wallet] = Len(store) + 1]
    /\ load' = None
    /\ missed' = TRUE
    /\ UNCHANGED <<session, seen, store, restoring, up, files, lastKey, late>>

\* The load is rejected, as that of a manifest of another wallet always is: the
\* list stays as it is.
LoadFails ==
    /\ load # None
    /\ load' = None
    /\ missed' = TRUE
    /\ UNCHANGED <<session, seen, manifests, up, files, lastKey, late>>

\* What the manifests of w list.
FilesOf(w) == UNION {store[c].files : c \in {d \in DOMAIN store : store[d].wallet = w}}

\* The registry widget shows a head, no pointer for its wallet, and the button is
\* pressed.  The registry shown may be that of the wallet before, so the head is
\* any manifest stored, or one that another device made of those of its wallet.
StartRestore ==
    /\ seen.wallet # None /\ ptr[seen.wallet] = 0
    /\ restoring = None
    /\ \/ /\ UNCHANGED store
          /\ \E c \in DOMAIN store : restoring' = [wallet |-> seen.wallet, cid |-> c]
       \/ /\ Len(store) < MaxCid
          /\ \E v \in Wallets : \E m \in SUBSET FilesOf(v) :
                store' = Append(store, [wallet |-> v, files |-> m])
          /\ restoring' = [wallet |-> seen.wallet, cid |-> Len(store')]
    /\ UNCHANGED <<session, seen, ptr, up, list>>

\* The module was imported: the pointer of the wallet of the click is set,
\* whatever it is by now, and the session announced to have changed.
RestoreEnds ==
    /\ restoring # None
    /\ ptr' = [ptr EXCEPT ![restoring.wallet] = restoring.cid]
    /\ restoring' = None
    /\ due' = TRUE
    /\ Vault!Announce
    /\ UNCHANGED <<adapter, identity, seen, store, up, list>>

\* The import or the write of the pointer throws.
RestoreFails ==
    /\ restoring # None
    /\ restoring' = None
    /\ UNCHANGED <<session, seen, store, ptr, up, list>>

-----------------------------------------------------------------------------
(* Uploads. *)

\* handleFile passes the gate of the rendered session and finds its signatures,
\* and the upload passes that of the session itself; its key comes from the
\* proof, whoever made it.
StartUpload(u) ==
    /\ up[u].pc = "idle"
    /\ Ready(seen)
    /\ sess.open /\ proof # None
    /\ up' = [up EXCEPT ![u] = [pc |-> "sending", wallet |-> seen.wallet]]
    /\ UNCHANGED <<session, seen, manifests, list>>

\* What an append for w may have read: what a manifest of w lists, or nothing.
\* It read the pointer before its awaits, and a load that makes a manifest, or a
\* restore, may have moved it since.
Bases(w) == {{}} \cup {store[c].files : c \in {d \in DOMAIN store : store[d].wallet = w}}

\* The session of an upload that began.
Opened(w) == [wallet |-> w, open |-> TRUE, verified |-> TRUE, ready |-> TRUE]

\* An append for wallet w adds u to what it read, seals the result for w and
\* sets the pointer, whatever it is by now.
AppendEntry(w, u) ==
    /\ Len(store) < MaxCid
    /\ \E m \in Bases(w) : store' = Append(store, [wallet |-> w, files |-> m \cup {u}])
    /\ ptr' = [ptr EXCEPT ![w] = Len(store')]

\* Mutant form of Appended: the wallet is read again.
AppendedToSeen(u) ==
    /\ up[u].pc = "sending" /\ seen.wallet # None
    /\ AppendEntry(seen.wallet, u)
    /\ up' = [up EXCEPT ![u].pc = "appended"]
    /\ UNCHANGED <<session, seen, restoring>>
    /\ Refresh(Opened(up[u].wallet))

\* The package was stored and the entry appended to the manifest of the wallet
\* the upload was made for; a refresh follows, with the session of that time.
Appended(u) ==
    /\ up[u].pc = "sending"
    /\ AppendEntry(up[u].wallet, u)
    /\ up' = [up EXCEPT ![u].pc = "appended"]
    /\ UNCHANGED <<session, seen, restoring>>
    /\ Refresh(Opened(up[u].wallet))

\* The upload or the append throws, the append also when the manifest at the
\* pointer is of another wallet; the user may give the file again.
UploadFails(u) ==
    /\ up[u].pc = "sending"
    /\ up' = [up EXCEPT ![u] = NoUpload]
    /\ UNCHANGED <<session, seen, manifests, list>>

\* The page is loaded again: what is in memory is lost, and so are the load, the
\* prompt, the restore and the uploads in flight.  The pointers are in
\* localStorage, and so is the proof, which the identity panel removes when it
\* mounts without a wallet.
Reload ==
    /\ Vault!Reload
    /\ adapter' = None
    /\ proof' = None /\ prompt' = None
    /\ seen' = sess'
    /\ due' = FALSE
    /\ switched' = FALSE
    /\ restoring' = None
    /\ files' = None /\ lastKey' = None /\ load' = None
    /\ late' = FALSE /\ missed' = FALSE
    /\ up' = [u \in Uploads |-> IF up[u].pc = "sending" THEN NoUpload ELSE up[u]]
    /\ UNCHANGED <<store, ptr>>

LoadSettles == LoadReturns \/ InitReturns \/ RestoreRequired \/ LoadFails

Next ==
    \/ \E w \in Wallets : AdapterConnects(w)
    \/ AdapterLost \/ Disconnect
    \/ StartVerify \/ Signed \/ VerifyFails
    \/ Clear \/ Event
    \/ StartUnlock \/ UnlockEnds \/ UnlockRefused
    \/ Render
    \/ LoadSettles
    \/ StartRestore \/ RestoreEnds \/ RestoreFails
    \/ \E u \in Uploads : StartUpload(u) \/ Appended(u) \/ UploadFails(u)
    \/ Reload

Spec == Init /\ [][Next]_vars

-----------------------------------------------------------------------------
TypeOK ==
    /\ adapter \in MaybeWallet /\ proof \in MaybeWallet
    /\ prompt \in Prompt \cup {None}
    /\ Vault!TypeOK /\ seen \in Session
    /\ due \in BOOLEAN
    /\ store \in Seq(Manifest)
    /\ ptr \in [Wallets -> 0 .. Len(store)]
    /\ restoring \in Key \cup {None}
    /\ files \in Key \cup {None}
    /\ lastKey \in Key \cup {None}
    /\ load \in Key \cup {None}
    /\ up \in [Uploads -> [pc : Phases, wallet : MaybeWallet]]
    /\ late \in BOOLEAN /\ missed \in BOOLEAN /\ switched \in BOOLEAN

\* A list is shown only in an open, verified vault that has its signatures, and
\* is that of its wallet, unless its load outlived the session it began in: a
\* lock, a switch or an expiry the page was told of empties the list in the
\* render that shows it.
ListOfOpenVault ==
    files # None /\ ~late => Ready(seen) /\ files.wallet = seen.wallet

\* What the page should show.
Pointer == [wallet |-> seen.wallet, cid |-> ptr[seen.wallet]]

\* The list was emptied by a lock or a switch and its refresh then skipped, for
\* having the key of the last: the code shows an empty vault until something
\* changes the pointer (index.tsx:254-256, 356).
Skipped == files = None /\ lastKey = Pointer

\* A page at rest in an open vault shows the manifest its pointer designates, if
\* no refresh was dropped for the load in flight (346) and that load was for the
\* wallet shown and did not fail.  What it may show instead is an empty list
\* (Skipped), never the list of another wallet or of an older pointer.
AtRest == ~due /\ load = None

ListIsCurrent == AtRest /\ Ready(seen) /\ ~missed => files = Pointer \/ Skipped

\* A refresh that was dropped or failed is made up for by the next event of the
\* session that finds no load in flight: whatever the page missed, it then shows
\* the manifest at the pointer, or loads it, or is left empty (Skipped).
RetryLoads ==
    [][due /\ ~due' /\ Ready(seen') /\ load = None =>
          load' = Pointer' \/ files' = Pointer' \/ Skipped']_vars

\* An entry is in manifests sealed for the wallet its file was uploaded for only,
\* whatever wallet was connected when the upload ended and whatever manifest was
\* restored; and a list shown is that of a manifest of its wallet.
EntryOfWallet ==
    /\ \A c \in DOMAIN store : \A u \in store[c].files : up[u].wallet = store[c].wallet
    /\ files # None => files.cid \in DOMAIN store /\ store[files.cid].wallet = files.wallet

\* A file is encrypted under a key of the wallet it is uploaded for, as long as
\* the account did not change since the click that made the proof: the key comes
\* from the proof and the wallet from the session.
KeyOfUpload ==
    [][\A u \in Uploads :
          up[u].pc = "idle" /\ up'[u].pc = "sending" /\ ~switched =>
              proof = up'[u].wallet]_vars

-----------------------------------------------------------------------------
\* The inductive invariant behind the theorems of MyFilesProofs.
\* A page with nothing due shows the session, and a vault that is open in both
\* is of one wallet: no switch leaves it open, no unlock precedes the render.
\* unlockVault() runs only while the vault is closed, whatever crosses it.
RenderInv ==
    /\ ~due => seen = sess
    /\ sess.open /\ seen.open => sess.wallet = seen.wallet
    /\ unlock # "none" => ~sess.open

\* The adapter, the proof and a prompt are of the wallet of the session, unless
\* the account changed since the click.
ProofInv ==
    /\ adapter # None => sess.wallet = adapter
    /\ proof # None /\ ~switched => sess.wallet = proof
    /\ prompt # None /\ ~prompt.switched => sess.wallet = prompt.wallet

\* An upload that began has its wallet, and only one that ended is listed.
UploadInv ==
    /\ \A u \in Uploads : up[u].pc # "idle" => up[u].wallet \in Wallets
    /\ \A c \in DOMAIN store : \A u \in store[c].files : up[u].pc = "appended"

\* The CIDs held are of manifests that were made.  The key of a list that was
\* loaded is that of the list shown, or none is; a key without a pointer is never
\* that of a later refresh.
KeyInv ==
    /\ load # None => load.cid <= Len(store)
    /\ restoring # None => restoring.cid \in DOMAIN store
    /\ lastKey # None =>
         /\ lastKey.cid <= Len(store)
         /\ lastKey.cid = 0 => ptr[lastKey.wallet] # 0
         /\ lastKey.cid # 0 => files \in {None, lastKey}

\* A load in flight is for the pointer, unless a refresh was dropped for it.
LoadInv ==
    load # None /\ ~missed /\ ~due /\ Ready(seen) => load = Pointer

IInv ==
    /\ TypeOK
    /\ RenderInv /\ ProofInv /\ UploadInv /\ KeyInv /\ LoadInv
    /\ ListOfOpenVault /\ ListIsCurrent /\ EntryOfWallet
=============================================================================
