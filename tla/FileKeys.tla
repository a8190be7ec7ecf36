------------------------------ MODULE FileKeys ------------------------------
(***************************************************************************)
(* The keys of the files of a page (lib/ipfs/uploadEncryptedToIpfs.ts):    *)
(* an upload takes the signature of the identity stored, derives from it   *)
(* the key that wraps the key of the file, and stores the package; the     *)
(* file is then listed in the manifest, sealed with a key derived from the *)
(* vault-root signature.  Identity is the page, LocalEncryption the sealing.*)
(*                                                                         *)
(* An upload that was stored holds what its package was made of: the       *)
(* package itself is PackageOf(u).                                         *)
(***************************************************************************)
EXTENDS Identity

CONSTANTS
    Uploads,        \* calls of uploadEncryptedToIpfsOrThrow
    Elsewhere       \* such calls of other pages, of any wallet

VARIABLES up        \* up[u]: where an upload is, for which wallet, and the
                    \*   identity it loaded

vars == <<page, up>>

Phases == {"idle", "sending", "stored", "listed", "orphan", "failed"}

NoUpload     == [pc |-> "idle", wallet |-> None, proof |-> NoProof]
FailedUpload == [pc |-> "failed", wallet |-> None, proof |-> NoProof]

Init == IdentityInit /\ up = [u \in Uploads |-> NoUpload]

-----------------------------------------------------------------------------
(* What an upload seals. *)

Salt(u) == Random("salt", u)
Text(u) == Random("content", u)

\* Files of the same name and type; sizes and contents are those of each.
Meta(u) ==
    [f \in Fields |-> IF f \in {"originalFileName", "mimeType"}
                       THEN [given |-> f]
                       ELSE Random(f, u)]

Package(u, w, signature) ==
    EncryptFile(u, w, KekOf(signature, Salt(u)), Salt(u), Meta(u), Text(u))

PackageOf(u) == Package(u, up[u].wallet, up[u].proof.signature)

Stored    == {u \in Uploads : up[u].pc \in {"stored", "listed", "orphan"}}
Listed(w) == {u \in Uploads : up[u].pc = "listed" /\ up[u].wallet = w}

\* The manifest of a wallet, sealed by a session that signed the root message.
ManifestOf(w) == EncryptManifest(Listed(w), w, Sign(w, RootMessage(w)), Listed(w))

\* What fails is told from what is read, and what is missing from what is there.
ASSUME ValueAssumption ==
    /\ Uploads \cap Elsewhere = {}
    /\ Null \notin Wallets \cup {None}
    /\ \A u \in Uploads :
         /\ Null \notin {Salt(u)} \cup {Meta(u)[f] : f \in Fields}
         /\ Fail \notin {Text(u), Random("fileKey", u)}
    /\ \A w \in Wallets : Fail # ManifestKey(RootKek(Sign(w, RootMessage(w))))
    /\ \A E \in SUBSET Uploads : Fail # E
    /\ \A w \in Wallets, E \in SUBSET Uploads :
         Fail # [walletPubKey |-> w, entries |-> E]

-----------------------------------------------------------------------------
(* Actions. *)

\* assertUnlockNotExpired, for the unlock message that expires with the proof.
NotExpired(p) == ~(ExpiresAt(p) <= clock)

\* The call up to its first await.  The guard of the vault lets a proof pass
\* at the instant it expires; the derivation of the key then refuses it.
StartUpload(u) ==
    /\ up[u].pc = "idle"
    /\ sess.wallet # None
    /\ CanPerformVaultActions(stored)
    /\ up' = [up EXCEPT ![u] =
                IF NotExpired(stored)
                THEN [pc |-> "sending", wallet |-> sess.wallet, proof |-> stored]
                ELSE FailedUpload]
    /\ UNCHANGED page

\* The package is stored, or encryption or IPFS failed.
UploadEnds(u) ==
    /\ up[u].pc = "sending"
    /\ \/ up' = [up EXCEPT ![u].pc = "stored"]
       \/ up' = [up EXCEPT ![u] = FailedUpload]
    /\ UNCHANGED page

\* The page appends the entry to the manifest of the wallet of the upload; if
\* that fails, the package stays where it is and no manifest lists it.
Append(u) ==
    /\ up[u].pc = "stored"
    /\ \E pc \in {"listed", "orphan"} : up' = [up EXCEPT ![u].pc = pc]
    /\ UNCHANGED page

\* The page is lost, and nobody goes on with the uploads under way.
ReloadPage ==
    /\ Reload
    /\ up' = [u \in Uploads |->
                CASE up[u].pc = "sending" -> FailedUpload
                  [] up[u].pc = "stored"  -> [up[u] EXCEPT !.pc = "orphan"]
                  [] OTHER                -> up[u]]

Next ==
    \/ PageStep /\ UNCHANGED up
    \/ ReloadPage
    \/ \E u \in Uploads : StartUpload(u) \/ UploadEnds(u) \/ Append(u)

Spec == Init /\ [][Next]_vars

\* The interval of the panel fires for as long as it is mounted.  Nothing else
\* has to happen: a prompt may stay open and an upload hang.
FairSpec == Spec /\ WF_vars(Poll /\ UNCHANGED up)

-----------------------------------------------------------------------------
(* Properties. *)

TypeOK ==
    /\ IdentityTypeOK
    /\ up \in [Uploads -> [pc : Phases, wallet : MaybeWallet, proof : MaybeProof]]

\* The identities the page, the storage and the uploads hold.
Held == ({stored, panel, mounted} \cup {up[u].proof : u \in Uploads}) \ {NoProof}

\* A message is signed into one identity at most: no two of those held share
\* a nonce, and the message that waits for a signature is in none.
NoncesFresh ==
    /\ \A p \in Held : p.message.nonce < nonce
    /\ \A p, q \in Held : p.message.nonce = q.message.nonce => p = q
    /\ verify # NoCall =>
        /\ verify.nonce < nonce
        /\ \A p \in Held : p.message.nonce # verify.nonce

\* An upload under way or done has its wallet and its identity.
UploadsAreWhole ==
    \A u \in Uploads : up[u].pc \notin {"idle", "failed"} => up[u].wallet # None /\ up[u].proof # NoProof

\* The inductive invariant: identities are made of fresh messages, each signed
\* by its wallet, however prompts, reloads and other pages interleave.
FInv == TypeOK /\ NoncesFresh /\ UploadsAreWhole

\* Every identity the page shows, stores or takes a key from was signed by the
\* wallet it names: doVerify checks the signature against the key of the click
\* even if the wallet changed account while its prompt was open.
ProofIsBySigner == \A p \in Held : BySigner(p)

\* A package opens with the key of the identity it was uploaded with, and with
\* no other identity, unlock message or root message of any wallet.
PackageOpens ==
    \A u \in Stored :
        LET Read(sig) == DecryptFile(PackageOf(u).header, PackageOf(u).envelope,
                                     KekOf(sig, Salt(u)))
        IN  /\ \A p \in Held :
                  Read(p.signature) = IF p = up[u].proof THEN Text(u) ELSE Fail
            /\ \A w \in Wallets :
                  /\ Read(Sign(w, RootMessage(w))) = Fail
                  /\ \A n \in 0..nonce : Read(Sign(w, UnlockMessage(w, n))) = Fail

\* The manifest of a wallet opens in every session of that wallet, whatever
\* identity it holds, and in no session of another.
ManifestReopens ==
    \A v, w \in Wallets :
        DecryptManifest(ManifestOf(w), v, Sign(v, RootMessage(v)))
            = IF v = w THEN Listed(w) ELSE Fail

\* What was sealed opens with its own key and no other (decryptFile and
\* decryptManifestV1 against encryptFile and encryptManifestV1).
SealedOpens == PackageOpens /\ ManifestReopens

\* The headers of a package some of whose parts were lost or exchanged with
\* those of another package.
Altered(h, other) ==
    {other, [h EXCEPT !.ciphertext = other.ciphertext], [h EXCEPT !.aad = other.aad],
     [h EXCEPT !.aad.filename = Null], [h EXCEPT !.aad.size = other.aad.size]}
    \cup {[h EXCEPT !.meta = [@ EXCEPT ![f] = x]] : f \in Fields, x \in {Null} \cup
                                                {other.meta[g] : g \in Fields}}

\* A package whose parts were altered is refused, or it is read as the file of
\* that name, type, size and wallet: the wrapped key is bound to its header.
PackageIsBound ==
    \A u \in Stored, v \in Elsewhere, w \in Wallets :
        LET other == Package(v, w, Sign(w, ProofMessage(w, nonce))) IN
        \A h \in Altered(PackageOf(u).header, other.header),
           e \in {PackageOf(u).envelope,
                  [PackageOf(u).envelope EXCEPT !.walletPubKey = w]} :
            LET text == DecryptFile(h, e, KekOf(up[u].proof.signature, e.salt)) IN
            text # Fail =>
                /\ text = Text(u)
                /\ BoundMeta(h) = Meta(u)
                /\ e.walletPubKey = up[u].wallet

\* What a session with the vault open can sign or has at hand for a package:
\* the identity stored, and the messages the envelope's template makes.
Signatures ==
    {stored.signature} \cup {Sign(sess.wallet, RootMessage(sess.wallet))}
        \cup {Sign(sess.wallet, UnlockMessage(sess.wallet, n)) : n \in 0..nonce}

\* The owner of a package, with the vault open and a good identity, derives
\* the key of the package: so say the types of the envelope
\* (v0_local_encryption/types.ts:180).
OwnerCanUnwrap ==
    \A u \in Stored :
        /\ CanPerformVaultActions(stored)
        /\ stored.publicKey = sess.wallet
        /\ up[u].wallet = sess.wallet /\ up[u].proof.publicKey = sess.wallet
        => \E sig \in Signatures :
               DecryptFile(PackageOf(u).header, PackageOf(u).envelope,
                           KekOf(sig, Salt(u))) # Fail
=============================================================================
