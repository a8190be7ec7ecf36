--------------------------- MODULE LocalEncryption ---------------------------
(***************************************************************************)
(* What is sealed with a key derived from a signature of the wallet: the   *)
(* files (packages/crypto/src/v0_local_encryption) and the manifest        *)
(* (packages/manifest/src/crypto.ts and service.ts).                       *)
(*                                                                         *)
(* The cryptography is symbolic.  A hash, an HMAC, a signature and a       *)
(* sealed text are the records of their arguments, so that two are equal   *)
(* only if they were made of the same; a random value is named by its use  *)
(* and by the call that draws it.  A sealed text opens with the key, nonce *)
(* and associated data it was sealed with, and with no other.              *)
(***************************************************************************)

CONSTANTS
    Null,   \* a field that is missing, a salt that is not given
    Fail    \* what a function that throws returns

-----------------------------------------------------------------------------
(* Primitives. *)

Random(use, call)           == [random |-> use, call |-> call]
Sign(w, message)            == [signer |-> w, signed |-> message]
Hash(x)                     == [sha256 |-> x]
Hmac(key, x)                == [hmacKey |-> key, hmacOf |-> x]
Seal(key, nonce, aad, text) == [key |-> key, nonce |-> nonce, aad |-> aad, text |-> text]

Open(key, nonce, aad, sealed) ==
    IF sealed.key = key /\ sealed.nonce = nonce /\ sealed.aad = aad
    THEN sealed.text
    ELSE Fail

\* x ?? y
Or(x, y) == IF x = Null THEN y ELSE x

\* HKDF-SHA256.  Every key of the program is one block long.
NormalSalt(salt)         == Or(salt, [zeros |-> 32])
HkdfExtract(salt, ikm)   == Hmac(NormalSalt(salt), ikm)
HkdfExpand(prk, info)    == Hmac(prk, [info |-> info, block |-> 1])
DeriveKey(ikm, salt, info) == HkdfExpand(HkdfExtract(salt, ikm), info)

\* deriveKekFromSignature.
KekOf(signature, salt) == DeriveKey(Hash(signature), salt, "SJ-KEK-v1")

-----------------------------------------------------------------------------
(* The messages a wallet signs.  A nonce stands for the time of issue too. *)

ProofMessage(w, n)  == [purpose |-> "proof_of_control", wallet |-> w, nonce |-> n]
UnlockMessage(w, n) == [purpose |-> "SJ_UNLOCK_V1", wallet |-> w, nonce |-> n]
RootMessage(w)      == [purpose |-> "SJ_VAULT_ROOT_V1", wallet |-> w]

-----------------------------------------------------------------------------
(* Files. *)

\* The fields of a header that must not change.
Fields == {"fileId", "originalFileName", "mimeType", "fileSize"}

\* Mutant form of WrapAad: the wrap is not bound to the wallet.
WrapAadOfAnyone(salt, wallet, meta) ==
    [v |-> 3, salt |-> salt, fileId |-> meta["fileId"], headerHash |-> Hash(meta)]

WrapAad(salt, wallet, meta) ==
    [v |-> 3, salt |-> salt, walletPubKey |-> wallet, fileId |-> meta["fileId"],
     headerHash |-> Hash(meta)]

\* The associated data of the content: the fields and two of them again,
\* under the names they had before.
FileAad(meta) ==
    [meta |-> meta, filename |-> meta["originalFileName"], size |-> meta["fileSize"]]

\* encryptFile, and the header and envelope of the object uploaded.
EncryptFile(call, wallet, kek, salt, meta, text) ==
    LET fileKey == Random("fileKey", call) IN
    [header |->
        [meta       |-> meta,
         aad        |-> FileAad(meta),
         nonce      |-> Random("fileNonce", call),
         ciphertext |-> Seal(fileKey, Random("fileNonce", call), FileAad(meta), text)],
     envelope |->
        [walletPubKey |-> wallet,
         template     |-> "SJ_UNLOCK_V1",
         salt         |-> salt,
         nonce        |-> Random("wrapNonce", call),
         wrapped      |-> Seal(kek, Random("wrapNonce", call),
                               WrapAad(salt, wallet, meta), fileKey)]]

\* The fields decryptFile binds to the wrapped key: those of the header,
\* then those repeated in its associated data, then the former names.
BoundMeta(h) ==
    [f \in Fields |->
        Or(h.meta[f],
           Or(h.aad.meta[f], CASE f = "originalFileName" -> h.aad.filename
                               [] f = "fileSize"         -> h.aad.size
                               [] OTHER                  -> Null))]

\* Mutant form of ReadAad: the former names are taken as they stand.
ReadAadWithoutNames(h) ==
    [meta     |-> [f \in Fields |-> Or(h.meta[f], h.aad.meta[f])],
     filename |-> Null,
     size     |-> Or(h.aad.size, h.meta["fileSize"])]

\* The associated data decryptFile opens the content with.
ReadAad(h) ==
    [meta     |-> [f \in Fields |-> Or(h.meta[f], h.aad.meta[f])],
     filename |-> Or(h.aad.filename, h.meta["originalFileName"]),
     size     |-> Or(h.aad.size, h.meta["fileSize"])]

UnwrapFileKey(h, e, kek) ==
    Open(kek, e.nonce, WrapAad(e.salt, e.walletPubKey, BoundMeta(h)), e.wrapped)

\* decryptFile.
DecryptFile(h, e, kek) ==
    IF \/ Null \in {e.salt, e.walletPubKey, BoundMeta(h)["fileId"]}
       \/ UnwrapFileKey(h, e, kek) = Fail
    THEN Fail
    ELSE Open(UnwrapFileKey(h, e, kek), h.nonce, ReadAad(h), h.ciphertext)

-----------------------------------------------------------------------------
(* The manifest. *)

\* The key of the manifest, and the key that wraps it, come from the same
\* signature of the vault-root message; the salt stored is not used.
RootKek(signature)  == KekOf(signature, Null)
ManifestKey(kek)    == DeriveKey(kek, Null, "SJ-MANIFEST-v1")

ManifestAad(wallet) == [walletPubKey |-> wallet, context |-> "manifest"]
ManifestWrapAad(wallet, template) == [walletPubKey |-> wallet, messageTemplateId |-> template]

Integrity(o) == Hash([o EXCEPT !.integrity = Null])

\* buildManifestWrapEnvelope and encryptManifestV1, for a list of entries.
EncryptManifest(call, wallet, signature, entries) ==
    LET kek == RootKek(signature)
        o   == [aad          |-> ManifestAad(wallet),
                nonce        |-> Random("manifestNonce", call),
                ciphertext   |-> Seal(ManifestKey(kek), Random("manifestNonce", call),
                                      ManifestAad(wallet),
                                      [walletPubKey |-> wallet, entries |-> entries]),
                walletPubKey |-> wallet,
                template     |-> "SJ_VAULT_ROOT_V1",
                wrapNonce    |-> Random("manifestWrapNonce", call),
                wrapped      |-> Seal(kek, Random("manifestWrapNonce", call),
                                      ManifestWrapAad(wallet, "SJ_VAULT_ROOT_V1"),
                                      ManifestKey(kek)),
                integrity    |-> Null]
    IN  [o EXCEPT !.integrity = Integrity(o)]

\* unwrapManifestKey.
UnwrapManifestKey(o, wallet, signature) ==
    IF o.walletPubKey # wallet \/ o.template # "SJ_VAULT_ROOT_V1"
    THEN Fail
    ELSE Open(RootKek(signature), o.wrapNonce, ManifestWrapAad(wallet, o.template), o.wrapped)

\* decryptManifestV1, with the key unwrapped.
DecryptManifest(o, wallet, signature) ==
    LET key  == UnwrapManifestKey(o, wallet, signature)
        read == Open(key, o.nonce, o.aad, o.ciphertext)
    IN  IF \/ key = Fail
           \/ o.aad # ManifestAad(wallet)
           \/ o.integrity # Integrity(o)
           \/ read = Fail
        THEN Fail
        ELSE IF read.walletPubKey # wallet THEN Fail ELSE read.entries
=============================================================================
