--------------------------- MODULE FileKeysProofs ---------------------------
(***************************************************************************)
(* What holds of the identities and of the files sealed with their         *)
(* signatures, for any wallets, uploads, clocks and numbers of messages.   *)
(*                                                                         *)
(* FInv is inductive: a step keeps the identities held, or adds one made   *)
(* of a message nobody has yet made an identity of.  That a package opens  *)
(* with its own identity only follows from it and from the signatures      *)
(* being those of the wallets named, by the equations of LocalEncryption.  *)
(***************************************************************************)
EXTENDS FileKeys, TLAPS

-----------------------------------------------------------------------------
(* The identities held. *)

\* A proof made of a message and the signature of its wallet is a proof.
LEMMA NewProofType ==
    ASSUME clock \in Nat, NEW m \in Message
    PROVE  /\ NewProof(m.wallet, m, Sign(m.wallet, m)) \in Proof
           /\ NewProof(m.wallet, m, Sign(m.wallet, m)).message = m
           /\ BySigner(NewProof(m.wallet, m, Sign(m.wallet, m)))
BY DEF NewProof, Message, Proof, Sign, BySigner

\* The messages made are messages, with the nonce and wallet they were given.
LEMMA MessageType ==
    ASSUME NEW w \in Wallets, NEW n \in Nat
    PROVE  /\ ProofMessage(w, n) \in Message
           /\ ProofMessage(w, n).wallet = w
           /\ ProofMessage(w, n).nonce = n
BY DEF ProofMessage, Message

\* A step that copies and removes identities holds no new one.
LEMMA HeldCopied ==
    ASSUME {stored', panel', mounted'} \subseteq {stored, panel, mounted, NoProof},
           \A u \in Uploads : up'[u].proof \in {up[u].proof, stored, NoProof}
    PROVE  Held' \subseteq Held
BY DEF Held

\* Nonces stay fresh when no identity is added.
LEMMA FreshWhenCopied ==
    ASSUME FInv, Held' \subseteq Held,
           nonce' \in {nonce, nonce + 1},
           \/ verify' \in {verify, NoCall}
           \/ nonce' = nonce + 1 /\ verify' # NoCall /\ verify'.nonce = nonce
    PROVE  NoncesFresh'
<1> USE DEF FInv, NoncesFresh
<1>0. nonce \in Nat /\ nonce' \in Nat /\ nonce <= nonce'
  BY DEF TypeOK, IdentityTypeOK
<1>1. \A p \in Held : p \in Proof /\ p.message.nonce \in Nat
  BY DEF Held, TypeOK, IdentityTypeOK, MaybeProof, Proof, Message
<1>2. \A p \in Held' : p.message.nonce < nonce'
  BY <1>0, <1>1
<1>3. \A p, q \in Held' : p.message.nonce = q.message.nonce => p = q
  OBVIOUS
<1>4. ASSUME verify' # NoCall
      PROVE  /\ verify'.nonce < nonce'
             /\ \A p \in Held' : p.message.nonce # verify'.nonce
  <2>1. CASE verify' = verify
    <3>1. verify.nonce \in Nat
      BY <2>1, <1>4 DEF TypeOK, IdentityTypeOK, Message
    <3> QED BY <2>1, <3>1, <1>4, <1>0
  <2>2. CASE nonce' = nonce + 1 /\ verify'.nonce = nonce
    BY <2>2, <1>0, <1>1
  <2> QED BY <2>1, <2>2, <1>4
<1> QED BY <1>2, <1>3, <1>4

\* Nonces stay fresh when the identity added has one that none had.
LEMMA FreshWhenAdded ==
    ASSUME FInv, NEW p, Held' \subseteq Held \cup {p},
           nonce' \in {nonce, nonce + 1},
           p.message.nonce \in Nat, p.message.nonce < nonce',
           \A q \in Held : q.message.nonce # p.message.nonce,
           \/ verify' = NoCall
           \/ verify' = verify /\ (verify # NoCall => verify.nonce # p.message.nonce)
    PROVE  NoncesFresh'
<1> USE DEF FInv, NoncesFresh
<1>0. nonce \in Nat /\ nonce' \in Nat /\ nonce <= nonce'
  BY DEF TypeOK, IdentityTypeOK
<1>1. \A q \in Held : q.message.nonce \in Nat
  BY DEF Held, TypeOK, IdentityTypeOK, MaybeProof, Proof, Message
<1>2. \A q \in Held' : q.message.nonce < nonce'
  BY <1>0, <1>1
<1>3. \A q, r \in Held' : q.message.nonce = r.message.nonce => q = r
  OBVIOUS
<1>4. ASSUME verify' # NoCall
      PROVE  /\ verify'.nonce < nonce'
             /\ \A q \in Held' : q.message.nonce # verify'.nonce
  <2>1. verify' = verify /\ verify.nonce \in Nat
    BY <1>4 DEF TypeOK, IdentityTypeOK, Message
  <2> QED BY <2>1, <1>4, <1>0
<1> QED BY <1>2, <1>3, <1>4

-----------------------------------------------------------------------------
(* The inductive invariant. *)

\* It holds of a page just loaded.
LEMMA InitFInv == Init => FInv
<1> SUFFICES ASSUME Init PROVE FInv
  OBVIOUS
<1> USE DEF Init, IdentityInit
<1>1. TypeOK
  BY DEF TypeOK, IdentityTypeOK, MaybeProof, MaybeWallet, Session, NoUpload, Phases
<1>2. Held = {}
  BY DEF Held, NoUpload
<1>3. NoncesFresh
  BY <1>2 DEF NoncesFresh
<1>4. UploadsAreWhole
  BY DEF UploadsAreWhole, NoUpload
<1> QED BY <1>1, <1>3, <1>4 DEF FInv

\* Every step of the page but the uploads' keeps it.
LEMMA PageStepFInv ==
    ASSUME FInv, PageStep, up' = up
    PROVE  FInv'
<1> USE DEF FInv
<1>0. TypeOK /\ IdentityTypeOK
  BY DEF TypeOK
<1>00. UploadsAreWhole'
  BY DEF UploadsAreWhole
<1>T. IdentityTypeOK' => TypeOK'
  BY <1>0 DEF TypeOK
<1>C. /\ {stored', panel', mounted'} \subseteq {stored, panel, mounted, NoProof}
      => Held' \subseteq Held
  BY HeldCopied
<1> USE DEF IdentityTypeOK, MaybeProof, MaybeWallet, Session
<1>1. CASE StartVerify
  <2> USE <1>1 DEF StartVerify
  <2>1. adapter \in Wallets /\ nonce \in Nat
    BY <1>0
  <2>2. verify' \in Message /\ verify'.nonce = nonce
    BY <2>1, MessageType
  <2>3. TypeOK'
    BY <1>0, <1>T, <2>1, <2>2
  <2>4. verify' # NoCall
    BY <2>2, IdentityAssumption
  <2>5. NoncesFresh'
    BY <1>C, <2>2, <2>4, FreshWhenCopied
  <2> QED BY <2>3, <2>5, <1>00
<1>2. CASE \E w \in Wallets : Signed(w)
  <2> PICK w \in Wallets : Signed(w)
    BY <1>2
  <2> DEFINE sig == Sign(w, verify)
             p   == NewProof(verify.wallet, verify, sig)
  <2> USE DEF Signed
  <2>1. verify \in Message /\ clock \in Nat
    BY <1>0
  <2>2. CASE stored' = stored
    <3>1. TypeOK'
      BY <1>0, <1>T, <2>2
    <3>2. NoncesFresh'
      BY <2>2, <1>C, FreshWhenCopied
    <3> QED BY <3>1, <3>2, <1>00
  <2>3. CASE Verifies(verify, sig, verify.wallet) /\ stored' = p
    <3>1. sig = Sign(verify.wallet, verify)
      BY <2>3 DEF Verifies
    <3>2. p \in Proof /\ p.message = verify
      BY <3>1, <2>1, NewProofType
    <3>3. TypeOK'
      BY <1>0, <1>T, <2>3, <3>2
    <3>4. Held' \subseteq Held \cup {p}
      BY <2>3 DEF Held
    <3>5. /\ verify.nonce \in Nat /\ verify.nonce < nonce
          /\ \A q \in Held : q.message.nonce # verify.nonce
      BY <2>1 DEF NoncesFresh, Message
    <3>6. NoncesFresh'
      BY <3>2, <3>4, <3>5, FreshWhenAdded
    <3> QED BY <3>3, <3>6, <1>00
  <2> QED BY <2>2, <2>3
<1>3. CASE \E w \in Wallets : OtherVerifies(w)
  <2> PICK w \in Wallets : OtherVerifies(w)
    BY <1>3
  <2> DEFINE m == ProofMessage(w, nonce)
             p == NewProof(w, m, Sign(w, m))
  <2> USE DEF OtherVerifies
  <2>1. nonce \in Nat /\ clock \in Nat
    BY <1>0
  <2>2. m \in Message /\ m.wallet = w /\ m.nonce = nonce
    BY <2>1, MessageType
  <2>3. p \in Proof /\ p.message = m
    BY <2>1, <2>2, NewProofType
  <2>4. TypeOK'
    BY <1>0, <1>T, <2>1, <2>3
  <2>5. Held' \subseteq Held \cup {p}
    BY DEF Held
  <2>6. \A q \in Held : q.message.nonce \in Nat /\ q.message.nonce < nonce
    BY <1>0 DEF NoncesFresh, Held, Proof, Message, TypeOK
  <2>7. verify # NoCall => verify.nonce \in Nat /\ verify.nonce < nonce
    BY <1>0 DEF NoncesFresh, Message
  <2>8. NoncesFresh'
    <3>1. p.message.nonce = nonce /\ nonce' = nonce + 1 /\ verify' = verify
      BY <2>2, <2>3
    <3>2. \A q \in Held : q.message.nonce # p.message.nonce
      BY <3>1, <2>6, <2>1
    <3>3. verify # NoCall => verify.nonce # p.message.nonce
      BY <3>1, <2>7, <2>1
    <3> HIDE DEF p
    <3> QED BY <3>1, <3>2, <3>3, <2>1, <2>5, FreshWhenAdded
  <2> QED BY <2>4, <2>8, <1>00
<1>4. CASE \/ \E w \in Wallets : AdapterConnects(w)
           \/ Disconnect \/ DisconnectWallet \/ Unlock
           \/ Clear \/ StorageEvent \/ Poll \/ OtherClears \/ Tick
  <2>1. TypeOK'
    <3>1. CASE \E w \in Wallets : AdapterConnects(w)
      BY <1>0, <1>T, <3>1 DEF AdapterConnects
    <3>2. CASE Disconnect
      BY <1>0, <1>T, <3>2 DEF Disconnect
    <3>3. CASE DisconnectWallet
      BY <1>0, <1>T, <3>3 DEF DisconnectWallet
    <3>4. CASE Unlock
      BY <1>0, <1>T, <3>4 DEF Unlock
    <3>5. CASE Clear
      BY <1>0, <1>T, <3>5 DEF Clear
    <3>6. CASE StorageEvent
      BY <1>0, <1>T, <3>6 DEF StorageEvent
    <3>7. CASE Poll
      BY <1>0, <1>T, <3>7 DEF Poll
    <3>8. CASE OtherClears
      BY <1>0, <1>T, <3>8 DEF OtherClears
    <3>9. CASE Tick
      BY <1>0, <1>T, <3>9 DEF Tick
    <3> QED BY <1>4, <3>1, <3>2, <3>3, <3>4, <3>5, <3>6, <3>7, <3>8, <3>9
  <2> USE DEF AdapterConnects, Disconnect, DisconnectWallet, Unlock, Clear,
              StorageEvent, Poll, OtherClears, Tick
  <2>2. nonce' = nonce /\ verify' = verify
    BY <1>4
  <2>3. {stored', panel', mounted'} \subseteq {stored, panel, mounted, NoProof}
    BY <1>4
  <2>4. NoncesFresh'
    BY <2>2, <2>3, <1>C, FreshWhenCopied
  <2> QED BY <2>1, <2>4, <1>00
<1> QED BY <1>1, <1>2, <1>3, <1>4 DEF PageStep

\* The steps of the uploads keep it.
LEMMA UploadFInv ==
    ASSUME FInv, NEW u \in Uploads, StartUpload(u) \/ UploadEnds(u) \/ Append(u)
    PROVE  FInv'
<1> USE DEF FInv, StartUpload, UploadEnds, Append
<1>0. TypeOK /\ UNCHANGED page
  OBVIOUS
<1>1. stored \in MaybeProof /\ sess.wallet \in MaybeWallet
  BY DEF TypeOK, IdentityTypeOK, Session
<1>2. IdentityTypeOK'
  BY <1>0 DEF TypeOK, IdentityTypeOK, page
<1>3. up' \in [Uploads -> [pc : Phases, wallet : MaybeWallet, proof : MaybeProof]]
  BY <1>1 DEF TypeOK, FailedUpload, Phases, MaybeWallet, MaybeProof
<1>4. \A v \in Uploads : up'[v].proof \in {up[v].proof, stored, NoProof}
  BY DEF TypeOK, FailedUpload
<1>5. Held' \subseteq Held
  BY <1>0, <1>4, HeldCopied DEF page
<1>6. NoncesFresh'
  BY <1>0, <1>5, FreshWhenCopied DEF page
<1>7. UploadsAreWhole'
  BY DEF TypeOK, UploadsAreWhole, FailedUpload, CanPerformVaultActions, IsVerified
<1> QED BY <1>2, <1>3, <1>6, <1>7 DEF TypeOK

\* Loading the page again keeps it.
LEMMA ReloadFInv ==
    ASSUME FInv, ReloadPage
    PROVE  FInv'
<1> USE DEF FInv, ReloadPage, Reload
<1>1. IdentityTypeOK'
  BY DEF TypeOK, IdentityTypeOK, MaybeWallet, MaybeProof, Session
<1>2. \A u \in Uploads : up'[u] \in {up[u], FailedUpload, [up[u] EXCEPT !.pc = "orphan"]}
  OBVIOUS
<1>3. up' \in [Uploads -> [pc : Phases, wallet : MaybeWallet, proof : MaybeProof]]
  BY <1>2 DEF TypeOK, FailedUpload, Phases, MaybeWallet, MaybeProof
<1>4. \A u \in Uploads : up'[u].proof \in {up[u].proof, stored, NoProof}
  BY <1>2 DEF TypeOK, FailedUpload
<1>5. NoncesFresh'
  BY <1>4, HeldCopied, FreshWhenCopied
<1>6. UploadsAreWhole'
  BY DEF TypeOK, UploadsAreWhole, FailedUpload
<1> QED BY <1>1, <1>3, <1>5, <1>6 DEF TypeOK

\* Every step keeps it.
LEMMA NextFInv == FInv /\ [Next]_vars => FInv'
<1> SUFFICES ASSUME FInv, [Next]_vars PROVE FInv'
  OBVIOUS
<1>1. CASE UNCHANGED vars
  <2> USE <1>1 DEF vars, page
  <2>1. Held' = Held
    BY DEF Held
  <2> QED BY <2>1 DEF FInv, TypeOK, IdentityTypeOK, NoncesFresh, UploadsAreWhole
<1>2. CASE Next
  BY <1>2, PageStepFInv, UploadFInv, ReloadFInv DEF Next
<1> QED BY <1>1, <1>2

\* The identities held are made of fresh messages, and every variable keeps
\* its type, whatever prompts, reloads, expiries and other pages do.
THEOREM InvAlways == Spec => []FInv
<1>1. Init => FInv
  BY InitFInv
<1>2. FInv /\ [Next]_vars => FInv'
  BY NextFInv
<1> QED BY <1>1, <1>2, PTL DEF Spec

-----------------------------------------------------------------------------
(* Identities are made by the wallets they name. *)

\* A step holds the identities held before and at most one more, made of a
\* message and of its signature by the wallet it names.
LEMMA HeldGrows ==
    ASSUME FInv, [Next]_vars
    PROVE  \/ Held' \subseteq Held
           \/ \E m \in Message :
                 Held' \subseteq Held \cup {NewProof(m.wallet, m, Sign(m.wallet, m))}
<1> USE DEF FInv
<1>0. TypeOK /\ IdentityTypeOK
  BY DEF TypeOK
<1>1. CASE UNCHANGED vars
  BY <1>1 DEF vars, page, Held
<1>2. CASE PageStep /\ UNCHANGED up
  <2>1. CASE \E w \in Wallets : Signed(w)
    <3> PICK w \in Wallets : Signed(w)
      BY <2>1
    <3>1. verify \in Message
      BY <1>0 DEF Signed, IdentityTypeOK
    <3>2. \/ stored' = stored
          \/ stored' = NewProof(verify.wallet, verify, Sign(verify.wallet, verify))
      BY DEF Signed, Verifies
    <3>3. UNCHANGED <<panel, mounted, up>>
      BY <1>2 DEF Signed
    <3> QED BY <3>1, <3>2, <3>3 DEF Held
  <2>2. CASE \E w \in Wallets : OtherVerifies(w)
    <3> PICK w \in Wallets : OtherVerifies(w)
      BY <2>2
    <3>1. ProofMessage(w, nonce) \in Message /\ ProofMessage(w, nonce).wallet = w
      BY <1>0, MessageType DEF IdentityTypeOK
    <3>2. stored' = NewProof(w, ProofMessage(w, nonce), Sign(w, ProofMessage(w, nonce)))
      BY DEF OtherVerifies
    <3>3. UNCHANGED <<panel, mounted, up>>
      BY <1>2 DEF OtherVerifies
    <3> QED BY <3>1, <3>2, <3>3 DEF Held
  <2>3. CASE \/ StartVerify
             \/ \E w \in Wallets : AdapterConnects(w)
             \/ Disconnect \/ DisconnectWallet \/ Unlock
             \/ Clear \/ StorageEvent \/ Poll \/ OtherClears \/ Tick
    <3>1. {stored', panel', mounted'} \subseteq {stored, panel, mounted, NoProof}
      BY <2>3 DEF StartVerify, AdapterConnects, Disconnect, DisconnectWallet,
                  Unlock, Clear, StorageEvent, Poll, OtherClears, Tick
    <3> QED BY <1>2, <3>1, HeldCopied
  <2> QED BY <1>2, <2>1, <2>2, <2>3 DEF PageStep
<1>3. CASE ReloadPage
  <2>1. \A u \in Uploads : up'[u].proof \in {up[u].proof, stored, NoProof}
    <3>1. \A u \in Uploads :
            up'[u] \in {up[u], FailedUpload, [up[u] EXCEPT !.pc = "orphan"]}
      BY <1>3 DEF ReloadPage
    <3> QED BY <3>1, <1>0 DEF TypeOK, FailedUpload
  <2> QED BY <1>3, <2>1, HeldCopied DEF ReloadPage, Reload
<1>4. CASE \E u \in Uploads : StartUpload(u) \/ UploadEnds(u) \/ Append(u)
  <2>1. UNCHANGED page
    BY <1>4 DEF StartUpload, UploadEnds, Append
  <2>2. \A u \in Uploads : up'[u].proof \in {up[u].proof, stored, NoProof}
    BY <1>4, <1>0 DEF StartUpload, UploadEnds, Append, TypeOK, FailedUpload
  <2> QED BY <2>1, <2>2, HeldCopied DEF page
<1> QED BY <1>1, <1>2, <1>3, <1>4 DEF Next

\* An identity that the page shows or stores, or that an upload took its key
\* from, was signed by the wallet it names, whichever account the wallet was
\* on when the prompt was answered.
THEOREM IdentitiesAreSigned == Spec => []ProofIsBySigner
<1>1. Init => ProofIsBySigner
  BY DEF Init, IdentityInit, ProofIsBySigner, Held, NoUpload
<1>2. FInv /\ ProofIsBySigner /\ [Next]_vars => ProofIsBySigner'
  <2> SUFFICES ASSUME FInv, ProofIsBySigner, [Next]_vars PROVE ProofIsBySigner'
    OBVIOUS
  <2>1. CASE Held' \subseteq Held
    BY <2>1 DEF ProofIsBySigner, BySigner
  <2>2. CASE \E m \in Message :
               Held' \subseteq Held \cup {NewProof(m.wallet, m, Sign(m.wallet, m))}
    <3>1. clock \in Nat
      BY DEF FInv, TypeOK, IdentityTypeOK
    <3>2. \A m \in Message : BySigner(NewProof(m.wallet, m, Sign(m.wallet, m)))
      BY <3>1, NewProofType
    <3> QED BY <2>2, <3>2 DEF ProofIsBySigner, BySigner
  <2> QED BY <2>1, <2>2, HeldGrows
<1>3. Spec => []FInv
  BY InvAlways
<1> QED BY <1>1, <1>2, <1>3, PTL DEF Spec

-----------------------------------------------------------------------------
(* Sealing. *)

\* Different signatures give different keys, for one salt.
LEMMA KekOfOne ==
    ASSUME NEW s, NEW t, NEW salt, KekOf(s, salt) = KekOf(t, salt)
    PROVE  s = t
BY DEF KekOf, DeriveKey, HkdfExpand, HkdfExtract, Hmac, Hash

\* The fields of a header, none of them missing.
Whole(meta) ==
    /\ meta = [f \in Fields |-> meta[f]]
    /\ \A f \in Fields : meta[f] # Null

\* Of a header as encryptFile makes it, decryptFile reads the fields sealed.
LEMMA SealedHeader ==
    ASSUME NEW meta, Whole(meta), NEW call, NEW wallet, NEW kek, NEW salt, NEW text,
           NEW h, h = EncryptFile(call, wallet, kek, salt, meta, text).header
    PROVE  BoundMeta(h) = meta /\ ReadAad(h) = FileAad(meta)
<1>1. h.meta = meta /\ h.aad = FileAad(meta)
  BY DEF EncryptFile
<1>2. \A x : \A f \in Fields : Or(h.meta[f], x) = meta[f]
  BY <1>1 DEF Or, Whole
<1>3. BoundMeta(h) = meta
  BY <1>2 DEF BoundMeta, Whole
<1>4. /\ h.aad.filename = meta["originalFileName"] /\ h.aad.size = meta["fileSize"]
  BY <1>1 DEF FileAad
<1>5. \A x : /\ Or(h.aad.filename, x) = meta["originalFileName"]
             /\ Or(h.aad.size, x) = meta["fileSize"]
  BY <1>4 DEF Or, Fields, Whole
<1>6. [f \in Fields |-> Or(h.meta[f], h.aad.meta[f])] = meta
  BY <1>2 DEF Whole
<1> QED BY <1>3, <1>5, <1>6 DEF ReadAad, FileAad

\* The key wrapped in what encryptFile made comes out with the key it was
\* wrapped with, and with no other.
LEMMA UnwrapsWithItsKey ==
    ASSUME NEW meta, Whole(meta), NEW call, NEW wallet, NEW kek, NEW salt, NEW text, NEW key,
           NEW package, package = EncryptFile(call, wallet, kek, salt, meta, text)
    PROVE  UnwrapFileKey(package.header, package.envelope, key)
             = IF key = kek THEN Random("fileKey", call) ELSE Fail
<1>1. BoundMeta(package.header) = meta
  BY SealedHeader
<1>2. /\ package.envelope.salt = salt /\ package.envelope.walletPubKey = wallet
      /\ package.envelope.nonce = Random("wrapNonce", call)
      /\ package.envelope.wrapped
           = Seal(kek, Random("wrapNonce", call), WrapAad(salt, wallet, meta),
                  Random("fileKey", call))
  BY DEF EncryptFile
<1> QED BY <1>1, <1>2 DEF UnwrapFileKey, Open, Seal

\* decryptFile of what encryptFile made, with the same key: the content.
LEMMA RoundTrip ==
    ASSUME NEW meta, Whole(meta), NEW call, NEW wallet, NEW kek, NEW salt, NEW text,
           Null # wallet, Null # salt, Fail # Random("fileKey", call),
           NEW package, package = EncryptFile(call, wallet, kek, salt, meta, text)
    PROVE  DecryptFile(package.header, package.envelope, kek) = text
<1> DEFINE h == package.header
           e == package.envelope
<1>1. BoundMeta(h) = meta /\ ReadAad(h) = FileAad(meta)
  BY SealedHeader
<1>2. UnwrapFileKey(h, e, kek) = Random("fileKey", call)
  BY UnwrapsWithItsKey
<1>3. e.salt = salt /\ e.walletPubKey = wallet
  BY DEF EncryptFile
<1>4. /\ h.nonce = Random("fileNonce", call)
      /\ h.ciphertext = Seal(Random("fileKey", call), Random("fileNonce", call),
                             FileAad(meta), text)
  BY DEF EncryptFile
<1>5. Null \notin {e.salt, e.walletPubKey, BoundMeta(h)["fileId"]}
  BY <1>1, <1>3 DEF Fields, Whole
<1>6. Open(Random("fileKey", call), h.nonce, ReadAad(h), h.ciphertext) = text
  BY <1>1, <1>4 DEF Open, Seal
<1> QED BY <1>2, <1>5, <1>6 DEF DecryptFile

\* decryptFile of what encryptFile made, with another key: a failure.
LEMMA WrongKeyFails ==
    ASSUME NEW meta, Whole(meta), NEW call, NEW wallet, NEW kek, NEW salt, NEW text,
           NEW package, package = EncryptFile(call, wallet, kek, salt, meta, text),
           NEW key, key # kek
    PROVE  DecryptFile(package.header, package.envelope, key) = Fail
<1>1. UnwrapFileKey(package.header, package.envelope, key) = Fail
  BY UnwrapsWithItsKey
<1> QED BY <1>1 DEF DecryptFile

-----------------------------------------------------------------------------
(* Files. *)

\* What a stored upload holds, and that nothing it seals is missing.
LEMMA StoredIsWhole ==
    ASSUME FInv, NEW u \in Stored
    PROVE  /\ u \in Uploads /\ up[u].proof \in Held /\ up[u].proof \in Proof
           /\ Null \notin {up[u].wallet, Salt(u)}
           /\ Whole(Meta(u))
           /\ Fail # Random("fileKey", u) /\ Fail # Text(u)
<1>1. u \in Uploads /\ up[u].pc \notin {"idle", "failed"}
  BY DEF Stored
<1>2. up[u].wallet \in Wallets /\ up[u].proof \in Proof /\ up[u].proof # NoProof
  BY <1>1 DEF FInv, TypeOK, UploadsAreWhole, MaybeWallet, MaybeProof
<1>3. up[u].proof \in Held
  BY <1>1, <1>2 DEF Held
<1>4. Whole(Meta(u))
  BY <1>1, ValueAssumption DEF Whole, Meta
<1> QED BY <1>1, <1>2, <1>3, <1>4, ValueAssumption

\* What a signature reads of a stored package.
LEMMA ReadPackage ==
    ASSUME FInv, NEW u \in Stored, NEW sig
    PROVE  DecryptFile(PackageOf(u).header, PackageOf(u).envelope, KekOf(sig, Salt(u)))
             = IF sig = up[u].proof.signature THEN Text(u) ELSE Fail
<1> DEFINE key == KekOf(sig, Salt(u))
           kek == KekOf(up[u].proof.signature, Salt(u))
<1>1. PackageOf(u) = EncryptFile(u, up[u].wallet, kek, Salt(u), Meta(u), Text(u))
  BY DEF PackageOf, Package
<1>2. /\ Whole(Meta(u)) /\ Null # up[u].wallet /\ Null # Salt(u)
      /\ Fail # Random("fileKey", u)
  BY StoredIsWhole
<1>3. key = kek <=> sig = up[u].proof.signature
  BY KekOfOne
<1> HIDE DEF key, kek
<1>4. ASSUME key = kek
      PROVE  DecryptFile(PackageOf(u).header, PackageOf(u).envelope, key) = Text(u)
  BY <1>1, <1>2, <1>4, RoundTrip
<1>5. ASSUME key # kek
      PROVE  DecryptFile(PackageOf(u).header, PackageOf(u).envelope, key) = Fail
  BY <1>1, <1>2, <1>5, WrongKeyFails
<1> QED BY <1>3, <1>4, <1>5 DEF key

\* A package opens with the identity it was uploaded with and with nothing
\* else the wallets sign.
LEMMA PackagesOpen == FInv /\ ProofIsBySigner => PackageOpens
<1> SUFFICES ASSUME FInv, ProofIsBySigner, NEW u \in Stored
             PROVE  LET Read(sig) == DecryptFile(PackageOf(u).header,
                                                 PackageOf(u).envelope,
                                                 KekOf(sig, Salt(u)))
                    IN  /\ \A p \in Held :
                              Read(p.signature) = IF p = up[u].proof THEN Text(u) ELSE Fail
                        /\ \A w \in Wallets :
                              /\ Read(Sign(w, RootMessage(w))) = Fail
                              /\ \A n \in 0..nonce :
                                    Read(Sign(w, UnlockMessage(w, n))) = Fail
  BY DEF PackageOpens
<1> DEFINE own == up[u].proof
<1>1. own \in Held /\ own \in Proof
  BY StoredIsWhole
<1>2. own.signature = Sign(own.publicKey, own.message)
  BY <1>1 DEF ProofIsBySigner, BySigner
<1>3. own.message.purpose = "proof_of_control"
  BY <1>1 DEF Proof, Message
<1>4. ASSUME NEW p \in Held, p.signature = own.signature
      PROVE  p = own
  <2>1. p.signature = Sign(p.publicKey, p.message)
    BY <1>4 DEF ProofIsBySigner, BySigner
  <2>2. p.message = own.message
    BY <1>2, <1>4, <2>1 DEF Sign
  <2> QED BY <2>2, <1>1, <1>4 DEF FInv, NoncesFresh
<1>5. ASSUME NEW w, NEW m, m.purpose # "proof_of_control"
      PROVE  Sign(w, m) # own.signature
  BY <1>2, <1>3, <1>5 DEF Sign
<1>6. \A w \in Wallets : Sign(w, RootMessage(w)) # own.signature
  BY <1>5 DEF RootMessage
<1>7. \A w \in Wallets, n \in 0..nonce : Sign(w, UnlockMessage(w, n)) # own.signature
  BY <1>5 DEF UnlockMessage
<1> QED BY <1>4, <1>6, <1>7, ReadPackage

\* The parts of an altered header are read from a ciphertext of one of the two.
LEMMA AlteredCiphertext ==
    ASSUME NEW c, NEW d, NEW wc, NEW wd, NEW kc, NEW kd, NEW sc, NEW sd,
           NEW mc, NEW md, NEW tc, NEW td,
           NEW h \in Altered(EncryptFile(c, wc, kc, sc, mc, tc).header,
                             EncryptFile(d, wd, kd, sd, md, td).header)
    PROVE  h.ciphertext \in {EncryptFile(c, wc, kc, sc, mc, tc).header.ciphertext,
                             EncryptFile(d, wd, kd, sd, md, td).header.ciphertext}
BY DEF Altered, EncryptFile, FileAad

\* An altered package is refused, or read as the file it was made of.
LEMMA PackagesAreBound == FInv => PackageIsBound
<1> SUFFICES ASSUME FInv, NEW u \in Stored, NEW v \in Elsewhere, NEW w \in Wallets,
                    NEW h \in Altered(PackageOf(u).header,
                        Package(v, w, Sign(w, ProofMessage(w, nonce))).header),
                    NEW e \in {PackageOf(u).envelope,
                               [PackageOf(u).envelope EXCEPT !.walletPubKey = w]},
                    DecryptFile(h, e, KekOf(up[u].proof.signature, e.salt)) # Fail
             PROVE  /\ DecryptFile(h, e, KekOf(up[u].proof.signature, e.salt)) = Text(u)
                    /\ BoundMeta(h) = Meta(u)
                    /\ e.walletPubKey = up[u].wallet
  BY DEF PackageIsBound
<1> DEFINE kek   == KekOf(up[u].proof.signature, Salt(u))
           other == Package(v, w, Sign(w, ProofMessage(w, nonce)))
<1>1. /\ e.salt = Salt(u) /\ e.nonce = Random("wrapNonce", u)
      /\ e.wrapped = Seal(kek, Random("wrapNonce", u),
                          WrapAad(Salt(u), up[u].wallet, Meta(u)), Random("fileKey", u))
  BY DEF PackageOf, Package, EncryptFile
<1>2. /\ PackageOf(u).header.ciphertext =
            Seal(Random("fileKey", u), Random("fileNonce", u), FileAad(Meta(u)), Text(u))
      /\ \E aad, text : other.header.ciphertext =
            Seal(Random("fileKey", v), Random("fileNonce", v), aad, text)
  BY DEF PackageOf, Package, EncryptFile
<1>3. h.ciphertext \in {PackageOf(u).header.ciphertext, other.header.ciphertext}
  BY AlteredCiphertext DEF PackageOf, Package
<1>4. UnwrapFileKey(h, e, kek) # Fail
  BY <1>1 DEF DecryptFile
<1>5. /\ WrapAad(e.salt, e.walletPubKey, BoundMeta(h))
            = WrapAad(Salt(u), up[u].wallet, Meta(u))
      /\ UnwrapFileKey(h, e, kek) = Random("fileKey", u)
  BY <1>1, <1>4 DEF UnwrapFileKey, Open, Seal
<1>6. BoundMeta(h) = Meta(u) /\ e.walletPubKey = up[u].wallet
  BY <1>5 DEF WrapAad, Hash
<1>7. DecryptFile(h, e, kek) = Open(Random("fileKey", u), h.nonce, ReadAad(h), h.ciphertext)
  BY <1>1, <1>5 DEF DecryptFile
<1>8. h.ciphertext.key = Random("fileKey", u) /\ DecryptFile(h, e, kek) = h.ciphertext.text
  BY <1>1, <1>7 DEF Open
<1>9. Random("fileKey", u) # Random("fileKey", v)
  BY ValueAssumption, StoredIsWhole DEF Random
<1>10. h.ciphertext = PackageOf(u).header.ciphertext
  BY <1>2, <1>3, <1>8, <1>9 DEF Seal
<1> QED BY <1>1, <1>2, <1>6, <1>8, <1>10 DEF Seal

-----------------------------------------------------------------------------
(* The manifest. *)

\* What a signature reads of a manifest made with another, for their wallets.
LEMMA ReadManifest ==
    ASSUME NEW call, NEW v, NEW w, NEW s, NEW t, NEW entries,
           Fail # ManifestKey(RootKek(s)), Fail # entries,
           Fail # [walletPubKey |-> w, entries |-> entries]
    PROVE  DecryptManifest(EncryptManifest(call, w, s, entries), v, t)
             = IF v = w /\ t = s THEN entries ELSE Fail
<1> DEFINE o   == EncryptManifest(call, w, s, entries)
           key == ManifestKey(RootKek(s))
<1>1. /\ o.aad = ManifestAad(w) /\ o.walletPubKey = w /\ o.template = "SJ_VAULT_ROOT_V1"
      /\ o.ciphertext = Seal(key, o.nonce, ManifestAad(w),
                             [walletPubKey |-> w, entries |-> entries])
      /\ o.wrapped = Seal(RootKek(s), o.wrapNonce,
                          ManifestWrapAad(w, "SJ_VAULT_ROOT_V1"), key)
  BY DEF EncryptManifest
<1>2. o.integrity = Integrity(o)
  BY DEF EncryptManifest, Integrity
<1>3. RootKek(t) = RootKek(s) <=> t = s
  BY KekOfOne DEF RootKek
<1> HIDE DEF o, key
<1>4. UnwrapManifestKey(o, v, t) = IF v = w /\ t = s THEN key ELSE Fail
  BY <1>1, <1>3 DEF UnwrapManifestKey, Open, Seal
<1>5. Open(key, o.nonce, o.aad, o.ciphertext) = [walletPubKey |-> w, entries |-> entries]
  BY <1>1 DEF Open, Seal
<1>6. key # Fail
  BY DEF key
<1>7. CASE v = w /\ t = s
  BY <1>1, <1>2, <1>4, <1>5, <1>6, <1>7 DEF DecryptManifest, o
<1>8. CASE ~(v = w /\ t = s)
  BY <1>4, <1>8 DEF DecryptManifest, o
<1> QED BY <1>7, <1>8 DEF o

\* The manifest of a wallet opens with the root signature of that wallet only.
LEMMA ManifestsReopen == ManifestReopens
<1> SUFFICES ASSUME NEW v \in Wallets, NEW w \in Wallets
             PROVE  DecryptManifest(ManifestOf(w), v, Sign(v, RootMessage(v)))
                      = IF v = w THEN Listed(w) ELSE Fail
  BY DEF ManifestReopens
<1>1. Listed(w) \in SUBSET Uploads
  BY DEF Listed
<1>2. /\ Fail # ManifestKey(RootKek(Sign(w, RootMessage(w)))) /\ Fail # Listed(w)
      /\ Fail # [walletPubKey |-> w, entries |-> Listed(w)]
  BY <1>1, ValueAssumption
<1>3. Sign(v, RootMessage(v)) = Sign(w, RootMessage(w)) <=> v = w
  BY DEF Sign
<1> QED BY <1>2, <1>3, ReadManifest DEF ManifestOf

-----------------------------------------------------------------------------
(* The theorems. *)

\* At every instant a package opens with the identity it was uploaded with and
\* no other, and the manifest of a wallet with its root signature and no other.
THEOREM SealedOpensAlways == Spec => []SealedOpens
<1>1. FInv /\ ProofIsBySigner => SealedOpens
  BY PackagesOpen, ManifestsReopen DEF SealedOpens
<1> QED BY <1>1, InvAlways, IdentitiesAreSigned, PTL

\* At every instant a package whose parts were exchanged or lost is refused or
\* read as the file it was made of.
THEOREM PackagesBoundAlways == Spec => []PackageIsBound
<1>1. FInv => PackageIsBound
  BY PackagesAreBound
<1> QED BY <1>1, InvAlways, PTL
=============================================================================
