------------------------------ MODULE Identity ------------------------------
(***************************************************************************)
(* The proof of control of a wallet, in one page: it is made by "Sign to   *)
(* Verify" (VerifyWallet.tsx, wallet/utils.ts), kept in the localStorage   *)
(* all pages of the origin share (wallet/types.ts), shown by the identity  *)
(* panel (IdentityStatus.tsx) and read by the guards of vaultGuards.ts.    *)
(*                                                                         *)
(* The other pages appear as what they do to the shared key: they store a  *)
(* proof of their own and they remove the one stored, which they also do   *)
(* when they load.                                                         *)
(***************************************************************************)
EXTENDS Integers, LocalEncryption

CONSTANTS
    Wallets,
    None,       \* null, where a wallet is expected
    NoProof,    \* null, where a proof is expected
    NoCall,     \* no verification in progress
    TTL,        \* getProofTtlSeconds
    MaxTime,    \* bound on the clock, for TLC
    MaxNonce    \* bound on the messages made, for TLC

VARIABLES
    clock,      \* the time
    nonce,      \* the nonce the next message gets
    stored,     \* sj_identity in localStorage
    event,      \* a storage event of another page is due
    adapter,    \* public key of the wallet adapter, None if not connected
    sess,       \* the SessionManager: its wallet, and whether the vault is open
    verify,     \* the message doVerify waits a signature of, or NoCall
    panel,      \* the identity the panel holds
    mounted     \* the one it held when it was mounted: its poll compares with it

page == <<clock, nonce, stored, event, adapter, sess, verify, panel, mounted>>

MaybeWallet == Wallets \cup {None}
Message     == [purpose : {"proof_of_control"}, wallet : Wallets, nonce : Nat]
Proof       == [publicKey : Wallets, message : Message,
                signature : [signer : Wallets, signed : Message], verifiedAt : Nat]
MaybeProof  == Proof \cup {NoProof}
Session     == [wallet : MaybeWallet, open : BOOLEAN]

ASSUME IdentityAssumption ==
    /\ None \notin Wallets
    /\ NoProof \notin Proof
    /\ NoCall \notin Message
    /\ TTL \in Nat \ {0}
    /\ MaxTime \in Nat /\ MaxNonce \in Nat

IdentityInit ==
    /\ clock = 0
    /\ nonce = 0
    /\ stored = NoProof
    /\ event = FALSE
    /\ adapter = None
    /\ sess = [wallet |-> None, open |-> FALSE]
    /\ verify = NoCall
    /\ panel = NoProof
    /\ mounted = NoProof

-----------------------------------------------------------------------------
(* The helpers of wallet/types.ts and vaultGuards.ts. *)

ExpiresAt(p) == p.verifiedAt + TTL

\* isVerified: a proof is good at the instant it expires.
IsVerified(p, t) == p # NoProof /\ ~(t > ExpiresAt(p))

\* canPerformVaultActions.
CanPerformVaultActions(p) == IsVerified(p, clock) /\ sess.open

\* The proof doVerify makes of a message and its signature.
NewProof(w, m, sig) ==
    [publicKey |-> w, message |-> m, signature |-> sig, verifiedAt |-> clock]

-----------------------------------------------------------------------------
(* Sign to Verify. *)

\* Mutant form of StartVerify: the nonce is used again.
StartVerifyAgain ==
    /\ verify = NoCall
    /\ adapter # None
    /\ nonce < MaxNonce
    /\ verify' = ProofMessage(adapter, nonce)
    /\ nonce' \in {nonce, nonce + 1}
    /\ UNCHANGED <<clock, stored, event, adapter, sess, panel, mounted>>

\* doVerify begins: the key is that of the adapter at the click.
StartVerify ==
    /\ verify = NoCall
    /\ adapter # None
    /\ nonce < MaxNonce
    /\ verify' = ProofMessage(adapter, nonce)
    /\ nonce' = nonce + 1
    /\ UNCHANGED <<clock, stored, event, adapter, sess, panel, mounted>>

\* Mutant form of Verifies: any signature of the message will do.
VerifiesMessage(m, sig, w) == sig.signed = m

\* verifyMessageSignatureVerbose.
Verifies(m, sig, w) == sig = Sign(w, m)

\* The wallet signs, with the account it is on by then.  The signature is
\* checked against the key of the click and the proof is stored, unless
\* localStorage has no room left.
Signed(w) ==
    /\ verify # NoCall
    /\ verify' = NoCall
    /\ LET sig == Sign(w, verify) IN
       \/ /\ Verifies(verify, sig, verify.wallet)
          /\ stored' = NewProof(verify.wallet, verify, sig)
       \/ stored' = stored
    /\ UNCHANGED <<clock, nonce, event, adapter, sess, panel, mounted>>

-----------------------------------------------------------------------------
(* The wallet and the session. *)

\* The adapter connects or changes account, and its effect the session; the
\* effect also runs when the session left the wallet of the adapter.
AdapterConnects(w) ==
    /\ adapter # w \/ sess.wallet # w
    /\ adapter' = w
    /\ sess' = [wallet |-> w, open |-> FALSE]
    /\ UNCHANGED <<clock, nonce, stored, event, verify, panel, mounted>>

\* The disconnect button: the proof is removed even if the adapter throws.
\* The session is not told.
Disconnect ==
    /\ adapter # None
    /\ adapter' \in {None, adapter}
    /\ stored' = NoProof
    /\ UNCHANGED <<clock, nonce, event, sess, verify, panel, mounted>>

\* disconnectWallet(), which the hook offers and nothing in the app calls: the
\* effect of the panel then removes the proof and locks the vault.
DisconnectWallet ==
    /\ sess.wallet # None
    /\ sess' = [wallet |-> None, open |-> FALSE]
    /\ adapter' \in {None, adapter}
    /\ stored' = NoProof
    /\ panel' = NoProof
    /\ UNCHANGED <<clock, nonce, event, verify, mounted>>

\* unlockVault ends.
Unlock ==
    /\ sess.wallet # None
    /\ ~sess.open
    /\ sess' = [sess EXCEPT !.open = TRUE]
    /\ UNCHANGED <<clock, nonce, stored, event, adapter, verify, panel, mounted>>

-----------------------------------------------------------------------------
(* The panel. *)

\* "Clear identity".
Clear ==
    /\ stored' = NoProof
    /\ panel' = NoProof
    /\ sess' = [sess EXCEPT !.open = FALSE]
    /\ UNCHANGED <<clock, nonce, event, adapter, verify, mounted>>

\* The storage event of a change by another page.
StorageEvent ==
    /\ event
    /\ event' = FALSE
    /\ panel' = stored
    /\ UNCHANGED <<clock, nonce, stored, adapter, sess, verify, mounted>>

\* Mutant form of Poll: it brings proofs and never removes one.
PollForProofs ==
    /\ stored \notin {mounted, NoProof}
    /\ panel # stored
    /\ panel' = stored
    /\ UNCHANGED <<clock, nonce, stored, event, adapter, sess, verify, mounted>>

\* The poll.  Its closure keeps the identity of the mount, and it acts when
\* the one stored differs from that, not from the one shown.
Poll ==
    /\ stored # mounted
    /\ panel # stored
    /\ panel' = stored
    /\ UNCHANGED <<clock, nonce, stored, event, adapter, sess, verify, mounted>>

\* The page is loaded again: nothing is connected, so the panel is mounted
\* with the identity stored and its first effect removes it.
Reload ==
    /\ mounted' = stored
    /\ stored' = NoProof
    /\ panel' = NoProof
    /\ sess' = [wallet |-> None, open |-> FALSE]
    /\ adapter' = None
    /\ verify' = NoCall
    /\ event' = FALSE
    /\ UNCHANGED <<clock, nonce>>

-----------------------------------------------------------------------------
(* The other pages and the time. *)

OtherVerifies(w) ==
    /\ nonce < MaxNonce
    /\ stored' = NewProof(w, ProofMessage(w, nonce), Sign(w, ProofMessage(w, nonce)))
    /\ nonce' = nonce + 1
    /\ event' = TRUE
    /\ UNCHANGED <<clock, adapter, sess, verify, panel, mounted>>

OtherClears ==
    /\ stored # NoProof
    /\ stored' = NoProof
    /\ event' = TRUE
    /\ UNCHANGED <<clock, nonce, adapter, sess, verify, panel, mounted>>

Tick ==
    /\ clock < MaxTime
    /\ clock' = clock + 1
    /\ UNCHANGED <<nonce, stored, event, adapter, sess, verify, panel, mounted>>

PageStep ==
    \/ StartVerify
    \/ \E w \in Wallets : Signed(w) \/ AdapterConnects(w) \/ OtherVerifies(w)
    \/ Disconnect \/ DisconnectWallet \/ Unlock
    \/ Clear \/ StorageEvent \/ Poll
    \/ OtherClears \/ Tick

-----------------------------------------------------------------------------
(* Properties. *)

IdentityTypeOK ==
    /\ clock \in Nat /\ nonce \in Nat
    /\ stored \in MaybeProof /\ panel \in MaybeProof /\ mounted \in MaybeProof
    /\ event \in BOOLEAN
    /\ adapter \in MaybeWallet
    /\ sess \in Session
    /\ verify \in Message \cup {NoCall}

\* An identity names the wallet that signed its message, and the message
\* names it too, whichever account the wallet was on when it signed.
BySigner(p) ==
    /\ p.message.wallet = p.publicKey
    /\ p.signature = Sign(p.publicKey, p.message)

\* The panel shows again and again the identity stored, unless the one stored
\* is, from some time on, the one it was mounted with: the poll of
\* IdentityStatus.tsx compares with that (README, section 5).
PanelFollows == <>[](stored # mounted) => []<>(panel = stored)
=============================================================================
