--------------------------- MODULE SessionManager ---------------------------
(***************************************************************************)
(* The in-memory session of one browser tab and the wallet that feeds it:  *)
(* apps/web/src/lib/session/SessionManager.ts behind the hook              *)
(* useSession.ts, the synchronisation effect of ConnectWallet.tsx and the  *)
(* unlock button.  Tabs of one browser share localStorage, where the       *)
(* Verified signal lives.  unlockVault() is split at its awaits: between   *)
(* two of its steps any other handler of the tab may run.                  *)
(***************************************************************************)
EXTENDS Integers

CONSTANTS
    Tabs,         \* open pages, each with its own SessionManager singleton
    Wallets,      \* public keys the provider can sign with
    None,         \* null
    UnlockTTL,    \* life of an SJ_UNLOCK_V1 message (10 minutes in the code)
    VerifiedTTL,  \* life of the Verified signal (24 hours in the code)
    MaxTime       \* bound on the clock, for TLC

ASSUME SessionAssumption ==
    /\ None \notin Wallets
    /\ UnlockTTL \in Nat \ {0}
    /\ VerifiedTTL \in Nat \ {0}
    /\ MaxTime \in Nat

VARIABLES
    now,      \* Date.now(), shared by the tabs
    stored,   \* localStorage["sj_verified_v1"]
    sess,     \* sess[t]: the fields of the SessionManager of tab t
    adapter,  \* adapter[t]: public key of the wallet adapter, None if not connected
    pending,  \* pending[t]: the synchronisation effect of tab t is scheduled
    call,     \* call[t]: the unlockVault() call of tab t and what it captured
    during    \* during[t] (history): what happened in tab t during its latest
              \* unlockVault() call: nothing, the adapter moved, or a lock

vars == <<now, stored, sess, adapter, pending, call, during>>

MaybeWallet == Wallets \cup {None}
Times       == 0 .. (MaxTime + UnlockTTL + VerifiedTTL)
Verified    == [wallet : MaybeWallet, expires : Times]
UnlockSig   == [wallet : MaybeWallet, by : Wallets, expires : Times]
RootSig     == [wallet : MaybeWallet, by : Wallets]
Session     == [wallet   : MaybeWallet,
                unlocked : BOOLEAN,
                unlock   : UnlockSig \cup {None},
                root     : RootSig \cup {None},
                verified : Verified \cup {None}]

\* null is not an object.
ASSUME NullAssumption == None \notin Verified \cup UnlockSig \cup RootSig

\* Where the call of a tab waits: for the signature of SJ_UNLOCK_V1, for
\* deriveKekFromUnlockSignature, for the signature of SJ_VAULT_ROOT_V1.
Phases == {"idle", "unlockSig", "kek", "rootSig"}
Call   == [pc : Phases, wallet : MaybeWallet, at : 0 .. MaxTime]

Disturbances == {"nothing", "moved", "locked"}

NoCall == [pc |-> "idle", wallet |-> None, at |-> 0]

\* loadVerified(): an expired signal is not returned (and is removed).
Load(v) == IF v # None /\ v.expires > now THEN v ELSE None

\* A session just constructed, and one that lockVault or disconnect emptied.
Fresh == [wallet |-> None, unlocked |-> FALSE, unlock |-> None,
          root |-> None, verified |-> Load(stored)]

Locked(s) == [s EXCEPT !.unlocked = FALSE, !.unlock = None, !.root = None]

\* A refusal of an expired message at unlock: it compares with the time read
\* when unlockVault() began, because nowMs is passed that value.
Expired(c) == c.at + UnlockTTL <= c.at

Init ==
    /\ now = 0
    /\ stored = None
    /\ sess = [t \in Tabs |-> Fresh]
    /\ adapter = [t \in Tabs |-> None]
    /\ pending = [t \in Tabs |-> FALSE]
    /\ call = [t \in Tabs |-> NoCall]
    /\ during = [t \in Tabs |-> "nothing"]

-----------------------------------------------------------------------------
\* Every operation that changes the session dispatches "sj-session-changed";
\* the hooks answer synchronously with getVerified(), which replaces the
\* signal in memory by what localStorage holds.
Publish(t, s, v) ==
    /\ sess' = [sess EXCEPT ![t] = [s EXCEPT !.verified = Load(v)]]
    /\ stored' = Load(v)

\* History: what a handler that runs while unlockVault() waits does to it.
\* A lock outweighs a move.
Disturbed(t, how) ==
    during' = [during EXCEPT ![t] =
                  IF call[t].pc = "idle" \/ @ = "locked" THEN @ ELSE how]

ForOther(v, w) == v # None /\ v.wallet # w

\* Mutant forms of Connected: the vault stays open, the old signatures stay.
ConnectedOpen(s, w) ==
    IF s.wallet \notin {None, w}
    THEN [s EXCEPT !.wallet = w, !.unlock = None, !.root = None]
    ELSE [s EXCEPT !.wallet = w]

\* The fields after connectWallet(w): always locked, and the signatures of the
\* previous wallet forgotten when there was another one.
Connected(s, w) ==
    LET other == s.wallet \notin {None, w}
    IN  [s EXCEPT !.wallet = w,
                  !.unlocked = FALSE,
                  !.unlock = IF other THEN None ELSE @,
                  !.root = IF other THEN None ELSE @]

\* Mutant form of Kept: the signal of the previous wallet is not removed.
KeptForAll(s, w) == stored

\* What connectWallet(w) leaves in localStorage: only a signal this tab holds
\* in memory for another wallet is removed.
Kept(s, w) == IF ForOther(s.verified, w) THEN None ELSE stored

\* connectWallet(w); the hook's walletPubKey is a dependency of the effect,
\* which is scheduled again when it changes.
Connect(t, w) ==
    /\ Publish(t, Connected(sess[t], w), Kept(sess[t], w))
    /\ pending' = [pending EXCEPT ![t] = sess[t].wallet # w]
    /\ Disturbed(t, "locked")
    /\ UNCHANGED <<now, adapter, call>>

\* Mutant form of Sync: a second run is not needed, the first answers for all.
SyncOnce(t) ==
    /\ pending[t]
    /\ sess[t].wallet = None
    /\ adapter[t] # None
    /\ Connect(t, adapter[t])

\* The effect that follows the adapter: it connects, and never disconnects.
Sync(t) ==
    /\ pending[t]
    /\ \/ /\ adapter[t] # None
          /\ Connect(t, adapter[t])
       \/ /\ adapter[t] = None
          /\ pending' = [pending EXCEPT ![t] = FALSE]
          /\ UNCHANGED <<now, stored, sess, adapter, call, during>>

\* The adapter connects, switches account or disconnects (the button of
\* ConnectWallet only calls wallet.disconnect()).
AdapterChange(t, w) ==
    /\ adapter[t] # w
    /\ adapter' = [adapter EXCEPT ![t] = w]
    /\ pending' = [pending EXCEPT ![t] = TRUE]
    /\ Disturbed(t, "moved")
    /\ UNCHANGED <<now, stored, sess, call>>

\* lockVault(), from the identity panel.
Lock(t) ==
    /\ Publish(t, Locked(sess[t]), stored)
    /\ Disturbed(t, "locked")
    /\ UNCHANGED <<now, adapter, pending, call>>

\* refresh() of the hook on its own: after "Sign to Verify" succeeds.
Refresh(t) ==
    /\ Publish(t, sess[t], stored)
    /\ UNCHANGED <<now, adapter, pending, call, during>>

\* disconnectWallet(), which the hook offers and nothing in the app calls yet.
Disconnect(t) ==
    /\ Publish(t, [Locked(sess[t]) EXCEPT !.wallet = None], None)
    /\ pending' = [pending EXCEPT ![t] = @ \/ sess[t].wallet # None]
    /\ Disturbed(t, "locked")
    /\ UNCHANGED <<now, adapter, call>>

-----------------------------------------------------------------------------
\* The button starts unlockVault(): it is shown when a wallet is connected and
\* enabled while the vault is locked and no call runs.
StartUnlock(t) ==
    /\ call[t].pc = "idle"
    /\ sess[t].wallet # None
    /\ ~sess[t].unlocked
    /\ call' = [call EXCEPT ![t] = [pc |-> "unlockSig",
                                    wallet |-> sess[t].wallet,
                                    at |-> now]]
    /\ during' = [during EXCEPT ![t] =
                     IF adapter[t] = sess[t].wallet THEN "nothing" ELSE "moved"]
    /\ UNCHANGED <<now, stored, sess, adapter, pending>>

\* Mutant form of UnlockSigned: a missing signature is not noticed.
UnlockSignedOrNot(t) ==
    /\ call[t].pc = "unlockSig"
    /\ sess' = [sess EXCEPT ![t].unlock =
                   [wallet |-> call[t].wallet, by |-> adapter[t],
                    expires |-> call[t].at + UnlockTTL]]
    /\ call' = [call EXCEPT ![t].pc = "kek"]
    /\ UNCHANGED <<now, stored, adapter, pending, during>>

\* The provider signs with its account of the moment; the signature is stored
\* without being verified, then the KEK derivation refuses an expired message.
UnlockSigned(t) ==
    /\ call[t].pc = "unlockSig"
    /\ adapter[t] # None
    /\ ~Expired(call[t])
    /\ sess' = [sess EXCEPT ![t].unlock =
                   [wallet |-> call[t].wallet, by |-> adapter[t],
                    expires |-> call[t].at + UnlockTTL]]
    /\ call' = [call EXCEPT ![t].pc = "kek"]
    /\ UNCHANGED <<now, stored, adapter, pending, during>>

\* The KEK is derived; SJ_VAULT_ROOT_V1 is built for the wallet of the session,
\* read again (it may be another one by now, or null).
KekDerived(t) ==
    /\ call[t].pc = "kek"
    /\ call' = [call EXCEPT ![t].pc = "rootSig", ![t].wallet = sess[t].wallet]
    /\ UNCHANGED <<now, stored, sess, adapter, pending, during>>

\* The second signature: the vault is declared open whatever happened since
\* the call began, and Verified is saved for the wallet of the moment.
RootSigned(t) ==
    /\ call[t].pc = "rootSig"
    /\ adapter[t] # None
    /\ Publish(t, [sess[t] EXCEPT !.root = [wallet |-> call[t].wallet, by |-> adapter[t]],
                                  !.unlocked = TRUE],
                  [wallet |-> sess[t].wallet, expires |-> now + VerifiedTTL])
    /\ call' = [call EXCEPT ![t] = NoCall]
    /\ UNCHANGED <<now, adapter, pending, during>>

\* The user refuses, or the provider cannot sign: unlockVault() throws and
\* leaves what it had stored.
Refused(t) ==
    /\ call[t].pc \in {"unlockSig", "rootSig"}
    /\ call' = [call EXCEPT ![t] = NoCall]
    /\ UNCHANGED <<now, stored, sess, adapter, pending, during>>

\* The page is loaded again: a new SessionManager, an adapter not connected
\* (autoConnect is off), and no call.
Reload(t) ==
    /\ sess' = [sess EXCEPT ![t] = Fresh]
    /\ stored' = Load(stored)
    /\ adapter' = [adapter EXCEPT ![t] = None]
    /\ pending' = [pending EXCEPT ![t] = FALSE]
    /\ call' = [call EXCEPT ![t] = NoCall]
    /\ during' = [during EXCEPT ![t] = "nothing"]
    /\ UNCHANGED now

Tick ==
    /\ now < MaxTime
    /\ now' = now + 1
    /\ UNCHANGED <<stored, sess, adapter, pending, call, during>>

Next ==
    \/ Tick
    \/ \E t \in Tabs :
         \/ Sync(t)
         \/ \E w \in MaybeWallet : AdapterChange(t, w)
         \/ Lock(t)
         \/ Refresh(t)
         \/ Disconnect(t)
         \/ StartUnlock(t)
         \/ UnlockSigned(t)
         \/ KekDerived(t)
         \/ RootSigned(t)
         \/ Refused(t)
         \/ Reload(t)

Spec == Init /\ [][Next]_vars

\* React runs a scheduled effect: the synchronisation is weakly fair.
FairSpec == Spec /\ \A t \in Tabs : WF_vars(Sync(t))

-----------------------------------------------------------------------------
\* Type invariant: every field holds a value the program can give it.
TypeOK ==
    /\ now \in 0 .. MaxTime
    /\ stored \in Verified \cup {None}
    /\ sess \in [Tabs -> Session]
    /\ adapter \in [Tabs -> MaybeWallet]
    /\ pending \in [Tabs -> BOOLEAN]
    /\ call \in [Tabs -> Call]
    /\ during \in [Tabs -> Disturbances]

\* The signatures in memory were made for, and by, the wallet of the session.
Whole(s) ==
    /\ s.wallet # None
    /\ s.unlock # None
    /\ s.root # None
    /\ s.unlock.wallet = s.wallet
    /\ s.unlock.by = s.wallet
    /\ s.root = [wallet |-> s.wallet, by |-> s.wallet]

\* A vault opened by a call nothing disturbed stays whole until it is locked:
\* whatever reconnections, switches, reloads and refused calls come later, an
\* open vault never pairs one wallet with the signatures of another, and never
\* lacks one of the two signatures the manifest needs.
OpenVaultIsWhole ==
    \A t \in Tabs : sess[t].unlocked /\ during[t] = "nothing" => Whole(sess[t])

\* In a browser with one tab the Verified signal the upload gate reads belongs
\* to the connected wallet: connectWallet removes the one of another wallet.
SingleTab == \A t, u \in Tabs : t = u

VerifiedOfWallet ==
    SingleTab =>
        \A t \in Tabs :
            sess[t].wallet # None => ~ForOther(sess[t].verified, sess[t].wallet)

\* A connected adapter is eventually followed: if it settles on a wallet, the
\* session is on that wallet again and again.
AdapterIsFollowed ==
    \A t \in Tabs, w \in Wallets :
        <>[](adapter[t] = w) => []<>(sess[t].wallet = w)

-----------------------------------------------------------------------------
(* What the session promises to the page that reads it. *)

\* What the hook shows: the page uses an open vault only with both signatures.
View(t) ==
    [wallet   |-> sess[t].wallet,
     open     |-> sess[t].unlocked,
     verified |-> sess[t].verified # None,
     ready    |-> sess[t].unlocked /\ sess[t].unlock # None /\ sess[t].root # None]

UnlockState(t) ==
    IF call[t].pc = "idle" THEN "none"
    ELSE IF during[t] = "locked" THEN "crossed" ELSE "alone"

Vault(t) == INSTANCE VaultSession WITH sess <- View(t), unlock <- UnlockState(t)

\* Every tab implements the session the page is built on: only connecting,
\* locking or reloading closes a vault, unlockVault alone opens one, and it has
\* both signatures then, unless a lock or a reconnection crossed the call.
ImplementsVault ==
    /\ \A t \in Tabs : Vault(t)!Init
    /\ [][\A t \in Tabs : [Vault(t)!Next]_(Vault(t)!vars)]_vars

-----------------------------------------------------------------------------
\* The inductive invariant behind the safety invariants and the refinement.
\* A call no lock crossed was started for the wallet that is still connected,
\* and holds what it signed so far; if the adapter did not move either, it is
\* that wallet's signature.
CallInv ==
    \A t \in Tabs :
        (call[t].pc # "idle" /\ during[t] # "locked") =>
            /\ sess[t].wallet # None
            /\ call[t].wallet = sess[t].wallet
            /\ call[t].pc # "unlockSig" => sess[t].unlock # None
            /\ during[t] = "nothing" =>
                 /\ adapter[t] = sess[t].wallet
                 /\ call[t].pc # "unlockSig" =>
                      /\ sess[t].unlock.wallet = sess[t].wallet
                      /\ sess[t].unlock.by = sess[t].wallet

\* An open vault with both signatures has the root message of its own wallet, or
\* that of no wallet, if the session was emptied while it opened: what crosses
\* unlockVault never brings the root of one wallet to another.
RootInv ==
    \A t \in Tabs :
        /\ View(t).ready => sess[t].root.wallet \in {sess[t].wallet, None}
        /\ call[t].pc = "rootSig" /\ sess[t].unlock # None =>
              call[t].wallet \in {sess[t].wallet, None}

\* A call runs only in a vault that is still closed.
ClosedInv == \A t \in Tabs : call[t].pc # "idle" => ~sess[t].unlocked

\* With one tab the signal in memory is the one in localStorage.
MirrorInv == SingleTab => \A t \in Tabs : sess[t].verified = stored

IInv ==
    /\ TypeOK
    /\ OpenVaultIsWhole
    /\ VerifiedOfWallet
    /\ CallInv
    /\ RootInv
    /\ ClosedInv
    /\ MirrorInv

-----------------------------------------------------------------------------
(* What the comments of the code say and the code does not keep. *)

\* IdentityStatus.tsx: a lock prevents protected actions "until an explicit
\* Unlock occurs": an unlock pending when the vault is locked does not open it.
LockIsFinal == \A t \in Tabs : sess[t].unlocked => during[t] # "locked"
=============================================================================
