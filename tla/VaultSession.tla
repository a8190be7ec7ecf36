---------------------------- MODULE VaultSession ----------------------------
(***************************************************************************)
(* What the session of a tab promises to the page that reads it: the       *)
(* wallet it is on, whether its vault is open, and whether an open vault   *)
(* has the unlock and the vault-root signatures the manifest needs.        *)
(* SessionManager implements it; MyFiles is built on it.                   *)
(***************************************************************************)
CONSTANTS
    Wallets,
    None       \* null

VARIABLES
    sess,      \* what the hook shows of the SessionManager
    unlock     \* unlockVault(): not running, running alone, or running while
               \* the session was reconnected, locked or disconnected

vars == <<sess, unlock>>

MaybeWallet == Wallets \cup {None}
Session     == [wallet : MaybeWallet, open : BOOLEAN, verified : BOOLEAN, ready : BOOLEAN]
Calls       == {"none", "alone", "crossed"}

TypeOK == sess \in Session /\ unlock \in Calls

\* A closed session of wallet w; its signatures do not count before it opens.
Closed(w, v) == [wallet |-> w, open |-> FALSE, verified |-> v, ready |-> FALSE]

\* Verified is what localStorage holds, which other tabs write too.
Becomes(w) == \E v \in BOOLEAN : sess' = Closed(w, v)

Crosses == unlock' = IF unlock = "none" THEN "none" ELSE "crossed"

Init ==
    /\ \E v \in BOOLEAN : sess = Closed(None, v)
    /\ unlock = "none"

\* connectWallet(w): the vault is closed, whatever it was.
Connect(w) == Becomes(w) /\ Crosses

\* lockVault(), and disconnectWallet().
Lock == Becomes(sess.wallet) /\ Crosses

Disconnect == Becomes(None) /\ Crosses

\* An event of the session, after which Verified is read again.
Announce ==
    /\ \E v \in BOOLEAN : sess' = [sess EXCEPT !.verified = v]
    /\ UNCHANGED unlock

\* unlockVault() begins, on a closed vault.
Begin ==
    /\ unlock = "none"
    /\ sess.wallet # None /\ ~sess.open
    /\ unlock' = "alone"
    /\ UNCHANGED sess

\* It opens the vault; both signatures are there unless something crossed it.
Open ==
    /\ unlock # "none"
    /\ \E r \in BOOLEAN :
          /\ unlock = "alone" => r
          /\ sess' = [wallet |-> sess.wallet, open |-> TRUE, verified |-> TRUE, ready |-> r]
    /\ unlock' = "none"

\* It is refused, and the vault stays closed.
Refuse ==
    /\ unlock # "none"
    /\ unlock' = "none"
    /\ UNCHANGED sess

\* The page is loaded again.
Reload == Becomes(None) /\ unlock' = "none"

Next ==
    \/ \E w \in Wallets : Connect(w)
    \/ Lock \/ Disconnect \/ Announce
    \/ Begin \/ Open \/ Refuse
    \/ Reload

Spec == Init /\ [][Next]_vars
=============================================================================
