----------------------------- MODULE MCMyFiles ------------------------------
(***************************************************************************)
(* The instance of MyFiles for TLC.  The wallets are treated alike and no  *)
(* liveness is checked, so states that differ by a permutation of the      *)
(* wallets are one.                                                        *)
(***************************************************************************)
EXTENDS MyFiles, TLC

MCSymmetry == Permutations(Wallets)

Sending == \E u \in Uploads : up[u].pc = "sending"

\* The bounds of the search; a state outside them is checked, and not followed.
\* A closed session has no Verified: the page reads it in an open one, and without
\* it a closed session can do all that it can with it.  Of what the user starts,
\* an unlock may be crossed by loads and uploads, a restore by loads, and a prompt
\* to verify by what the session does.
MCBounds ==
    /\ sess.verified => sess.open
    /\ prompt # None => load = None /\ restoring = None /\ unlock = "none" /\ ~Sending
    /\ restoring # None => unlock = "none" /\ ~Sending
=============================================================================
