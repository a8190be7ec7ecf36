----------------------------- MODULE MCRegistry -----------------------------
(***************************************************************************)
(* Instances of Registry for TLC.  One wallet, because accounts of distinct *)
(* wallets share nothing but the clock; four calls, so that the capacity   *)
(* can be exceeded and a CID published again while its first transaction   *)
(* is still under way.                                                     *)
(***************************************************************************)
EXTENDS Registry

MCPublishes == {"first", "retry", "second", "third"}
MCWallets == {"w"}
MCWalletOf == [c \in MCPublishes |-> "w"]

\* "retry" publishes again the CID of "first"; the CID of "second" is lower.
MCCidOf == [first |-> 2, retry |-> 2, second |-> 1, third |-> 3]
=============================================================================
