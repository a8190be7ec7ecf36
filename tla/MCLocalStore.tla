----------------------------- MODULE MCLocalStore -----------------------------
(***************************************************************************)
(* Two puts of a wallet, the first with a CID, a delete and a get of it;   *)
(* two databases, and three instances between two reloads.                 *)
(***************************************************************************)
EXTENDS LocalStore, TLC

CONSTANTS wallet, put1, put2, get1, del1, cid1, i1, i2, i3

MCWalletOf == [c \in {put1, put2, get1, del1} |-> wallet]
MCCidOf == [c \in {put1, put2} |-> IF c = put1 THEN cid1 ELSE NoCid]

Symmetry == Permutations({i1, i2, i3})

==============================================================================
