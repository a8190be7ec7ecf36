----------------------------- MODULE RegistryLog -----------------------------
(***************************************************************************)
(* What the program relies on a registry account for: per wallet a log of  *)
(* CIDs that only grows, holds no CID twice and never exceeds a capacity.  *)
(* A publication is sent once, then recorded at most once, at any later    *)
(* time and whatever became of the call that sent it, or lost for good.    *)
(* Registry (the program and its client) implements it; ManifestService    *)
(* uses the registry in no other way.                                      *)
(***************************************************************************)
EXTENDS Naturals, Sequences, Functions

CONSTANTS
    Wallets,
    Calls,      \* the publications
    WalletOf,   \* [Calls -> Wallets]
    Capacity

VARIABLES
    log,        \* log[w]: the CIDs recorded for wallet w, oldest first
    cid,        \* cid[c]: the CID publication c was sent with
    state       \* state[c]: where the publication is

vars == <<log, cid, state>>

States == {"idle", "sent", "recorded", "lost"}

Init ==
    /\ log = [w \in Wallets |-> <<>>]
    /\ state = [c \in Calls |-> "idle"]

Send(c) ==
    /\ state[c] = "idle"
    /\ state' = [state EXCEPT ![c] = "sent"]
    /\ cid' = [cid EXCEPT ![c] = cid'[c]]
    /\ UNCHANGED log

Record(c) ==
    LET w == WalletOf[c] IN
    /\ state[c] = "sent"
    /\ cid[c] \notin Range(log[w])
    /\ Len(log[w]) < Capacity
    /\ log' = [log EXCEPT ![w] = Append(@, cid[c])]
    /\ state' = [state EXCEPT ![c] = "recorded"]
    /\ UNCHANGED cid

Lose(c) ==
    /\ state[c] = "sent"
    /\ state' = [state EXCEPT ![c] = "lost"]
    /\ UNCHANGED <<log, cid>>

Next == \E c \in Calls : Send(c) \/ Record(c) \/ Lose(c)

Spec == Init /\ [][Next]_vars

-----------------------------------------------------------------------------
\* What follows from it: exactly one publication recorded each CID of the log,
\* and what was recorded stays listed.
OneOrigin ==
    /\ \A c \in Calls : state[c] = "recorded" => cid[c] \in Range(log[WalletOf[c]])
    /\ \A w \in Wallets : \A i \in 1 .. Len(log[w]) :
         \E c \in Calls :
            /\ WalletOf[c] = w /\ state[c] = "recorded" /\ cid[c] = log[w][i]
            /\ \A b \in Calls :
                 WalletOf[b] = w /\ state[b] = "recorded" /\ cid[b] = log[w][i] => b = c

LogIsSound ==
    /\ OneOrigin
    /\ \A w \in Wallets :
         /\ Len(log[w]) <= Capacity
         /\ \A i, j \in 1 .. Len(log[w]) : log[w][i] = log[w][j] => i = j
=============================================================================
