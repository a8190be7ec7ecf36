---------------------------- MODULE ManifestList ----------------------------
(***************************************************************************)
(* What the callers of appendEntryAndPersist rely on: a device has for a   *)
(* wallet one list of entries, or none yet.  An append that returns has    *)
(* put its entry at the end of that very list, in one step, unless it was  *)
(* there; an append that fails, or whose tab is gone, has not touched it.  *)
(*                                                                         *)
(* The promise is suspended for a list that is written without being read  *)
(* (two first uses at once, a restore over a list), and for the devices on *)
(* which several tabs write: then an append still returns with its entry   *)
(* in the list, but may have replaced the others.                          *)
(***************************************************************************)
EXTENDS Naturals, Sequences

CONSTANTS
    Devices,
    Wallets,
    Calls,      \* the appends
    DeviceOf,   \* [Calls -> Devices]
    WalletOf,   \* [Calls -> Wallets]
    EntryOf     \* the entry an append carries: [id, file, at]

VARIABLES
    list,       \* list[d][w]: [some, entries], the list of a device, if any
    state,      \* state[c]: where the append is
    suspended   \* <<device, wallet>> whose list may lose entries

vars == <<list, state, suspended>>

States == {"idle", "pending", "done", "failed"}

None == [some |-> FALSE, entries |-> <<>>]

\* Entries that are taken for the same file: by id, or by CID and time.
SameFile(e, f) == e.id = f.id \/ (e.file = f.file /\ e.at = f.at)

Lists(es, e) == \E i \in DOMAIN es : SameFile(es[i], e)

NoRepeat(es) == \A i, j \in DOMAIN es : SameFile(es[i], es[j]) => i = j

\* The list of d and w is replaced by one that repeats nothing.
Replace(d, w) ==
    /\ list' = [list EXCEPT ![d][w] = list'[d][w]]
    /\ list'[d][w].some
    /\ NoRepeat(list'[d][w].entries)

Init ==
    /\ list = [d \in Devices |-> [w \in Wallets |-> None]]
    /\ state = [c \in Calls |-> "idle"]
    /\ suspended \in SUBSET (Devices \X Wallets)

Begin(c) ==
    /\ state[c] = "idle"
    /\ state' = [state EXCEPT ![c] = "pending"]
    /\ UNCHANGED <<list, suspended>>

Commit(c) ==
    LET d == DeviceOf[c]
        w == WalletOf[c]
    IN  /\ state[c] = "pending"
        /\ state' = [state EXCEPT ![c] = "done"]
        /\ Replace(d, w)
        /\ Lists(list'[d][w].entries, EntryOf[c])
        /\ <<d, w>> \notin suspended =>
             /\ list[d][w].some
             /\ list'[d][w].entries \in
                  {list[d][w].entries, Append(list[d][w].entries, EntryOf[c])}
        /\ UNCHANGED suspended

\* An append fails, or a tab is gone with its appends.
Break ==
    /\ \E F \in SUBSET {c \in Calls : state[c] = "pending"} :
           state' = [c \in Calls |-> IF c \in F THEN "failed" ELSE state[c]]
    /\ UNCHANGED <<list, suspended>>

\* The first list of the device for the wallet: empty, or restored.
Start(d, w) ==
    /\ ~list[d][w].some
    /\ Replace(d, w)
    /\ UNCHANGED <<state, suspended>>

\* A list is replaced by one that was made without it.
Overwrite(d, w) ==
    /\ list[d][w].some
    /\ Replace(d, w)
    /\ suspended' = suspended \cup {<<d, w>>}
    /\ UNCHANGED state

Next ==
    \/ \E c \in Calls : Begin(c) \/ Commit(c)
    \/ Break
    \/ \E d \in Devices, w \in Wallets : Start(d, w) \/ Overwrite(d, w)

Spec == Init /\ [][Next]_vars
=============================================================================
