------------------------------ MODULE IpfsStore ------------------------------
(***************************************************************************)
(* What the program relies on IPFS for, seen by one page: calls that add   *)
(* an object or fetch one, which settle at most once.  An add that is      *)
(* acknowledged is stored; an add that failed may be stored all the same,  *)
(* also later; a fetch gives the object asked for.  A reload ends the      *)
(* calls of the page, and takes no object with it if the store is durable. *)
(* ManifestService and the upload of files assume this of addBytes and     *)
(* catBytes; IpfsClient implements it.                                     *)
(***************************************************************************)
CONSTANTS
    Calls,
    Objects,    \* contents; content addressing makes them their own CIDs
    Adds,       \* the calls that add; the others fetch
    Of          \* Of[c]: the object added, or asked for

VARIABLES
    durable,    \* the store outlives the page
    stored,     \* the objects a fetch can find
    state       \* state[c]: where the call is

vars == <<durable, stored, state>>

States == {"idle", "pending", "done", "failed"}

Init ==
    /\ durable \in BOOLEAN
    /\ stored \in SUBSET Objects
    /\ state = [c \in Calls |-> "idle"]

\* Arguments that are refused make the call fail at once.
Call(c) ==
    /\ state[c] = "idle"
    /\ \E s \in {"pending", "failed"} : state' = [state EXCEPT ![c] = s]
    /\ UNCHANGED <<durable, stored>>

\* The object of an add is stored, before the call settles or after it failed.
Store(c) ==
    /\ c \in Adds
    /\ state[c] # "idle"
    /\ stored' = stored \cup {Of[c]}
    /\ UNCHANGED <<durable, state>>

\* A success: what was added, or asked for, is in the store.
Complete(c) ==
    /\ state[c] = "pending"
    /\ Of[c] \in stored
    /\ state' = [state EXCEPT ![c] = "done"]
    /\ UNCHANGED <<durable, stored>>

Fail(c) ==
    /\ state[c] = "pending"
    /\ state' = [state EXCEPT ![c] = "failed"]
    /\ UNCHANGED <<durable, stored>>

Restart ==
    /\ state' = [c \in Calls |-> IF state[c] = "pending" THEN "failed" ELSE state[c]]
    /\ stored' \in SUBSET stored
    /\ durable => stored' = stored
    /\ UNCHANGED durable

Next ==
    \/ \E c \in Calls : Call(c) \/ Store(c) \/ Complete(c) \/ Fail(c)
    \/ Restart

Spec == Init /\ [][Next]_vars

\* With a durable store, what an acknowledged add stored is there for ever.
AckedIsStored ==
    \A c \in Calls : durable /\ state[c] = "done" => Of[c] \in stored

==============================================================================
