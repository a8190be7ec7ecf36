------------------------------ MODULE IpfsClient ------------------------------
(***************************************************************************)
(* The IPFS client of one page (packages/ipfs/src/client.ts): addBytes and *)
(* catBytes, over the HTTP API of a Kubo node when one is configured, else *)
(* over a Helia node in the page, created by the first call that needs it  *)
(* and shared by the next ones.                                            *)
(*                                                                         *)
(* One action is the code between two awaits, or the expiry of a timer.    *)
(* Kubo is external: it may store an object whatever becomes of the        *)
(* request, and may never answer.  So is Helia, whose objects live in the  *)
(* memory of the page.  Contents are their own CIDs.                       *)
(***************************************************************************)
EXTENDS Naturals, FiniteSets

CONSTANTS
    Calls,
    Objects,    \* contents
    Empty,      \* the content of no byte
    Oversize,   \* contents beyond the maxBytes the caller gave
    Blank,      \* the blank string, given for a CID
    Adds,       \* the calls of addBytes; the others are of catBytes
    Of          \* Of[c]: the content to add, or the CID asked for

ASSUME ConstAssumption ==
    /\ Empty \in Objects
    /\ Oversize \in SUBSET Objects
    /\ Blank \notin Objects
    /\ Adds \in SUBSET Calls
    /\ Of \in [Calls -> Objects \cup {Blank}]
    /\ \A c \in Adds : Of[c] # Blank

VARIABLES
    useKubo,    \* getKuboApiUrl() is not empty; configured once per page
    pc,         \* pc[c]: the await the call is suspended at
    kubo,       \* objects the Kubo node holds
    memory,     \* objects the Helia node of the page holds
    working,    \* adds that a node has received and may still store
    ctx,        \* _ctxPromise
    nodes,      \* history: Helia nodes created by the page
    aborted,    \* aborted[c]: the timer of a Helia fetch fired
    chunk       \* chunk[c]: a Helia fetch received bytes

vars == <<useKubo, pc, kubo, memory, working, ctx, nodes, aborted, chunk>>

node  == <<ctx, nodes>>
fetch == <<aborted, chunk>>

Awaits   == {"request", "body", "context", "helia"}
Settled  == {"done", "failed"}
Contexts == {"none", "pending", "ready", "rejected"}

TypeOK ==
    /\ useKubo \in BOOLEAN
    /\ pc \in [Calls -> {"idle"} \cup Awaits \cup Settled]
    /\ kubo \in SUBSET Objects
    /\ memory \in SUBSET Objects
    /\ working \in SUBSET Adds
    /\ ctx \in Contexts
    /\ nodes \in Nat
    /\ aborted \in [Calls -> BOOLEAN]
    /\ chunk \in [Calls -> BOOLEAN]

Init ==
    /\ useKubo \in BOOLEAN
    /\ pc = [c \in Calls |-> "idle"]
    /\ kubo \in SUBSET Objects
    /\ memory = {}
    /\ working = {}
    /\ ctx = "none"
    /\ nodes = 0
    /\ aborted = [c \in Calls |-> FALSE]
    /\ chunk = [c \in Calls |-> FALSE]

Goto(c, l) == pc' = [pc EXCEPT ![c] = l]

-----------------------------------------------------------------------------
(* Either backend. *)

\* Arguments the functions throw on.
Refused(c) == IF c \in Adds THEN Of[c] \in Oversize ELSE Of[c] = Blank

Refuse(c) ==
    /\ pc[c] = "idle"
    /\ Refused(c)
    /\ Goto(c, "failed")
    /\ UNCHANGED <<useKubo, kubo, memory, working, node, fetch>>

\* A reload ends the calls of the page, its Helia node, and the objects in it.
\* What Kubo received it may still store.
Reload ==
    /\ pc' = [c \in Calls |-> IF pc[c] \in Awaits THEN "failed" ELSE pc[c]]
    /\ memory' = {}
    /\ working' = IF useKubo THEN working ELSE {}
    /\ ctx' = "none"
    /\ nodes' = 0
    /\ UNCHANGED <<useKubo, kubo, fetch>>

-----------------------------------------------------------------------------
(* Kubo: a request with a timer that aborts it until its body was read. *)

Send(c) ==
    /\ pc[c] = "idle"
    /\ ~Refused(c)
    /\ useKubo
    /\ Goto(c, "request")
    /\ working' = working \cup ({c} \cap Adds)
    /\ UNCHANGED <<useKubo, kubo, memory, node, fetch>>

KuboStores(c) ==
    /\ useKubo
    /\ c \in working
    /\ kubo' = kubo \cup {Of[c]}
    /\ working' = working \ {c}
    /\ UNCHANGED <<useKubo, pc, memory, node, fetch>>

\* Mutant form of HeadersArrive: the status is not checked.
HeadersArriveUnchecked(c) ==
    /\ pc[c] = "request"
    /\ Goto(c, "body")
    /\ UNCHANGED <<useKubo, kubo, memory, working, node, fetch>>

\* The status line of an answer that is a success.
HeadersArrive(c) ==
    /\ pc[c] = "request"
    /\ Of[c] \in kubo
    /\ Goto(c, "body")
    /\ UNCHANGED <<useKubo, kubo, memory, working, node, fetch>>

\* The body: an empty one is an error of catBytes.
BodyArrives(c) ==
    /\ pc[c] = "body"
    /\ Goto(c, IF c \notin Adds /\ Of[c] = Empty THEN "failed" ELSE "done")
    /\ UNCHANGED <<useKubo, kubo, memory, working, node, fetch>>

\* The connection breaks, the status is an error, or the answer to an add
\* cannot be parsed or has no CID.
KuboFails(c) ==
    /\ pc[c] \in {"request", "body"}
    /\ Goto(c, "failed")
    /\ UNCHANGED <<useKubo, kubo, memory, working, node, fetch>>

\* Mutant form of KuboAborts: the timer is cleared when the headers arrive.
KuboAbortsRequest(c) ==
    /\ pc[c] = "request"
    /\ Goto(c, "failed")
    /\ UNCHANGED <<useKubo, kubo, memory, working, node, fetch>>

\* The timer fires.
KuboAborts(c) ==
    /\ pc[c] \in {"request", "body"}
    /\ Goto(c, "failed")
    /\ UNCHANGED <<useKubo, kubo, memory, working, node, fetch>>

-----------------------------------------------------------------------------
(* Helia. *)

\* Mutant form of AwaitContext: the promise is kept once it is resolved.
AwaitContextUncached(c) ==
    /\ pc[c] = "idle"
    /\ ~Refused(c)
    /\ ~useKubo
    /\ Goto(c, "context")
    /\ \/ ctx = "ready" /\ UNCHANGED node
       \/ ctx # "ready" /\ ctx' \in {"pending", "rejected"} /\ nodes' = nodes + 1
    /\ UNCHANGED <<useKubo, kubo, memory, working, fetch>>

\* The first call starts the creation of the node, which rejects at once if no
\* bootstrap address is configured or one is invalid.
AwaitContext(c) ==
    /\ pc[c] = "idle"
    /\ ~Refused(c)
    /\ ~useKubo
    /\ Goto(c, "context")
    /\ \/ ctx # "none" /\ UNCHANGED node
       \/ ctx = "none" /\ ctx' \in {"pending", "rejected"} /\ nodes' = nodes + 1
    /\ UNCHANGED <<useKubo, kubo, memory, working, fetch>>

\* createLibp2p and createHelia settle; nothing bounds the time they take.
ContextSettles ==
    /\ ctx = "pending"
    /\ ctx' \in {"ready", "rejected"}
    /\ UNCHANGED <<useKubo, pc, kubo, memory, working, nodes, fetch>>

\* The promise stays cached when it was rejected: every later call fails here.
ContextRejects(c) ==
    /\ pc[c] = "context"
    /\ ctx = "rejected"
    /\ Goto(c, "failed")
    /\ UNCHANGED <<useKubo, kubo, memory, working, node, fetch>>

CallNode(c) ==
    /\ pc[c] = "context"
    /\ ctx = "ready"
    /\ Goto(c, "helia")
    /\ working' = working \cup ({c} \cap Adds)
    /\ UNCHANGED <<useKubo, kubo, memory, node, fetch>>

\* An add goes on after its timeout: the timer only rejects the promise.
HeliaStores(c) ==
    /\ ~useKubo
    /\ c \in working
    /\ memory' = memory \cup {Of[c]}
    /\ working' = working \ {c}
    /\ UNCHANGED <<useKubo, pc, kubo, node, fetch>>

\* Mutant form of HeliaAdded: the CID is computed before the block is stored.
HeliaAddedEarly(c) ==
    /\ pc[c] = "helia"
    /\ c \in Adds
    /\ Goto(c, "done")
    /\ UNCHANGED <<useKubo, kubo, memory, working, node, fetch>>

HeliaAdded(c) ==
    /\ pc[c] = "helia"
    /\ c \in Adds
    /\ Of[c] \in memory
    /\ Goto(c, "done")
    /\ UNCHANGED <<useKubo, kubo, memory, working, node, fetch>>

\* The timer of withTimeout fires.
HeliaTimesOut(c) ==
    /\ pc[c] = "helia"
    /\ c \in Adds
    /\ Goto(c, "failed")
    /\ UNCHANGED <<useKubo, kubo, memory, working, node, fetch>>

\* The timer of a fetch only sets a flag, read when a chunk arrives.
FetchTimerFires(c) ==
    /\ pc[c] = "helia"
    /\ c \notin Adds
    /\ ~aborted[c]
    /\ aborted' = [aborted EXCEPT ![c] = TRUE]
    /\ UNCHANGED <<useKubo, pc, kubo, memory, working, node, chunk>>

ChunkArrives(c) ==
    /\ pc[c] = "helia"
    /\ c \notin Adds
    /\ Of[c] \in (memory \cup kubo) \ {Empty}
    /\ IF aborted[c]
       THEN Goto(c, "failed") /\ UNCHANGED chunk
       ELSE chunk' = [chunk EXCEPT ![c] = TRUE] /\ UNCHANGED pc
    /\ UNCHANGED <<useKubo, kubo, memory, working, node, aborted>>

\* The iterator of a fetch ends: an object without bytes is an error.
FetchEnds(c) ==
    /\ pc[c] = "helia"
    /\ c \notin Adds
    /\ Of[c] \in memory \cup kubo
    /\ chunk[c] \/ Of[c] = Empty
    /\ Goto(c, IF chunk[c] THEN "done" ELSE "failed")
    /\ UNCHANGED <<useKubo, kubo, memory, working, node, fetch>>

\* The node rejects, or the CID cannot be parsed.
HeliaFails(c) ==
    /\ pc[c] = "helia"
    /\ Goto(c, "failed")
    /\ UNCHANGED <<useKubo, kubo, memory, working, node, fetch>>

-----------------------------------------------------------------------------

CallNext(c) ==
    \/ Refuse(c) \/ Send(c) \/ KuboStores(c) \/ HeadersArrive(c)
    \/ BodyArrives(c) \/ KuboFails(c) \/ KuboAborts(c)
    \/ AwaitContext(c) \/ ContextRejects(c) \/ CallNode(c)
    \/ HeliaStores(c) \/ HeliaAdded(c) \/ HeliaTimesOut(c)
    \/ FetchTimerFires(c) \/ ChunkArrives(c) \/ FetchEnds(c) \/ HeliaFails(c)

Next == (\E c \in Calls : CallNext(c)) \/ ContextSettles \/ Reload

Spec == Init /\ [][Next]_vars

\* Timers fire.  Nothing is assumed of Kubo, of Helia or of the network.
FairSpec ==
    Spec /\ \A c \in Calls : WF_vars(KuboAborts(c)) /\ WF_vars(HeliaTimesOut(c))

-----------------------------------------------------------------------------
(* Properties. *)

Phase(l) == IF l \in Awaits THEN "pending" ELSE l

Store == INSTANCE IpfsStore WITH
    durable <- useKubo,
    stored  <- kubo \cup memory,
    state   <- [c \in Calls |-> Phase(pc[c])]

\* The client keeps the promise of IpfsStore: a call settles once, a success
\* means that the object is stored and is the one asked for, a failed add may
\* be stored later, and a reload takes nothing with it when Kubo is used.
ImplementsStore == Store!Spec

\* Calls that overlap before the node exists share the one being created.
OneNode == nodes <= 1

\* With Kubo no node is created.  Without, a node exists while objects are in
\* its memory or a call is at it.
BackendInv ==
    /\ useKubo =>
         /\ memory = {} /\ ctx = "none"
         /\ \A c \in Calls : pc[c] \notin {"context", "helia"}
    /\ ~useKubo =>
         /\ memory # {} \/ working # {} => ctx = "ready"
         /\ \A c \in Calls :
              /\ pc[c] \notin {"request", "body"}
              /\ pc[c] = "context" => ctx # "none"
              /\ pc[c] = "helia" => ctx = "ready"

\* What is true of every state, and inductively so: the types, which backend
\* works, that no node is at work on a call not made, that an answer being
\* read is of an object Kubo has, and that a node is counted once.
IInv ==
    /\ TypeOK
    /\ BackendInv
    /\ \A c \in working : pc[c] # "idle"
    /\ \A c \in Calls : pc[c] = "body" => Of[c] \in kubo
    /\ nodes = IF ctx = "none" THEN 0 ELSE 1

\* A request to Kubo, and an add to Helia once the node exists, settles
\* whatever the other side does.  A fetch from Helia may not: its timer only
\* takes effect when a chunk arrives; nor may a call that awaits the node.
CallSettles ==
    \A c \in Calls :
        (pc[c] \in {"request", "body"} \/ (pc[c] = "helia" /\ c \in Adds))
            ~> pc[c] \in Settled

==============================================================================
