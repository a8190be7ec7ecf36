------------------------------ MODULE LocalStore ------------------------------
(***************************************************************************)
(* The IndexedDB storage of encrypted manifests (packages/storage/src/     *)
(* index.ts): initStorage, which gives the Dexie instance of a database,   *)
(* and the calls putManifest, getManifest and deleteManifest on the        *)
(* instance made last.  Calls may overlap: the package orders nothing.     *)
(*                                                                         *)
(* IndexedDB and Dexie are external: a transaction is atomic, may abort,   *)
(* and runs on an instance that has opened; an instance opens at the first *)
(* call that uses it, and never once it is closed.  A call stands for the  *)
(* bytes it gives and for the time it reads.                               *)
(***************************************************************************)
EXTENDS FiniteSets

CONSTANTS
    Puts, Gets, Dels,   \* the calls
    Wallets,
    Cids,
    WalletOf,           \* WalletOf[c]: the wallet a call is for
    CidOf,              \* CidOf[c]: the CID given to a put, or NoCid
    NoCid,
    Names,              \* of databases
    Default,            \* sovereign_jedi_storage
    Instances,          \* bound: the Dexie instances one page can make
    NoInst,
    Absent              \* no record, or no database

Calls == Puts \cup Gets \cup Dels

ASSUME ConstAssumption ==
    /\ Puts \cap Gets = {} /\ Puts \cap Dels = {} /\ Gets \cap Dels = {}
    /\ WalletOf \in [Calls -> Wallets]
    /\ CidOf \in [Puts -> Cids \cup {NoCid}]
    /\ NoCid \notin Cids
    /\ Default \in Names
    /\ Absent \notin Names
    /\ NoInst \notin Instances

\* by: the put whose bytes and updatedAt it has; created: the one whose time
\* is its createdAt.
Records == [by : Puts, created : Puts, cid : Cids \cup {NoCid}]

ASSUME AbsentIsNoRecord == Absent \notin Records

VARIABLES
    db,             \* db[n][w]: the record of a wallet in a database
    nameOf,         \* nameOf[i]: the database of an instance, Absent: not made
    opened,         \* instances that have opened
    closed,         \* instances that were closed
    dbInstances,    \* the instances kept, by their name
    lastDbInstance,
    pc,             \* pc[c]: the await the call is suspended at
    at,             \* at[c]: the instance its transaction is on
    seen,           \* seen[c]: the record its read gave
    crowded         \* history: calls that overlapped with a call or a switch

vars == <<db, nameOf, opened, closed, dbInstances, lastDbInstance, pc, at, seen, crowded>>

instances == <<nameOf, opened, closed, dbInstances, lastDbInstance>>

Pending == {c \in Calls : pc[c] \in {"read", "resume", "write", "written"}}

TypeOK ==
    /\ db \in [Names -> [Wallets -> Records \cup {Absent}]]
    /\ nameOf \in [Instances -> Names \cup {Absent}]
    /\ opened \in SUBSET Instances
    /\ closed \in SUBSET Instances
    /\ dbInstances \in SUBSET Instances
    /\ lastDbInstance \in Instances \cup {NoInst}
    /\ pc \in [Calls -> {"idle", "read", "resume", "write", "written", "done", "failed"}]
    /\ at \in [Calls -> Instances \cup {NoInst}]
    /\ seen \in [Calls -> Records \cup {Absent}]
    /\ crowded \in SUBSET Calls

NoInstance ==
    /\ nameOf = [i \in Instances |-> Absent]
    /\ opened = {}
    /\ closed = {}
    /\ dbInstances = {}
    /\ lastDbInstance = NoInst

Init ==
    /\ db = [n \in Names |-> [w \in Wallets |-> Absent]]
    /\ NoInstance
    /\ pc = [c \in Calls |-> "idle"]
    /\ at = [c \in Calls |-> NoInst]
    /\ seen = [c \in Calls |-> Absent]
    /\ crowded = {}

Goto(c, l) == pc' = [pc EXCEPT ![c] = l]

\* The call no longer needs what it held.
Leave(c, l) ==
    /\ Goto(c, l)
    /\ at' = [at EXCEPT ![c] = NoInst]
    /\ seen' = [seen EXCEPT ![c] = Absent]

-----------------------------------------------------------------------------
(* initStorage *)

\* The instance kept for a name is used again if it is open.
Usable(n) == {i \in dbInstances : nameOf[i] = n /\ i \in opened \ closed}

\* Mutant form of Make: instances of other names are left as they are.
MakeKeepingOthers(n, i) ==
    /\ nameOf[i] = Absent
    /\ nameOf' = [nameOf EXCEPT ![i] = n]
    /\ dbInstances' = {j \in dbInstances : nameOf[j] # n} \cup {i}
    /\ lastDbInstance' = i
    /\ UNCHANGED <<closed, opened>>

\* A new instance takes the place of the one kept for the name, which is not
\* closed; the instances of other names are closed and forgotten.
Make(n, i) ==
    /\ nameOf[i] = Absent
    /\ nameOf' = [nameOf EXCEPT ![i] = n]
    /\ closed' = closed \cup {j \in dbInstances : nameOf[j] # n}
    /\ dbInstances' = {i}
    /\ lastDbInstance' = i
    /\ UNCHANGED opened

InitStorage(n) ==
    /\ \/ Usable(n) # {} /\ UNCHANGED <<instances, crowded>>
       \/ /\ Usable(n) = {}
          /\ \E i \in Instances : Make(n, i)
          /\ crowded' = crowded \cup Pending
    /\ UNCHANGED <<db, pc, at, seen>>

\* Dexie: the first call on an instance opens it.
Opens(i) ==
    /\ i \notin opened \cup closed
    /\ \E c \in Calls : pc[c] \in {"read", "write"} /\ at[c] = i
    /\ opened' = opened \cup {i}
    /\ UNCHANGED <<db, nameOf, closed, dbInstances, lastDbInstance, pc, at, seen, crowded>>

-----------------------------------------------------------------------------
(* The calls. *)

\* A call makes the default instance if there is none, and issues its first
\* transaction: a put reads first.
Issue(c) ==
    /\ pc[c] = "idle"
    /\ \/ lastDbInstance # NoInst /\ UNCHANGED instances
       \/ lastDbInstance = NoInst /\ \E i \in Instances : Make(Default, i)
    /\ at' = [at EXCEPT ![c] = lastDbInstance']
    /\ Goto(c, IF c \in Dels THEN "write" ELSE "read")
    /\ crowded' = IF Pending = {} THEN crowded ELSE crowded \cup Pending \cup {c}
    /\ UNCHANGED <<db, seen>>

Read(c) ==
    /\ pc[c] = "read"
    /\ at[c] \in opened
    /\ IF c \in Puts
       THEN /\ seen' = [seen EXCEPT ![c] = db[nameOf[at[c]]][WalletOf[c]]]
            /\ Goto(c, "resume")
            /\ UNCHANGED at
       ELSE Leave(c, "done")
    /\ UNCHANGED <<db, instances, crowded>>

\* putManifest goes on after its read: it takes the last instance again.
Resume(c) ==
    /\ pc[c] = "resume"
    /\ at' = [at EXCEPT ![c] = lastDbInstance]
    /\ Goto(c, "write")
    /\ UNCHANGED <<db, instances, seen, crowded>>

\* Mutant form of NewRecord: a put without a CID forgets the one stored.
NewRecordForgettingCid(c, old) ==
    [by |-> c, created |-> IF old = Absent THEN c ELSE old.created, cid |-> CidOf[c]]

\* The record a put makes of the one it has read: createdAt is kept, and the
\* CID if none is given.
NewRecord(c, old) ==
    [by      |-> c,
     created |-> IF old = Absent THEN c ELSE old.created,
     cid     |-> IF old = Absent \/ CidOf[c] # NoCid THEN CidOf[c] ELSE old.cid]

Store(n, w, r) == db' = [db EXCEPT ![n] = [db[n] EXCEPT ![w] = r]]

\* Mutant form of WritePut: put is used for a first record too, not add.
WritePutBlindly(c) ==
    /\ c \in Puts
    /\ pc[c] = "write"
    /\ at[c] \in opened
    /\ Store(nameOf[at[c]], WalletOf[c], NewRecord(c, seen[c]))
    /\ Leave(c, "written")
    /\ UNCHANGED <<instances, crowded>>

\* A first record is added, which fails if there is one meanwhile; a later one
\* replaces what is there.
WritePut(c) ==
    /\ c \in Puts
    /\ pc[c] = "write"
    /\ at[c] \in opened
    /\ LET n == nameOf[at[c]]
           w == WalletOf[c]
       IN  IF seen[c] = Absent /\ db[n][w] # Absent
           THEN Leave(c, "failed") /\ UNCHANGED db
           ELSE Leave(c, "written") /\ Store(n, w, NewRecord(c, seen[c]))
    /\ UNCHANGED <<instances, crowded>>

WriteDelete(c) ==
    /\ c \in Dels
    /\ pc[c] = "write"
    /\ at[c] \in opened
    /\ Leave(c, "written")
    /\ Store(nameOf[at[c]], WalletOf[c], Absent)
    /\ UNCHANGED <<instances, crowded>>

Told(c) ==
    /\ pc[c] = "written"
    /\ Goto(c, "done")
    /\ UNCHANGED <<db, instances, at, seen, crowded>>

\* The transaction aborts (quota, disk), or its instance was closed: put and
\* get reject, delete returns false.
Rejects(c) ==
    /\ pc[c] \in {"read", "write"}
    /\ Leave(c, "failed")
    /\ UNCHANGED <<db, instances, crowded>>

\* A reload ends the calls and the instances; committed records remain.
Reload ==
    /\ pc' = [c \in Calls |-> IF c \in Pending THEN "failed" ELSE pc[c]]
    /\ nameOf' = [i \in Instances |-> Absent]
    /\ opened' = {}
    /\ closed' = {}
    /\ dbInstances' = {}
    /\ lastDbInstance' = NoInst
    /\ at' = [c \in Calls |-> NoInst]
    /\ seen' = [c \in Calls |-> Absent]
    /\ UNCHANGED <<db, crowded>>

CallNext(c) ==
    \/ Issue(c) \/ Read(c) \/ Resume(c) \/ WritePut(c) \/ WriteDelete(c)
    \/ Told(c) \/ Rejects(c)

Next ==
    \/ \E n \in Names : InitStorage(n)
    \/ \E i \in Instances : Opens(i)
    \/ \E c \in Calls : CallNext(c)
    \/ Reload

Spec == Init /\ [][Next]_vars

-----------------------------------------------------------------------------
(* Properties. *)

\* initStorage keeps one instance, the one the calls use, and it is not
\* closed: a call never starts on the database of an earlier initStorage, nor
\* on an instance that can only reject.
OneInstance ==
    /\ dbInstances = IF lastDbInstance = NoInst THEN {} ELSE {lastDbInstance}
    /\ lastDbInstance # NoInst =>
         nameOf[lastDbInstance] # Absent /\ lastDbInstance \notin closed

\* A call that overlapped with nothing is the only one, on the last instance,
\* and what it has read is what is stored.
AloneInv ==
    \A c \in Pending \ crowded :
        /\ Pending = {c}
        /\ pc[c] # "written" => at[c] = lastDbInstance
        /\ c \in Puts /\ pc[c] \in {"resume", "write"} =>
             seen[c] = db[nameOf[at[c]]][WalletOf[c]]

\* What is true of every state, and inductively so.
LInv ==
    /\ TypeOK
    /\ OneInstance
    /\ \A i \in Instances : nameOf[i] = Absent => i \notin opened \cup closed
    /\ \A c \in Pending :
         pc[c] # "written" => at[c] # NoInst /\ nameOf[at[c]] # Absent
    /\ \A c \in Pending : lastDbInstance # NoInst
    /\ \A c \in Pending : c \notin Puts => pc[c] # "resume"
    /\ AloneInv

\* The put, the delete, that takes effect in this step.
Commits(c) == pc[c] = "write" /\ pc'[c] = "written"

\* A put or a delete that overlapped with no call and no switch of the
\* database acts at once on the database initStorage gave last: it keeps the
\* creation time of what is stored, and its CID if it gives none.
AloneIsAtomic ==
    [][\A c \in Calls \ crowded :
         Commits(c) =>
           LET n   == nameOf[lastDbInstance]
               w   == WalletOf[c]
               old == db[n][w]
               new == db'[n][w]
           IN  /\ c \in Dels => new = Absent
               /\ c \in Puts =>
                    /\ new.by = c
                    /\ CidOf[c] # NoCid => new.cid = CidOf[c]
                    /\ old # Absent =>
                         /\ new.created = old.created
                         /\ CidOf[c] = NoCid => new.cid = old.cid]_vars

\* However puts overlap, a record is only replaced by a put of its wallet that
\* has read one: of two first puts of a wallet, the one that loses fails, and
\* what the other stored remains.  Only a delete removes a record.
NoBlindOverwrite ==
    [][\A n \in Names, w \in Wallets :
         db[n][w] # Absent /\ db'[n][w] # db[n][w] =>
           \E c \in Calls :
             /\ Commits(c)
             /\ WalletOf[c] = w
             /\ IF c \in Dels THEN db'[n][w] = Absent
                ELSE db'[n][w] = NewRecord(c, seen[c]) /\ seen[c] # Absent]_vars

==============================================================================
