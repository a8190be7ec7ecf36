--------------------------- MODULE LocalStoreProofs ---------------------------
(***************************************************************************)
(* Theorems about LocalStore, for any calls, wallets, databases and        *)
(* instances: the inductive invariant, that a call that overlaps with      *)
(* nothing is atomic, and that first puts do not overwrite each other.     *)
(***************************************************************************)
EXTENDS LocalStore, TLAPS

USE DEF Goto, instances, Pending

\* The record a put makes is a record.
LEMMA NewRecordType ==
    ASSUME NEW c \in Puts, NEW old \in Records \cup {Absent}
    PROVE  NewRecord(c, old) \in Records /\ NewRecord(c, old) # Absent
BY ConstAssumption, AbsentIsNoRecord DEF NewRecord, Records

\* The initial states have the invariant.
LEMMA InitInv == Init => LInv
BY DEF Init, NoInstance, LInv, TypeOK, OneInstance, AloneInv

\* A new instance is the one kept, and not closed.
LEMMA MakeInv ==
    ASSUME LInv, NEW n \in Names, NEW i \in Instances, Make(n, i)
    PROVE  /\ nameOf' \in [Instances -> Names \cup {Absent}]
           /\ closed' \in SUBSET Instances
           /\ dbInstances' \in SUBSET Instances
           /\ lastDbInstance' = i
           /\ OneInstance'
           /\ \A j \in Instances : nameOf'[j] = Absent => j \notin opened' \cup closed'
           /\ \A j \in Instances : nameOf[j] # Absent => nameOf'[j] = nameOf[j]
           /\ nameOf'[i] # Absent
BY ConstAssumption DEF LInv, TypeOK, OneInstance, Make

\* initStorage keeps the invariant.
LEMMA InitStorageInv ==
    ASSUME LInv, NEW n \in Names, InitStorage(n)
    PROVE  LInv'
<1>1. CASE UNCHANGED <<instances, crowded>>
  BY <1>1 DEF InitStorage, LInv, TypeOK, OneInstance, AloneInv
<1>2. CASE crowded' = crowded \cup Pending /\ \E i \in Instances : Make(n, i)
  <2>1. PICK i \in Instances : Make(n, i)
    BY <1>2
  <2>2. UNCHANGED <<db, pc, at, seen, opened>>
    BY <2>1 DEF InitStorage, Make
  <2>3. TypeOK'
    BY <1>2, <2>1, <2>2, MakeInv DEF LInv, TypeOK
  <2>4. AloneInv'
    BY <1>2, <2>2 DEF AloneInv
  <2>5. \A c \in Pending' : pc'[c] # "written" => at'[c] # NoInst /\ nameOf'[at'[c]] # Absent
    BY <2>1, <2>2, MakeInv DEF LInv, TypeOK
  <2>6. \A c \in Pending' : c \notin Puts => pc'[c] # "resume"
    BY <2>2 DEF LInv
  <2>7. lastDbInstance' # NoInst
    BY <2>1, MakeInv, ConstAssumption
  <2> QED
    BY <2>1, <2>3, <2>4, <2>5, <2>6, <2>7, MakeInv DEF LInv
<1> QED
  BY <1>1, <1>2 DEF InitStorage

\* So does the first transaction of a call.
LEMMA IssueInv ==
    ASSUME LInv, NEW c \in Calls, Issue(c)
    PROVE  LInv'
<1>1. /\ OneInstance'
      /\ nameOf' \in [Instances -> Names \cup {Absent}]
      /\ closed' \in SUBSET Instances
      /\ dbInstances' \in SUBSET Instances
      /\ opened' = opened
      /\ lastDbInstance' \in Instances
      /\ nameOf'[lastDbInstance'] # Absent
      /\ \A j \in Instances : nameOf'[j] = Absent => j \notin opened' \cup closed'
      /\ \A j \in Instances : nameOf[j] # Absent => nameOf'[j] = nameOf[j]
  <2>1. CASE UNCHANGED instances
    BY <2>1 DEF Issue, LInv, TypeOK, OneInstance, Make
  <2>2. CASE \E i \in Instances : Make(Default, i)
    BY <2>2, MakeInv, ConstAssumption DEF LInv, TypeOK, Make
  <2> QED
    BY <2>1, <2>2 DEF Issue
<1>2. /\ at' = [at EXCEPT ![c] = lastDbInstance']
      /\ pc' = [pc EXCEPT ![c] = IF c \in Dels THEN "write" ELSE "read"]
      /\ UNCHANGED <<db, seen>>
  BY DEF Issue
<1>3. crowded' = IF Pending = {} THEN crowded ELSE crowded \cup Pending \cup {c}
  BY DEF Issue
<1>4. Pending' = Pending \cup {c} /\ pc[c] = "idle"
  BY <1>2 DEF Issue, LInv, TypeOK
<1>5. TypeOK'
  BY <1>1, <1>2, <1>3 DEF LInv, TypeOK
<1>6. AloneInv'
  <2> SUFFICES ASSUME NEW d \in Pending' \ crowded'
               PROVE  /\ Pending' = {d}
                      /\ pc'[d] # "written" => at'[d] = lastDbInstance'
                      /\ d \in Puts /\ pc'[d] \in {"resume", "write"} =>
                           seen'[d] = db'[nameOf'[at'[d]]][WalletOf[d]]
    BY DEF AloneInv
  <2>1. Pending = {} /\ d = c
    BY <1>3, <1>4
  <2> HIDE DEF Pending
  <2>2. Pending' = {d}
    BY <1>4, <2>1
  <2>3. at'[d] = lastDbInstance'
    BY <1>2, <2>1 DEF LInv, TypeOK
  <2>4. ~(d \in Puts /\ pc'[d] \in {"resume", "write"})
    BY <1>2, <2>1, ConstAssumption DEF LInv, TypeOK, Calls
  <2> QED
    BY <2>2, <2>3, <2>4
<1>7. \A d \in Pending' : pc'[d] # "written" => at'[d] # NoInst /\ nameOf'[at'[d]] # Absent
  BY <1>1, <1>2, <1>4, ConstAssumption DEF LInv, TypeOK
<1>8. \A d \in Pending' : d \notin Puts => pc'[d] # "resume"
  BY <1>2, <1>4 DEF LInv, TypeOK
<1>9. lastDbInstance' # NoInst
  BY <1>1, ConstAssumption
<1> QED
  BY <1>1, <1>5, <1>6, <1>7, <1>8, <1>9 DEF LInv

\* A step of a call that leaves the instances alone keeps the invariant, if it
\* keeps what is said of that call.
LEMMA FrameInv ==
    ASSUME LInv, NEW c \in Pending, TypeOK', UNCHANGED <<instances, crowded>>,
           \A d \in Calls \ {c} : pc'[d] = pc[d] /\ at'[d] = at[d] /\ seen'[d] = seen[d],
           \/ pc'[c] \in {"written", "done", "failed"}
           \/ /\ at'[c] # NoInst /\ nameOf[at'[c]] # Absent
              /\ c \in Puts
              /\ c \notin crowded => at'[c] = lastDbInstance
              /\ c \notin crowded /\ pc'[c] \in {"resume", "write"} =>
                   seen'[c] = db'[nameOf[at'[c]]][WalletOf[c]]
    PROVE  LInv'
<1>1. Pending' \subseteq Pending
  BY DEF LInv
<1>2. \A d \in Pending' : d # c => d \in crowded
  BY <1>1 DEF LInv, AloneInv
<1>3. AloneInv'
  <2> SUFFICES ASSUME NEW d \in Pending' \ crowded'
               PROVE  /\ Pending' = {d}
                      /\ pc'[d] # "written" => at'[d] = lastDbInstance'
                      /\ d \in Puts /\ pc'[d] \in {"resume", "write"} =>
                           seen'[d] = db'[nameOf'[at'[d]]][WalletOf[d]]
    BY DEF AloneInv
  <2>1. d = c
    BY <1>2
  <2>2. Pending' = {d}
    BY <1>1, <2>1 DEF LInv, AloneInv
  <2> QED
    BY <2>1, <2>2
<1>4. OneInstance'
  BY DEF LInv, OneInstance
<1>5. \A d \in Pending' : pc'[d] # "written" => at'[d] # NoInst /\ nameOf'[at'[d]] # Absent
  BY <1>1 DEF LInv
<1>6. \A d \in Pending' : d \notin Puts => pc'[d] # "resume"
  BY <1>1 DEF LInv
<1>7. \A d \in Pending' : lastDbInstance' # NoInst
  BY <1>1 DEF LInv
<1>8. \A i \in Instances : nameOf'[i] = Absent => i \notin opened' \cup closed'
  BY DEF LInv
<1> QED
  BY <1>3, <1>4, <1>5, <1>6, <1>7, <1>8 DEF LInv

\* The steps of a call after its first keep the invariant.
LEMMA CallInv ==
    ASSUME LInv, NEW c \in Calls,
           Read(c) \/ Resume(c) \/ WritePut(c) \/ WriteDelete(c) \/ Told(c) \/ Rejects(c)
    PROVE  LInv'
<1> c \in Pending
  BY DEF Read, Resume, WritePut, WriteDelete, Told, Rejects
<1> UNCHANGED <<instances, crowded>>
  BY DEF Read, Resume, WritePut, WriteDelete, Told, Rejects
<1>0. /\ TypeOK
      /\ lastDbInstance \in Instances /\ nameOf[lastDbInstance] # Absent
      /\ pc[c] # "written" => at[c] \in Instances /\ nameOf[at[c]] \in Names
      /\ WalletOf[c] \in Wallets
      /\ c \notin crowded /\ pc[c] # "written" => at[c] = lastDbInstance
  BY ConstAssumption DEF LInv, TypeOK, OneInstance, AloneInv
<1>1. TypeOK'
  <2>1. CASE Read(c) \/ Resume(c) \/ Told(c) \/ Rejects(c)
    BY <1>0, <2>1 DEF Read, Resume, Told, Rejects, Leave, TypeOK
  <2>2. CASE WritePut(c)
    <3>1. NewRecord(c, seen[c]) \in Records
      BY <1>0, <2>2, NewRecordType DEF WritePut, TypeOK
    <3>2. db' \in [Names -> [Wallets -> Records \cup {Absent}]]
      BY <1>0, <2>2, <3>1 DEF WritePut, Store, TypeOK
    <3>3. /\ pc' \in [Calls -> {"idle", "read", "resume", "write", "written", "done", "failed"}]
          /\ at' \in [Calls -> Instances \cup {NoInst}]
          /\ seen' \in [Calls -> Records \cup {Absent}]
      BY <1>0, <2>2 DEF WritePut, Leave, TypeOK
    <3> QED
      BY <1>0, <3>2, <3>3 DEF TypeOK
  <2>3. CASE WriteDelete(c)
    BY <1>0, <2>3 DEF WriteDelete, Leave, Store, TypeOK
  <2> QED
    BY <2>1, <2>2, <2>3
<1>2. \A d \in Calls \ {c} : pc'[d] = pc[d] /\ at'[d] = at[d] /\ seen'[d] = seen[d]
  BY <1>0 DEF TypeOK, Read, Resume, WritePut, WriteDelete, Told, Rejects, Leave
<1>3. CASE Read(c) /\ c \in Puts
  <2>1. at' = at /\ db' = db /\ seen'[c] = db[nameOf[at[c]]][WalletOf[c]]
    BY <1>0, <1>3 DEF Read, TypeOK
  <2> QED
    BY <1>0, <1>1, <1>2, <1>3, <2>1, FrameInv, ConstAssumption DEF Read
<1>4. CASE Resume(c)
  <2>1. c \in Puts /\ db' = db /\ seen' = seen /\ at'[c] = lastDbInstance
    BY <1>0, <1>4 DEF Resume, LInv, TypeOK
  <2>2. c \notin crowded => seen[c] = db[nameOf[at[c]]][WalletOf[c]]
    BY <1>4, <2>1 DEF Resume, LInv, AloneInv
  <2> QED
    BY <1>0, <1>1, <1>2, <1>4, <2>1, <2>2, FrameInv, ConstAssumption DEF Resume
<1>5. CASE ~Resume(c) /\ ~(Read(c) /\ c \in Puts)
  <2>1. pc'[c] \in {"written", "done", "failed"}
    BY <1>0, <1>5 DEF TypeOK, Read, WritePut, WriteDelete, Told, Rejects, Leave
  <2> QED
    BY <1>1, <1>2, <2>1, FrameInv
<1> QED
  BY <1>3, <1>4, <1>5

\* Every step keeps the invariant.
LEMMA StepInv == LInv /\ [Next]_vars => LInv'
<1> SUFFICES ASSUME LInv, [Next]_vars PROVE LInv'
  OBVIOUS
<1>1. CASE \E n \in Names : InitStorage(n)
  BY <1>1, InitStorageInv
<1>2. CASE \E i \in Instances : Opens(i)
  BY <1>2 DEF Opens, LInv, TypeOK, OneInstance, AloneInv
<1>3. CASE \E c \in Calls : CallNext(c)
  <2>1. PICK c \in Calls : CallNext(c)
    BY <1>3
  <2> QED
    BY <2>1, IssueInv, CallInv DEF CallNext
<1>4. CASE Reload
  BY <1>4 DEF Reload, LInv, TypeOK, OneInstance, AloneInv
<1>5. CASE UNCHANGED vars
  BY <1>5 DEF vars, LInv, TypeOK, OneInstance, AloneInv
<1> QED
  BY <1>1, <1>2, <1>3, <1>4, <1>5 DEF Next

\* LInv holds in every state (storage/src/index.ts).
THEOREM InvAlways == Spec => []LInv
BY InitInv, StepInv, PTL DEF Spec

\* The variables have their types in every state.
THEOREM TypeCorrect == Spec => []TypeOK
<1>1. LInv => TypeOK
  BY DEF LInv
<1> QED
  BY <1>1, InvAlways, PTL

\* The calls use the one instance that initStorage keeps, which is not closed.
THEOREM LastInstanceIsUsable == Spec => []OneInstance
<1>1. LInv => OneInstance
  BY DEF LInv
<1> QED
  BY <1>1, InvAlways, PTL

-----------------------------------------------------------------------------
(* What a step writes. *)

\* The records change in the write of a put or of a delete only.
LEMMA OnlyCommitsWrite ==
    ASSUME LInv, Next, db' # db
    PROVE  \E c \in Calls :
             /\ Commits(c)
             /\ at[c] \in Instances
             /\ \/ c \in Dels /\ Store(nameOf[at[c]], WalletOf[c], Absent)
                \/ /\ c \in Puts
                   /\ Store(nameOf[at[c]], WalletOf[c], NewRecord(c, seen[c]))
                   /\ seen[c] = Absent => db[nameOf[at[c]]][WalletOf[c]] = Absent
<1>1. PICK c \in Calls : WritePut(c) \/ WriteDelete(c)
  BY DEF Next, CallNext, InitStorage, Opens, Issue, Read, Leave, Resume, Told,
         Rejects, Reload
<1>2. at[c] \in Instances
  BY <1>1, ConstAssumption DEF LInv, TypeOK, WritePut, WriteDelete
<1>3. Commits(c)
  BY <1>1 DEF LInv, TypeOK, Commits, WritePut, WriteDelete, Leave
<1> QED
  BY <1>1, <1>2, <1>3 DEF WritePut, WriteDelete

\* A commit is the write of its call.
LEMMA CommitWrites ==
    ASSUME LInv, Next, NEW c \in Calls, Commits(c)
    PROVE  \/ c \in Dels /\ Store(nameOf[at[c]], WalletOf[c], Absent)
           \/ c \in Puts /\ Store(nameOf[at[c]], WalletOf[c], NewRecord(c, seen[c]))
<1> USE DEF Commits, LInv, TypeOK
<1>1. ~Reload /\ \A n \in Names, i \in Instances : ~InitStorage(n) /\ ~Opens(i)
  BY DEF Reload, InitStorage, Opens
<1>2. PICK d \in Calls : CallNext(d)
  BY <1>1 DEF Next
<1>3. d = c
  BY <1>2 DEF CallNext, Issue, Read, Resume, WritePut, WriteDelete, Told, Rejects, Leave
<1>4. WritePut(c) \/ WriteDelete(c)
  BY <1>2, <1>3 DEF CallNext, Issue, Read, Resume, Told, Rejects, Leave
<1> QED
  BY <1>4 DEF WritePut, WriteDelete, Leave

\* A put or a delete that overlapped with nothing is atomic, on the database
\* initStorage gave last (putManifest, deleteManifest).
THEOREM AloneCallsAreAtomic == Spec => AloneIsAtomic
<1> DEFINE A(c) == Commits(c) =>
             LET n   == nameOf[lastDbInstance]
                 w   == WalletOf[c]
                 old == db[n][w]
                 new == db'[n][w]
             IN  /\ c \in Dels => new = Absent
                 /\ c \in Puts =>
                      /\ new.by = c
                      /\ CidOf[c] # NoCid => new.cid = CidOf[c]
                      /\ old # Absent =>
                           /\ new.created = old.created
                           /\ CidOf[c] = NoCid => new.cid = old.cid
<1>1. LInv /\ [Next]_vars => [\A c \in Calls \ crowded : A(c)]_vars
  <2> SUFFICES ASSUME LInv, Next, NEW c \in Calls \ crowded, Commits(c)
               PROVE  A(c)
    OBVIOUS
  <2>1. pc[c] = "write" /\ at[c] = lastDbInstance /\ nameOf[at[c]] \in Names
    BY ConstAssumption DEF Commits, LInv, TypeOK, AloneInv
  <2>2. c \in Puts => seen[c] = db[nameOf[at[c]]][WalletOf[c]]
    BY <2>1 DEF LInv, AloneInv
  <2>3. WalletOf[c] \in Wallets
    BY ConstAssumption
  <2>4. CASE c \in Dels /\ Store(nameOf[at[c]], WalletOf[c], Absent)
    <3>1. db'[nameOf[at[c]]][WalletOf[c]] = Absent
      BY <2>1, <2>3, <2>4 DEF Store, LInv, TypeOK
    <3> QED
      BY <2>1, <2>4, <3>1, ConstAssumption
  <2>5. CASE c \in Puts /\ Store(nameOf[at[c]], WalletOf[c], NewRecord(c, seen[c]))
    <3>1. db'[nameOf[at[c]]][WalletOf[c]] = NewRecord(c, seen[c])
      BY <2>1, <2>3, <2>5 DEF Store, LInv, TypeOK
    <3> QED
      BY <2>1, <2>2, <2>5, <3>1, ConstAssumption DEF NewRecord
  <2> QED
    BY <2>4, <2>5, CommitWrites
<1> QED
  BY <1>1, InvAlways, PTL DEF Spec, AloneIsAtomic

\* Of two first puts of a wallet the one that loses fails: a record is only
\* replaced by a put that has read one (putManifest, get then add or put).
THEOREM NoPutOverwritesBlindly == Spec => NoBlindOverwrite
<1> DEFINE A(n, w) ==
      db[n][w] # Absent /\ db'[n][w] # db[n][w] =>
        \E c \in Calls :
          /\ Commits(c)
          /\ WalletOf[c] = w
          /\ IF c \in Dels THEN db'[n][w] = Absent
             ELSE db'[n][w] = NewRecord(c, seen[c]) /\ seen[c] # Absent
<1>1. LInv /\ [Next]_vars => [\A n \in Names, w \in Wallets : A(n, w)]_vars
  <2> SUFFICES ASSUME LInv, Next, NEW n \in Names, NEW w \in Wallets,
                      db[n][w] # Absent, db'[n][w] # db[n][w]
               PROVE  \E c \in Calls :
                        /\ Commits(c)
                        /\ WalletOf[c] = w
                        /\ IF c \in Dels THEN db'[n][w] = Absent
                           ELSE db'[n][w] = NewRecord(c, seen[c]) /\ seen[c] # Absent
    OBVIOUS
  <2>1. PICK c \in Calls :
          /\ Commits(c)
          /\ at[c] \in Instances
          /\ \/ c \in Dels /\ Store(nameOf[at[c]], WalletOf[c], Absent)
             \/ /\ c \in Puts
                /\ Store(nameOf[at[c]], WalletOf[c], NewRecord(c, seen[c]))
                /\ seen[c] = Absent => db[nameOf[at[c]]][WalletOf[c]] = Absent
    BY OnlyCommitsWrite
  <2>2. n = nameOf[at[c]] /\ w = WalletOf[c]
    BY <2>1 DEF Store, LInv, TypeOK
  <2>3. CASE c \in Dels
    BY <2>1, <2>2, <2>3, ConstAssumption DEF Store, LInv, TypeOK
  <2>4. CASE c \in Puts
    BY <2>1, <2>2, <2>4, ConstAssumption DEF Store, LInv, TypeOK
  <2> QED
    BY <2>1, <2>3, <2>4
<1> QED
  BY <1>1, InvAlways, PTL DEF Spec, NoBlindOverwrite

=============================================================================
