------------------------ MODULE ManifestServiceProofs ------------------------
(* Proofs about ManifestService, for every set of devices, tabs, wallets and *)
(* calls.                                                                    *)
EXTENDS ManifestService, SequenceTheorems, TLAPS

USE DEF mutex

Entries == Range(EntryOf)
Objects == [wallet : Wallets, key : Wallets, entries : Seq(Entries)]

\* What Merge adds to a list of entries is an entry.
LEMMA MergeType ==
    ASSUME NEW es \in Seq(Entries), NEW e \in Entries
    PROVE  Merge(es, e) \in Seq(Entries)
BY DEF Merge

\* The object a call uploads is well typed.
LEMMA ObjectType ==
    ASSUME NEW c \in Calls, NEW es \in Seq(Entries)
    PROVE  Object(c, es) \in Objects
BY CallAssumption DEF Object, Objects

\* What a call appends is an entry.
LEMMA EntryType ==
    ASSUME NEW c \in Calls
    PROVE  EntryOf[c] \in Entries
BY CallAssumption DEF Entries, Range

\* Appending to the store keeps every typed CID valid.
LEMMA StoreAppend ==
    ASSUME NEW S, NEW s \in Seq(S), NEW o \in S
    PROVE  /\ Append(s, o) \in Seq(S)
           /\ Len(Append(s, o)) = Len(s) + 1
           /\ Len(s) \in Nat
           /\ \A i \in 1 .. Len(s) : Append(s, o)[i] = s[i]
           /\ Append(s, o)[Len(s) + 1] = o
OBVIOUS

\* Nothing was called yet and no pointer is set.
LEMMA InitTypeOK == Init => TypeOK
<1> SUFFICES ASSUME Init PROVE TypeOK
  OBVIOUS
<1>1. /\ store \in Seq(Objects) /\ Len(store) = 0
  BY DEF Init
<1>2. \A w \in Wallets : chain[w] \in Seq(1 .. Len(store))
  BY DEF Init
<1>3. \A t \in Tabs, w \in Wallets : queue[t][w] \in Seq(Calls)
  BY DEF Init
<1>4. chain \in [Wallets -> Seq(1 .. Len(store))]
  BY <1>2 DEF Init
<1>5. queue \in [Tabs -> [Wallets -> Seq(Calls)]]
  BY <1>3 DEF Init
<1> QED
  BY <1>1, <1>4, <1>5, CallAssumption DEF Init, TypeOK, Objects, Entries, Cids, NoCid, Pending, Settled

\* Every CID stays valid, and keeps its type, when the store grows.
LEMMA GrowTyped ==
    ASSUME TypeOK, NEW o \in Objects, store' = Append(store, o)
    PROVE  /\ store' \in Seq(Objects)
           /\ Len(store') = Len(store) + 1 /\ Len(store) \in Nat
           /\ Cids \subseteq Cids' /\ Len(store') \in Cids'
           /\ \A i \in 1 .. Len(store) : store'[i] = store[i]
           /\ store'[Len(store')] = o
<1>1. store \in Seq(Objects)
  BY DEF TypeOK, Objects, Entries
<1> QED
  BY <1>1, StoreAppend DEF Cids

\* The variables typed by the length of the store keep their types when it grows.
LEMMA CidsGrow ==
    ASSUME TypeOK, Len(store') \in Nat, Len(store) <= Len(store'), Len(store) \in Nat
    PROVE  /\ Cids \subseteq Cids'
           /\ ptr \in [Devices -> [Wallets -> Cids']]
           /\ shown \in [Tabs -> [Wallets -> Cids']]
           /\ chain \in [Wallets -> Seq(1 .. Len(store'))]
           /\ base \in [Calls -> Cids']
           /\ head \in [Calls -> Cids']
<1>1. Cids \subseteq Cids' /\ 1 .. Len(store) \subseteq 1 .. Len(store')
  BY DEF Cids
<1>2. ASSUME NEW w \in Wallets PROVE chain[w] \in Seq(1 .. Len(store'))
  BY <1>1, SeqMonotonic DEF TypeOK
<1>3. chain \in [Wallets -> Seq(1 .. Len(store'))]
  BY <1>2 DEF TypeOK
<1>4. ptr \in [Devices -> [Wallets -> Cids']] /\ shown \in [Tabs -> [Wallets -> Cids']]
  BY <1>1 DEF TypeOK
<1> QED
  BY <1>1, <1>3, <1>4 DEF TypeOK

\* The upload of a call, when there is one, is a well-typed object.
Uploads(c) ==
    \/ UNCHANGED store
    \/ \E o \in Objects : store' = Append(store, o)

\* An upload adds to the store, and replaces nothing in it.
LEMMA UploadGrows ==
    ASSUME TypeOK, NEW c \in Calls, Uploads(c)
    PROVE  /\ store' \in Seq(Objects) /\ Len(store) \in Nat /\ Len(store') \in Nat
           /\ Len(store) <= Len(store')
           /\ \A i \in 1 .. Len(store) : store'[i] = store[i]
<1>1. CASE UNCHANGED store
  BY <1>1, LenProperties DEF TypeOK, Objects, Entries
<1>2. CASE \E o \in Objects : store' = Append(store, o)
  BY <1>2, GrowTyped
<1> QED
  BY <1>1, <1>2 DEF Uploads

\* What a call reads from the store is a list of entries.
LEMMA BaseEntries ==
    ASSUME TypeOK, NEW c \in Calls, base[c] \in DOMAIN store
    PROVE  Object(c, Merge(store[base[c]].entries, EntryOf[c])) \in Objects
<1>1. store \in Seq(Objects)
  BY DEF TypeOK, Objects, Entries
<1>2. store[base[c]] \in Objects
  BY <1>1, LenProperties, ElementOfSeq
<1>3. store[base[c]].entries \in Seq(Entries)
  BY <1>2 DEF Objects
<1> QED
  BY <1>3, MergeType, EntryType, ObjectType

\* The empty manifest is an object.
LEMMA EmptyObject ==
    ASSUME NEW c \in Calls
    PROVE  Object(c, <<>>) \in Objects
BY ObjectType, EmptySeq

\* Only a call past its mutex or its read uploads, and only typed objects.
LEMMA StepUploads ==
    ASSUME TypeOK, CallInv, NEW c \in Calls, InitLands(c) \/ PutLands(c) \/ Fails(c)
    PROVE  Uploads(c)
<1>1. pc[c] = "put" => base[c] \in DOMAIN store
  BY DEF CallInv, Designates
<1> QED
  BY <1>1, BaseEntries, EmptyObject DEF InitLands, PutLands, Fails, Uploads

\* setManifestCid with a valid CID keeps the pointers and the views typed.
LEMMA SetPointerType ==
    ASSUME NEW c \in Calls, NEW x, NEW S, x \in S,
           ptr \in [Devices -> [Wallets -> S]], shown \in [Tabs -> [Wallets -> S]],
           SetPointer(c, x)
    PROVE  /\ ptr' \in [Devices -> [Wallets -> S]]
           /\ shown' \in [Tabs -> [Wallets -> S]]
           /\ ptr' = [ptr EXCEPT ![Dev(c)][WalletOf[c]] = x]
           /\ Dev(c) \in Devices /\ WalletOf[c] \in Wallets
<1>1. Dev(c) \in Devices /\ WalletOf[c] \in Wallets /\ TabOf[c] \in Tabs
  BY CallAssumption DEF Dev
<1>2. ptr' \in [Devices -> [Wallets -> S]]
  BY <1>1 DEF SetPointer
<1> QED
  BY <1>1, <1>2 DEF SetPointer

\* The types of the variables of the mutexes.
MutexTyped ==
    /\ tail \in [Tabs -> [Wallets -> Calls \cup {NoCall}]]
    /\ previous \in [Calls -> Calls \cup {NoCall}]
    /\ released \subseteq Calls
    /\ queue \in [Tabs -> [Wallets -> Seq(Calls)]]

\* Releasing keeps the queues typed: the caller is in its queue.
LEMMA ReleaseType ==
    ASSUME TypeOK, QueuedInv, NEW c \in Calls, Release(c),
           Kind[c] = "append" => pc[c] \in {"queued"} \cup Holding
    PROVE  /\ MutexTyped'
           /\ Kind[c] # "append" => queue' = queue
           /\ Kind[c] = "append" =>
                 /\ Queue(c) \in Seq(Calls) /\ Queue(c) # <<>>
                 /\ queue' = [queue EXCEPT ![TabOf[c]][WalletOf[c]] = Tail(Queue(c))]
<1>1. TabOf[c] \in Tabs /\ WalletOf[c] \in Wallets
  BY CallAssumption
<1>2. Queue(c) \in Seq(Calls)
  BY <1>1 DEF TypeOK, Queue
<1>3. CASE Kind[c] = "append"
  <2>1. Queue(c) # <<>>
    BY <1>3, <1>2, EmptySeq DEF QueuedInv
  <2>2. Tail(Queue(c)) \in Seq(Calls)
    BY <2>1, <1>2, HeadTailProperties
  <2> QED
    BY <1>1, <1>2, <1>3, <2>1, <2>2 DEF Release, Queue, TypeOK, MutexTyped
<1>4. CASE Kind[c] # "append"
  <2>1. queue' = queue
    BY <1>1, <1>4 DEF Release, TypeOK
  <2> QED
    BY <2>1, <1>4 DEF Release, TypeOK, MutexTyped
<1> QED
  BY <1>3, <1>4

\* The first half of a load or of an exclusive section keeps the types.
LEMMA ReadPointerType ==
    ASSUME TypeOK, QueuedInv, NEW c \in Calls, NEW h, ReadPointer(c, h),
           Kind[c] = "append" => pc[c] \in {"queued"} \cup Holding
    PROVE  /\ MutexTyped'
           /\ pc' \in [Calls -> {"idle"} \cup Pending \cup Settled]
           /\ base' \in [Calls -> Cids]
<1>1. Pointer(c) \in Cids
  BY CallAssumption DEF TypeOK, Pointer, Dev
<1> QED
  BY <1>1, ReleaseType DEF ReadPointer, TypeOK, MutexTyped, Pending, Settled

\* Every CID a registry account lists, and a call holds, is a CID of the store.
LEMMA KnownHeadType ==
    ASSUME TypeOK, NEW h \in KnownHeads
    PROVE  h \in Cids /\ (h # NoCid => h \in DOMAIN store)
<1>1. Len(store) \in Nat /\ DOMAIN store = 1 .. Len(store)
  BY LenProperties DEF TypeOK
<1>2. ASSUME NEW w \in Wallets, NEW i \in DOMAIN chain[w]
      PROVE  chain[w][i] \in 1 .. Len(store)
  <2>1. chain[w] \in Seq(1 .. Len(store))
    BY DEF TypeOK
  <2> QED
    BY <1>2, <2>1
<1>3. h = NoCid \/ h \in 1 .. Len(store)
  BY <1>2 DEF KnownHeads, Range
<1> QED
  BY <1>1, <1>3 DEF Cids, NoCid

\* Each step keeps the types.
LEMMA StepTypeOK ==
    ASSUME TypeOK, QueuedInv, CallInv, [Next]_vars
    PROVE  TypeOK'
<1> USE DEF Pending, Settled
<1>0. store \in Seq(Objects) /\ Len(store) \in Nat
  BY LenProperties DEF TypeOK, Objects, Entries
<1>1. ASSUME NEW c \in Calls, CallLoad(c) PROVE TypeOK'
  <2>1. PICK h \in KnownHeads : ReadPointer(c, h)
    BY <1>1 DEF CallLoad
  <2>2. Kind[c] # "append"
    BY <1>1 DEF CallLoad
  <2> QED
    BY <1>1, <2>1, <2>2, ReadPointerType DEF CallLoad, TypeOK, MutexTyped, Cids
<1>2. ASSUME NEW c \in Calls, CallAppend(c) PROVE TypeOK'
  <2>1. PICK h \in KnownHeads : head' = [head EXCEPT ![c] = h]
    BY <1>2 DEF CallAppend
  <2>2. h \in Cids
    BY <2>1, KnownHeadType, CallAssumption
  <2>3. TabOf[c] \in Tabs /\ WalletOf[c] \in Wallets
    BY CallAssumption
  <2>4. queue[TabOf[c]][WalletOf[c]] \in Seq(Calls)
    BY <2>3 DEF TypeOK
  <2>5. Append(queue[TabOf[c]][WalletOf[c]], c) \in Seq(Calls)
    BY <2>4
  <2>6. queue' \in [Tabs -> [Wallets -> Seq(Calls)]]
    BY <1>2, <2>3, <2>5 DEF CallAppend, TypeOK
  <2>7. /\ tail' \in [Tabs -> [Wallets -> Calls \cup {NoCall}]]
        /\ previous' \in [Calls -> Calls \cup {NoCall}]
    BY <1>2, <2>3 DEF CallAppend, TypeOK
  <2> QED
    BY <1>2, <2>1, <2>2, <2>6, <2>7 DEF CallAppend, TypeOK, Cids
<1>3. ASSUME NEW c \in Calls, Enter(c) PROVE TypeOK'
  BY <1>3, ReadPointerType DEF Enter, TypeOK, MutexTyped, Cids
<1>4. ASSUME NEW c \in Calls, InitLands(c) PROVE TypeOK'
  <2>1. Object(c, <<>>) \in Objects
    BY EmptyObject
  <2>2. store' \in Seq(Objects) /\ Len(store') = Len(store) + 1 /\ Len(store') \in Cids'
    BY <1>4, <2>1, GrowTyped DEF InitLands
  <2>3. Len(store) <= Len(store') /\ Len(store') \in Nat
    BY <1>0, <2>2
  <2>4. SetPointer(c, Len(store'))
    BY <1>4 DEF InitLands
  <2>5. /\ ptr' \in [Devices -> [Wallets -> Cids']]
        /\ shown' \in [Tabs -> [Wallets -> Cids']]
        /\ Dev(c) \in Devices /\ WalletOf[c] \in Wallets
    BY <1>0, <2>2, <2>3, <2>4, CidsGrow, SetPointerType
  <2>6. raced' \subseteq Devices \X Wallets
    BY <1>4, <2>5 DEF InitLands, NoteBlindWrite, TypeOK
  <2>7. /\ chain' \in [Wallets -> Seq(1 .. Len(store'))]
        /\ base' \in [Calls -> Cids'] /\ head' \in [Calls -> Cids']
    BY <1>0, <1>4, <2>2, <2>3, CidsGrow DEF InitLands
  <2> QED
    BY <1>4, <2>2, <2>5, <2>6, <2>7 DEF InitLands, TypeOK, Objects, Entries
<1>5. ASSUME NEW c \in Calls, Reread(c) PROVE TypeOK'
  <2>1. Pointer(c) \in Cids
    BY CallAssumption DEF TypeOK, Pointer, Dev
  <2> QED
    BY <1>5, <2>1 DEF Reread, TypeOK, Cids
<1>6. ASSUME NEW c \in Calls, CatReturns(c) PROVE TypeOK'
  BY <1>6 DEF CatReturns, TypeOK, Cids
<1>7. ASSUME NEW c \in Calls, PutLands(c) PROVE TypeOK'
  <2>1. base[c] \in DOMAIN store /\ Kind[c] = "append" /\ pc[c] \in Holding
    BY <1>7 DEF PutLands, CallInv, Designates, Holding
  <2>2. Object(c, Merge(store[base[c]].entries, EntryOf[c])) \in Objects
    BY <2>1, BaseEntries
  <2>3. store' \in Seq(Objects) /\ Len(store') = Len(store) + 1 /\ Len(store') \in Cids'
    BY <1>7, <2>2, GrowTyped DEF PutLands
  <2>4. Len(store) <= Len(store') /\ Len(store') \in Nat
    BY <1>0, <2>3
  <2>5. SetPointer(c, Len(store')) /\ Release(c)
    BY <1>7 DEF PutLands
  <2>6. /\ ptr' \in [Devices -> [Wallets -> Cids']]
        /\ shown' \in [Tabs -> [Wallets -> Cids']]
    BY <1>0, <2>3, <2>4, <2>5, CidsGrow, SetPointerType
  <2>7. /\ chain' \in [Wallets -> Seq(1 .. Len(store'))]
        /\ base' \in [Calls -> Cids'] /\ head' \in [Calls -> Cids']
    BY <1>0, <1>7, <2>3, <2>4, CidsGrow DEF PutLands
  <2>8. MutexTyped'
    BY <2>1, <2>5, ReleaseType
  <2> QED
    BY <1>7, <2>3, <2>6, <2>7, <2>8 DEF PutLands, TypeOK, MutexTyped, Objects, Entries
<1>8. ASSUME NEW c \in Calls, Fails(c) PROVE TypeOK'
  <2>1. store' \in Seq(Objects) /\ Len(store) <= Len(store') /\ Len(store') \in Nat
    BY <1>8, StepUploads, UploadGrows
  <2>2. Kind[c] = "append" => pc[c] \in Holding
    BY <1>8 DEF Fails, CallInv, Holding
  <2>3. MutexTyped'
    BY <1>8, <2>2, ReleaseType DEF Fails
  <2> QED
    BY <1>0, <1>8, <2>1, <2>3, CidsGrow
       DEF Fails, Broken, TypeOK, MutexTyped, Objects, Entries
<1>9. ASSUME NEW c \in Calls, CallRestore(c) PROVE TypeOK'
  <2>1. PICK h \in KnownHeads : base' = [base EXCEPT ![c] = h]
    BY <1>9 DEF CallRestore
  <2>2. h \in Cids
    BY <2>1, KnownHeadType, CallAssumption
  <2>3. foreign \subseteq Wallets /\ WalletOf[c] \in Wallets
    BY CallAssumption DEF TypeOK
  <2>4. foreign' = foreign \/ foreign' = foreign \cup {WalletOf[c]}
    BY <1>9 DEF CallRestore
  <2> QED
    BY <1>9, <2>1, <2>2, <2>3, <2>4 DEF CallRestore, TypeOK, Cids
<1>10. ASSUME NEW c \in Calls, RestoreLands(c) PROVE TypeOK'
  <2>1. /\ base[c] \in Cids
        /\ Dev(c) \in Devices /\ WalletOf[c] \in Wallets
    BY CallAssumption DEF TypeOK, Dev
  <2>2. PICK w \in Wallets :
            /\ shown' = [shown EXCEPT ![TabOf[c]] = [ptr'[Dev(c)] EXCEPT ![w] = base[c]]]
            /\ foreign' = IF w = WalletOf[c] THEN foreign ELSE foreign \cup {w}
    BY <1>10 DEF RestoreLands
  <2>4. ptr' \in [Devices -> [Wallets -> Cids]]
    BY <1>10, <2>1 DEF RestoreLands, TypeOK
  <2>5. [ptr'[Dev(c)] EXCEPT ![w] = base[c]] \in [Wallets -> Cids]
    BY <2>1, <2>4
  <2>6. shown' \in [Tabs -> [Wallets -> Cids]] /\ foreign' \subseteq Wallets
    BY <2>2, <2>5 DEF TypeOK
  <2>3. raced' \subseteq Devices \X Wallets
    BY <1>10, <2>1 DEF RestoreLands, NoteBlindWrite, TypeOK
  <2> QED
    BY <1>10, <2>3, <2>4, <2>6 DEF RestoreLands, TypeOK, Cids
<1>11. ASSUME NEW c \in Calls, CallPublish(c) PROVE TypeOK'
  <2>1. shown[TabOf[c]][WalletOf[c]] \in Cids
    BY CallAssumption DEF TypeOK
  <2> QED
    BY <1>11, <2>1 DEF CallPublish, TypeOK, Cids
<1>12. ASSUME NEW c \in Calls, PublishLands(c) PROVE TypeOK'
  <2>1. base[c] \in 1 .. Len(store)
    BY <1>0, <1>12, LenProperties DEF PublishLands, CallInv, Designates
  <2>2. Append(chain[WalletOf[c]], base[c]) \in Seq(1 .. Len(store))
    BY <2>1, CallAssumption DEF TypeOK
  <2> QED
    BY <1>12, <2>2, CallAssumption DEF PublishLands, TypeOK, Cids
<1>13. ASSUME NEW t \in Tabs, Show(t) PROVE TypeOK'
  BY <1>13, CallAssumption DEF Show, TypeOK, Cids
<1>14. ASSUME NEW t \in Tabs, Reload(t) PROVE TypeOK'
  <2>1. /\ [w \in Wallets |-> <<>>] \in [Wallets -> Seq(Calls)]
        /\ [w \in Wallets |-> NoCall] \in [Wallets -> Calls \cup {NoCall}]
    BY EmptySeq
  <2> QED
    BY <1>14, <2>1, CallAssumption DEF Reload, Broken, TypeOK, Cids
<1>15. CASE UNCHANGED vars
  BY <1>15 DEF vars, TypeOK, Cids
<1> QED
  BY <1>1, <1>2, <1>3, <1>4, <1>5, <1>6, <1>7, <1>8, <1>9, <1>10, <1>11, <1>12,
     <1>13, <1>14, <1>15 DEF Next, Resume

-----------------------------------------------------------------------------
\* The two facts about the mutex are kept together.
MutexInv == QueueInv /\ QueuedInv

\* An append past the mutex is the first of its queue.
LEMMA HolderFirst ==
    ASSUME TypeOK, MutexInv, NEW c \in Calls, Kind[c] = "append",
           pc[c] \in Holding \/ (pc[c] = "queued" /\ Head(Queue(c)) = c)
    PROVE  /\ TabOf[c] \in Tabs /\ WalletOf[c] \in Wallets
           /\ Queue(c) \in Seq(Calls) /\ Len(Queue(c)) \in Nat \ {0}
           /\ Queue(c)[1] = c
<1>1. TabOf[c] \in Tabs /\ WalletOf[c] \in Wallets
  BY CallAssumption
<1>2. Queue(c) \in Seq(Calls) /\ Len(Queue(c)) \in Nat
  BY <1>1, LenProperties DEF TypeOK, Queue
<1>3. PICK i \in 1 .. Len(Queue(c)) : Queue(c)[i] = c
  BY DEF MutexInv, QueuedInv
<1>4. i > 1 => pc[c] = "queued"
  BY <1>1, <1>3 DEF MutexInv, QueueInv, Queue
<1>5. CASE pc[c] \in Holding
  BY <1>1, <1>2, <1>3, <1>4, <1>5 DEF Holding
<1>6. CASE pc[c] = "queued" /\ Head(Queue(c)) = c
  BY <1>1, <1>2, <1>3, <1>6
<1> QED
  BY <1>5, <1>6

\* Moving one call between two awaits leaves the queues as they must be.
LEMMA MutexMove ==
    ASSUME TypeOK, MutexInv, NEW c \in Calls, NEW x,
           queue' = queue, pc' = [pc EXCEPT ![c] = x],
           Kind[c] = "append" => /\ x \in Holding
                                 /\ pc[c] \in Holding \/ (pc[c] = "queued" /\ Head(Queue(c)) = c)
    PROVE  MutexInv'
<1>1. Kind[c] = "append" => Queue(c)[1] = c /\ Len(Queue(c)) \in Nat \ {0}
  BY HolderFirst
<1>2. \A d \in Calls : pc'[d] = IF d = c THEN x ELSE pc[d]
  BY DEF TypeOK
<1>3. QueueInv'
  <2> SUFFICES ASSUME NEW t \in Tabs, NEW w \in Wallets, NEW i \in 1 .. Len(queue[t][w])
               PROVE  LET d == queue[t][w][i] IN
                      /\ Kind[d] = "append" /\ TabOf[d] = t /\ WalletOf[d] = w
                      /\ pc'[d] \in {"queued"} \cup Holding
                      /\ i > 1 => pc'[d] = "queued"
                      /\ \A j \in 1 .. Len(queue[t][w]) : queue[t][w][j] = d => i = j
    BY DEF QueueInv
  <2> DEFINE d == queue[t][w][i]
  <2>1. d \in Calls
    BY ElementOfSeq DEF TypeOK
  <2>2. /\ Kind[d] = "append" /\ TabOf[d] = t /\ WalletOf[d] = w
        /\ pc[d] \in {"queued"} \cup Holding /\ (i > 1 => pc[d] = "queued")
        /\ \A j \in 1 .. Len(queue[t][w]) : queue[t][w][j] = d => i = j
    BY DEF MutexInv, QueueInv
  <2>3. d = c => i = 1
    BY <1>1, <2>2 DEF Queue
  <2> QED
    BY <1>2, <2>1, <2>2, <2>3
<1>4. QueuedInv'
  BY <1>1, <1>2 DEF MutexInv, QueuedInv, Queue
<1> QED
  BY <1>3, <1>4 DEF MutexInv

\* Joining the queue.
LEMMA MutexJoin ==
    ASSUME TypeOK, MutexInv, NEW c \in Calls, CallAppend(c)
    PROVE  MutexInv'
<1> DEFINE q == queue[TabOf[c]][WalletOf[c]]
<1>1. TabOf[c] \in Tabs /\ WalletOf[c] \in Wallets
  BY CallAssumption
<1>2. q \in Seq(Calls) /\ Len(q) \in Nat
  BY <1>1, LenProperties DEF TypeOK
<1>3. /\ Append(q, c) \in Seq(Calls) /\ Len(Append(q, c)) = Len(q) + 1
      /\ \A i \in 1 .. Len(q) : Append(q, c)[i] = q[i]
      /\ Append(q, c)[Len(q) + 1] = c
  BY <1>2, StoreAppend
<1>4. \A t \in Tabs, w \in Wallets :
          queue'[t][w] = IF t = TabOf[c] /\ w = WalletOf[c] THEN Append(q, c) ELSE queue[t][w]
  BY <1>1 DEF CallAppend, TypeOK
<1>5. /\ Kind[c] = "append" /\ pc[c] = "idle"
      /\ \A d \in Calls : pc'[d] = IF d = c THEN "queued" ELSE pc[d]
  BY DEF CallAppend, TypeOK
<1>6. \A i \in 1 .. Len(q) : q[i] # c
  BY <1>1, <1>5 DEF MutexInv, QueueInv, Holding
<1>7. QueueInv'
  <2> SUFFICES ASSUME NEW t \in Tabs, NEW w \in Wallets, NEW i \in 1 .. Len(queue'[t][w])
               PROVE  LET d == queue'[t][w][i] IN
                      /\ Kind[d] = "append" /\ TabOf[d] = t /\ WalletOf[d] = w
                      /\ pc'[d] \in {"queued"} \cup Holding
                      /\ i > 1 => pc'[d] = "queued"
                      /\ \A j \in 1 .. Len(queue'[t][w]) : queue'[t][w][j] = d => i = j
    BY DEF QueueInv
  <2>1. CASE t = TabOf[c] /\ w = WalletOf[c]
    <3>1. queue'[t][w] = Append(q, c) /\ i \in 1 .. Len(q) + 1
      BY <1>3, <1>4, <2>1
    <3>2. CASE i = Len(q) + 1
      <4>1. queue'[t][w][i] = c /\ pc'[c] = "queued"
        BY <1>3, <1>5, <3>1, <3>2
      <4>2. ASSUME NEW j \in 1 .. Len(q) + 1, queue'[t][w][j] = c PROVE i = j
        BY <1>2, <1>3, <1>6, <3>1, <3>2, <4>2
      <4> QED
        BY <1>3, <1>5, <2>1, <3>1, <4>1, <4>2
    <3>3. CASE i \in 1 .. Len(q)
      <4>1. queue'[t][w][i] = q[i] /\ q[i] \in Calls /\ q[i] # c
        BY <1>2, <1>3, <1>6, <3>1, <3>3, ElementOfSeq
      <4>2. /\ Kind[q[i]] = "append" /\ TabOf[q[i]] = t /\ WalletOf[q[i]] = w
            /\ pc[q[i]] \in {"queued"} \cup Holding /\ (i > 1 => pc[q[i]] = "queued")
            /\ \A j \in 1 .. Len(q) : q[j] = q[i] => i = j
        BY <2>1, <3>3 DEF MutexInv, QueueInv
      <4> QED
        BY <1>2, <1>3, <1>5, <3>1, <4>1, <4>2
    <3> QED
      BY <1>2, <3>1, <3>2, <3>3
  <2>2. CASE ~(t = TabOf[c] /\ w = WalletOf[c])
    <3>1. queue'[t][w] = queue[t][w]
      BY <1>4, <2>2
    <3>2. queue[t][w][i] \in Calls
      BY <3>1, ElementOfSeq DEF TypeOK
    <3>3. queue[t][w][i] # c
      BY <2>2, <3>1 DEF MutexInv, QueueInv
    <3> QED
      BY <1>5, <3>1, <3>2, <3>3 DEF MutexInv, QueueInv
  <2> QED
    BY <2>1, <2>2
<1>8. QueuedInv'
  <2> SUFFICES ASSUME NEW d \in Calls, Kind[d] = "append", pc'[d] \in {"queued"} \cup Holding
               PROVE  \E i \in 1 .. Len(Queue(d)') : Queue(d)'[i] = d
    BY DEF QueuedInv
  <2>1. TabOf[d] \in Tabs /\ WalletOf[d] \in Wallets
    BY CallAssumption
  <2>a. Queue(d)' = IF TabOf[d] = TabOf[c] /\ WalletOf[d] = WalletOf[c]
                    THEN Append(q, c) ELSE Queue(d)
    BY <1>4, <2>1 DEF Queue
  <2>2. CASE d = c
    <3>1. Queue(d)' = Append(q, c) /\ Len(q) + 1 \in 1 .. Len(Append(q, c))
      BY <1>2, <1>3, <2>2, <2>a
    <3> QED
      BY <1>3, <2>2, <3>1
  <2>3. CASE d # c
    <3>1. PICK i \in 1 .. Len(Queue(d)) : Queue(d)[i] = d
      BY <1>5, <2>3 DEF MutexInv, QueuedInv
    <3>2. CASE TabOf[d] = TabOf[c] /\ WalletOf[d] = WalletOf[c]
      <4>1. Queue(d) = q
        BY <3>2 DEF Queue
      <4>2. i \in 1 .. Len(Append(q, c)) /\ Append(q, c)[i] = d
        BY <1>2, <1>3, <3>1, <4>1
      <4> QED
        BY <2>a, <3>2, <4>2
    <3>3. CASE ~(TabOf[d] = TabOf[c] /\ WalletOf[d] = WalletOf[c])
      BY <2>a, <3>1, <3>3
    <3> QED
      BY <3>2, <3>3
  <2> QED
    BY <2>2, <2>3
<1> QED
  BY <1>7, <1>8 DEF MutexInv

\* Leaving the queue: the holder settles, the next one becomes first.
LEMMA MutexLeave ==
    ASSUME TypeOK, MutexInv, NEW c \in Calls, NEW x \in Settled, Release(c),
           pc' = [pc EXCEPT ![c] = x],
           Kind[c] = "append" => pc[c] \in Holding \/ (pc[c] = "queued" /\ Head(Queue(c)) = c)
    PROVE  MutexInv'
<1> DEFINE q == Queue(c)
<1>0. \A d \in Calls : pc'[d] = IF d = c THEN x ELSE pc[d]
  BY DEF TypeOK
<1>1. CASE Kind[c] # "append"
  <2>1. queue' = queue
    BY <1>1, ReleaseType DEF MutexInv
  <2> QED
    BY <1>1, <2>1, MutexMove
<1>2. CASE Kind[c] = "append"
  <2>1. /\ TabOf[c] \in Tabs /\ WalletOf[c] \in Wallets
        /\ q \in Seq(Calls) /\ Len(q) \in Nat \ {0} /\ q[1] = c /\ q # <<>>
    BY <1>2, HolderFirst, EmptySeq
  <2>2. /\ Tail(q) \in Seq(Calls) /\ Len(Tail(q)) = Len(q) - 1
        /\ \A i \in 1 .. Len(Tail(q)) : Tail(q)[i] = q[i + 1]
    BY <2>1, HeadTailProperties
  <2>3. \A t \in Tabs, w \in Wallets :
            queue'[t][w] = IF t = TabOf[c] /\ w = WalletOf[c] THEN Tail(q) ELSE queue[t][w]
    BY <1>2, <2>1 DEF Release, TypeOK, Queue
  <2>4. \A i \in 1 .. Len(q) :
            /\ q[i] \in Calls /\ Kind[q[i]] = "append"
            /\ TabOf[q[i]] = TabOf[c] /\ WalletOf[q[i]] = WalletOf[c]
            /\ i > 1 => pc[q[i]] = "queued" /\ q[i] # c
            /\ \A j \in 1 .. Len(q) : q[j] = q[i] => i = j
    BY <2>1, ElementOfSeq DEF MutexInv, QueueInv, Queue
  <2>5. QueueInv'
    <3> SUFFICES ASSUME NEW t \in Tabs, NEW w \in Wallets, NEW i \in 1 .. Len(queue'[t][w])
                 PROVE  LET d == queue'[t][w][i] IN
                        /\ Kind[d] = "append" /\ TabOf[d] = t /\ WalletOf[d] = w
                        /\ pc'[d] \in {"queued"} \cup Holding
                        /\ i > 1 => pc'[d] = "queued"
                        /\ \A j \in 1 .. Len(queue'[t][w]) : queue'[t][w][j] = d => i = j
      BY DEF QueueInv
    <3>1. CASE t = TabOf[c] /\ w = WalletOf[c]
      <4>a. queue'[t][w] = Tail(q)
        BY <2>3, <3>1
      <4>b. i \in 1 .. Len(q) - 1
        BY <2>2, <4>a
      <4>1. queue'[t][w] = Tail(q) /\ i + 1 \in 1 .. Len(q) /\ i + 1 > 1
        BY <2>1, <4>a, <4>b
      <4>2. Tail(q)[i] = q[i + 1] /\ pc'[q[i + 1]] = "queued"
        BY <1>0, <2>2, <2>4, <4>1
      <4>3. ASSUME NEW j \in 1 .. Len(Tail(q)), Tail(q)[j] = Tail(q)[i] PROVE i = j
        <5>1. j + 1 \in 1 .. Len(q) /\ q[j + 1] = q[i + 1]
          BY <2>1, <2>2, <4>1, <4>2, <4>3
        <5>2. i + 1 = j + 1
          BY <2>4, <4>1, <5>1
        <5> QED
          BY <4>1, <5>1, <5>2
      <4> QED
        BY <2>4, <3>1, <4>1, <4>2, <4>3
    <3>2. CASE ~(t = TabOf[c] /\ w = WalletOf[c])
      <4>1. queue'[t][w] = queue[t][w]
        BY <2>3, <3>2
      <4>2. queue[t][w][i] \in Calls
        BY <4>1, ElementOfSeq DEF TypeOK
      <4>3. queue[t][w][i] # c
        BY <3>2, <4>1 DEF MutexInv, QueueInv
      <4> QED
        BY <1>0, <4>1, <4>2, <4>3 DEF MutexInv, QueueInv
    <3> QED
      BY <3>1, <3>2
  <2>6. QueuedInv'
    <3> SUFFICES ASSUME NEW d \in Calls, Kind[d] = "append", pc'[d] \in {"queued"} \cup Holding
                 PROVE  \E i \in 1 .. Len(Queue(d)') : Queue(d)'[i] = d
      BY DEF QueuedInv
    <3>1. d # c /\ pc[d] \in {"queued"} \cup Holding
      BY <1>0 DEF Settled, Holding
    <3>2. PICK i \in 1 .. Len(Queue(d)) : Queue(d)[i] = d
      BY <3>1 DEF MutexInv, QueuedInv
    <3>3. TabOf[d] \in Tabs /\ WalletOf[d] \in Wallets
      BY CallAssumption
    <3>4. CASE TabOf[d] = TabOf[c] /\ WalletOf[d] = WalletOf[c]
      <4>1. Queue(d) = q /\ Queue(d)' = Tail(q)
        BY <2>3, <3>3, <3>4 DEF Queue
      <4>2. i # 1 /\ i - 1 \in 1 .. Len(Tail(q))
        BY <2>1, <2>2, <3>1, <3>2, <4>1
      <4>3. Tail(q)[i - 1] = d
        BY <2>2, <3>2, <4>1, <4>2
      <4> QED
        BY <4>1, <4>2, <4>3
    <3>5. CASE ~(TabOf[d] = TabOf[c] /\ WalletOf[d] = WalletOf[c])
      BY <2>3, <3>2, <3>3, <3>5 DEF Queue
    <3> QED
      BY <3>4, <3>5
  <2> QED
    BY <2>5, <2>6 DEF MutexInv
<1> QED
  BY <1>1, <1>2

\* A reload empties the queues of its tab together with its calls.
LEMMA MutexReload ==
    ASSUME TypeOK, MutexInv, NEW t \in Tabs, Reload(t)
    PROVE  MutexInv'
<1>1. \A u \in Tabs, w \in Wallets : queue'[u][w] = IF u = t THEN <<>> ELSE queue[u][w]
  BY DEF Reload, TypeOK
<1>2. \A d \in Calls :
        pc'[d] = IF TabOf[d] = t /\ pc[d] \in Pending THEN Broken(pc[d], "killed") ELSE pc[d]
  BY DEF Reload
<1>3. QueueInv'
  <2> SUFFICES ASSUME NEW u \in Tabs, NEW w \in Wallets, NEW i \in 1 .. Len(queue'[u][w])
               PROVE  LET d == queue'[u][w][i] IN
                      /\ Kind[d] = "append" /\ TabOf[d] = u /\ WalletOf[d] = w
                      /\ pc'[d] \in {"queued"} \cup Holding
                      /\ i > 1 => pc'[d] = "queued"
                      /\ \A j \in 1 .. Len(queue'[u][w]) : queue'[u][w][j] = d => i = j
    BY DEF QueueInv
  <2>1. u # t /\ queue'[u][w] = queue[u][w]
    BY <1>1, EmptySeq
  <2>2. queue[u][w][i] \in Calls
    BY <2>1, ElementOfSeq DEF TypeOK
  <2> QED
    BY <1>2, <2>1, <2>2 DEF MutexInv, QueueInv
<1>4. QueuedInv'
  BY <1>1, <1>2, CallAssumption DEF MutexInv, QueuedInv, Queue, Holding, Pending, Broken
<1> QED
  BY <1>3, <1>4 DEF MutexInv

\* A load or an exclusive section starts: refused, or past the read.
LEMMA MutexRead ==
    ASSUME TypeOK, MutexInv, NEW c \in Calls, NEW h, ReadPointer(c, h),
           Kind[c] = "append" => pc[c] = "queued" /\ Head(Queue(c)) = c
    PROVE  MutexInv'
<1>1. CASE queue' = queue /\ \E x \in {"cat", "init"} : pc' = [pc EXCEPT ![c] = x]
  BY <1>1, MutexMove DEF Holding
<1>2. CASE Release(c) /\ pc' = [pc EXCEPT ![c] = "refused"]
  BY <1>2, MutexLeave DEF Settled
<1> QED
  BY <1>1, <1>2 DEF ReadPointer

\* The promise a call awaits is only resolved when the call is the first.
LEMMA EnterFirst ==
    ASSUME TypeOK, MutexInv, PromiseInv, CallInv, NEW c \in Calls, Enter(c)
    PROVE  Kind[c] = "append" /\ pc[c] = "queued" /\ Head(Queue(c)) = c
<1>1. Kind[c] = "append" /\ pc[c] = "queued" /\ Fulfilled(previous[c])
  BY DEF Enter, CallInv
<1>2. TabOf[c] \in Tabs /\ WalletOf[c] \in Wallets
  BY CallAssumption
<1>3. Queue(c) \in Seq(Calls) /\ Len(Queue(c)) \in Nat
  BY <1>2, LenProperties DEF TypeOK, Queue
<1>4. PICK i \in 1 .. Len(Queue(c)) : Queue(c)[i] = c
  BY <1>1 DEF MutexInv, QueuedInv
<1>5. CASE i = 1
  <2>1. Queue(c) # <<>>
    BY <1>3, <1>4, EmptySeq
  <2> QED
    BY <1>1, <1>3, <1>4, <1>5, <2>1
<1>6. CASE i > 1
  <2>1. i \in 2 .. Len(Queue(c)) /\ i - 1 \in 1 .. Len(Queue(c))
    BY <1>3, <1>6
  <2> DEFINE b == Queue(c)[i - 1]
  <2>2. b \in Calls /\ pc[b] \in {"queued"} \cup Holding
    BY <1>2, <1>3, <2>1, ElementOfSeq DEF MutexInv, QueueInv, Queue
  <2>3. previous[c] = b
    BY <1>2, <1>4, <2>1 DEF PromiseInv, Queue
  <2>4. b # NoCall /\ b \notin released
    BY <2>2, CallAssumption DEF PromiseInv, Settled, Holding
  <2> QED
    BY <1>1, <2>3, <2>4 DEF Fulfilled
<1> QED
  BY <1>3, <1>4, <1>5, <1>6

\* Each step keeps the facts about the mutex.
LEMMA StepMutex ==
    ASSUME TypeOK, MutexInv, PromiseInv, CallInv, [Next]_vars
    PROVE  MutexInv'
<1>1. ASSUME NEW c \in Calls, CallLoad(c) PROVE MutexInv'
  BY <1>1, MutexRead DEF CallLoad
<1>2. ASSUME NEW c \in Calls, CallAppend(c) PROVE MutexInv'
  BY <1>2, MutexJoin
<1>3. ASSUME NEW c \in Calls, Enter(c) PROVE MutexInv'
  BY <1>3, EnterFirst, MutexRead DEF Enter
<1>4. ASSUME NEW c \in Calls, InitLands(c) PROVE MutexInv'
  BY <1>4, MutexMove DEF InitLands, Holding
<1>5. ASSUME NEW c \in Calls, Reread(c) PROVE MutexInv'
  BY <1>5, MutexMove DEF Reread, Holding
<1>6. ASSUME NEW c \in Calls, CatReturns(c) PROVE MutexInv'
  BY <1>6, MutexMove DEF CatReturns, Holding
<1>7. ASSUME NEW c \in Calls, PutLands(c) PROVE MutexInv'
  BY <1>7, MutexLeave DEF PutLands, Holding, Settled
<1>8. ASSUME NEW c \in Calls, Fails(c) PROVE MutexInv'
  <2>1. Kind[c] = "append" => pc[c] \in Holding
    BY <1>8 DEF Fails, CallInv, Holding
  <2> QED
    BY <1>8, <2>1, MutexLeave DEF Fails, Broken, Settled
<1>9. ASSUME NEW c \in Calls, CallRestore(c) PROVE MutexInv'
  BY <1>9, MutexMove DEF CallRestore
<1>10. ASSUME NEW c \in Calls, RestoreLands(c) PROVE MutexInv'
  <2>1. Kind[c] # "append"
    BY <1>10 DEF RestoreLands, CallInv
  <2> QED
    BY <1>10, <2>1, MutexMove DEF RestoreLands
<1>11. ASSUME NEW c \in Calls, CallPublish(c) PROVE MutexInv'
  BY <1>11, MutexMove DEF CallPublish
<1>12. ASSUME NEW c \in Calls, PublishLands(c) PROVE MutexInv'
  <2>1. Kind[c] # "append"
    BY <1>12 DEF PublishLands, CallInv
  <2> QED
    BY <1>12, <2>1, MutexMove DEF PublishLands
<1>13. ASSUME NEW t \in Tabs, Show(t) PROVE MutexInv'
  BY <1>13 DEF Show, MutexInv, QueueInv, QueuedInv, Queue
<1>14. ASSUME NEW t \in Tabs, Reload(t) PROVE MutexInv'
  BY <1>14, MutexReload
<1>15. CASE UNCHANGED vars
  BY <1>15 DEF vars, MutexInv, QueueInv, QueuedInv, Queue
<1> QED
  BY <1>1, <1>2, <1>3, <1>4, <1>5, <1>6, <1>7, <1>8, <1>9, <1>10, <1>11, <1>12,
     <1>13, <1>14, <1>15 DEF Next, Resume

-----------------------------------------------------------------------------
(* The promise chain.                                                        *)

\* One chain: q are the calls in it, end its last promise, prev the promises
\* they await and done those resolved.
ChainOK(q, end, prev, done) ==
    /\ q = <<>> => end = NoCall \/ end \in done
    /\ q # <<>> => end = q[Len(q)] /\ (prev[q[1]] = NoCall \/ prev[q[1]] \in done)
    /\ \A i \in 2 .. Len(q) : prev[q[i]] = q[i - 1]

\* PromiseInv is that of every chain, and now of the next state.
LEMMA PromiseSplit ==
    /\ PromiseInv <=>
         /\ \A c \in released : pc[c] \in Settled
         /\ \A t \in Tabs, w \in Wallets :
              ChainOK(queue[t][w], tail[t][w], previous, released)
    /\ PromiseInv' <=>
         /\ \A c \in released' : pc'[c] \in Settled
         /\ \A t \in Tabs, w \in Wallets :
              ChainOK(queue'[t][w], tail'[t][w], previous', released')
BY DEF PromiseInv, ChainOK, Fulfilled

\* A chain stays as it is when promises are resolved, or others are awaited.
LEMMA ChainStays ==
    ASSUME NEW q \in Seq(Calls), NEW end, NEW prev, NEW done, NEW prev2, NEW done2,
           ChainOK(q, end, prev, done), done \subseteq done2,
           \A i \in 1 .. Len(q) : prev2[q[i]] = prev[q[i]]
    PROVE  ChainOK(q, end, prev2, done2)
<1>1. q # <<>> => 1 \in 1 .. Len(q)
  BY EmptySeq, LenProperties
<1>2. \A i \in 2 .. Len(q) : i \in 1 .. Len(q)
  BY LenProperties
<1> QED
  BY <1>1, <1>2 DEF ChainOK

\* Where no call comes, leaves or goes back, the chains stay.
LEMMA PromiseStays ==
    ASSUME PromiseInv, UNCHANGED mutex,
           \A c \in Calls : pc[c] \in Settled => pc'[c] \in Settled, TypeOK
    PROVE  PromiseInv'
BY DEF PromiseInv, Fulfilled, TypeOK

\* A call joins the chain: it awaits the last promise, and its own is the last.
LEMMA PromiseJoin ==
    ASSUME TypeOK, MutexInv, PromiseInv, NEW c \in Calls, CallAppend(c)
    PROVE  PromiseInv'
<1> DEFINE q == queue[TabOf[c]][WalletOf[c]]
<1>1. TabOf[c] \in Tabs /\ WalletOf[c] \in Wallets
  BY CallAssumption
<1>2. q \in Seq(Calls) /\ Len(q) \in Nat
  BY <1>1, LenProperties DEF TypeOK
<1>3. /\ Append(q, c) \in Seq(Calls) /\ Len(Append(q, c)) = Len(q) + 1
      /\ \A i \in 1 .. Len(q) : Append(q, c)[i] = q[i]
      /\ Append(q, c)[Len(q) + 1] = c
  BY <1>2, StoreAppend
<1>a. Append(q, c) # <<>>
  BY <1>2, <1>3, EmptySeq
<1>4. \A t \in Tabs, w \in Wallets :
          IF t = TabOf[c] /\ w = WalletOf[c]
          THEN queue'[t][w] = Append(q, c) /\ tail'[t][w] = c
          ELSE queue'[t][w] = queue[t][w] /\ tail'[t][w] = tail[t][w]
  BY <1>1 DEF CallAppend, TypeOK
<1>5. /\ pc[c] = "idle" /\ released' = released
      /\ \A d \in Calls : pc'[d] = IF d = c THEN "queued" ELSE pc[d]
      /\ \A d \in Calls : previous'[d] = IF d = c THEN tail[TabOf[c]][WalletOf[c]]
                                                  ELSE previous[d]
  BY DEF CallAppend, TypeOK
<1>6. \A t \in Tabs, w \in Wallets : \A i \in 1 .. Len(queue[t][w]) :
          queue[t][w][i] \in Calls \ {c}
  <2> TAKE t \in Tabs, w \in Wallets
  <2> TAKE i \in 1 .. Len(queue[t][w])
  <2>1. queue[t][w][i] \in Calls
    BY ElementOfSeq DEF TypeOK
  <2> QED
    BY <1>5, <2>1 DEF MutexInv, QueueInv, Holding
<1>7. \A d \in released' : pc'[d] \in Settled
  BY <1>5 DEF PromiseInv, TypeOK, Settled
<1>8. ASSUME NEW t \in Tabs, NEW w \in Wallets
      PROVE  ChainOK(queue'[t][w], tail'[t][w], previous', released')
  <2>1. ChainOK(queue[t][w], tail[t][w], previous, released)
    BY PromiseSplit
  <2>2. queue[t][w] \in Seq(Calls)
    BY DEF TypeOK
  <2>3. \A i \in 1 .. Len(queue[t][w]) : previous'[queue[t][w][i]] = previous[queue[t][w][i]]
    BY <1>5, <1>6
  <2>4. ChainOK(queue[t][w], tail[t][w], previous', released')
    BY <1>5, <2>1, <2>2, <2>3, ChainStays
  <2>5. CASE ~(t = TabOf[c] /\ w = WalletOf[c])
    BY <1>4, <2>4, <2>5
  <2>6. CASE t = TabOf[c] /\ w = WalletOf[c]
    <3>1. queue'[t][w] = Append(q, c) /\ tail'[t][w] = c /\ queue[t][w] = q
      BY <1>4, <2>6
    <3>2. previous'[c] = tail[t][w]
      BY <1>5, <2>6
    <3> DEFINE r == Append(q, c)
    <3>3. \A i \in 2 .. Len(r) : previous'[r[i]] = r[i - 1]
      <4> TAKE i \in 2 .. Len(r)
      <4>1. i - 1 \in 1 .. Len(q) /\ r[i - 1] = q[i - 1]
        BY <1>2, <1>3
      <4>2. CASE i = Len(q) + 1
        <5>1. q # <<>> /\ r[i] = c /\ q[i - 1] = q[Len(q)]
          BY <1>2, <1>3, <4>1, <4>2, EmptySeq
        <5> QED
          BY <2>4, <3>1, <3>2, <4>1, <5>1 DEF ChainOK
      <4>3. CASE i # Len(q) + 1
        <5>1. i \in 2 .. Len(q) /\ i \in 1 .. Len(q)
          <6>1. Len(r) = Len(q) + 1 /\ Len(q) \in Nat
            BY <1>2, <1>3
          <6> HIDE DEF q, r
          <6> QED
            BY <6>1, <4>3
        <5>2. r[i] = q[i]
          BY <1>3, <5>1
        <5> QED
          BY <2>4, <3>1, <4>1, <5>1, <5>2 DEF ChainOK
      <4> QED
        BY <4>2, <4>3
    <3>4. previous'[r[1]] = NoCall \/ previous'[r[1]] \in released'
      <4>1. CASE q = <<>>
        <5>1. r[1] = c
          BY <1>3, <4>1, EmptySeq
        <5> QED
          BY <2>4, <3>1, <3>2, <4>1, <5>1 DEF ChainOK
      <4>2. CASE q # <<>>
        <5>1. r[1] = q[1]
          BY <1>2, <1>3, <4>2, EmptySeq
        <5> QED
          BY <2>4, <3>1, <4>2, <5>1 DEF ChainOK
      <4> QED
        BY <4>1, <4>2
    <3>5. r # <<>> /\ r[Len(r)] = c
      BY <1>3, <1>a
    <3> HIDE DEF q, r
    <3> QED
      BY <3>1, <3>3, <3>4, <3>5 DEF ChainOK, r
  <2> QED
    BY <2>5, <2>6
<1> QED
  BY <1>7, <1>8, PromiseSplit

\* The first of the chain leaves it: its promise is the one the next awaits.
LEMMA PromiseLeave ==
    ASSUME TypeOK, MutexInv, PromiseInv, NEW c \in Calls, NEW x \in Settled, Release(c),
           pc' = [pc EXCEPT ![c] = x],
           Kind[c] = "append" => pc[c] \in Holding \/ (pc[c] = "queued" /\ Head(Queue(c)) = c)
    PROVE  PromiseInv'
<1> DEFINE q == Queue(c)
<1>0. \A d \in Calls : pc'[d] = IF d = c THEN x ELSE pc[d]
  BY DEF TypeOK
<1>1. CASE Kind[c] # "append"
  <2>1. UNCHANGED mutex
    BY <1>1, ReleaseType DEF Release, MutexInv
  <2> QED
    BY <1>0, <2>1, PromiseStays
<1>2. CASE Kind[c] = "append"
  <2>1. /\ TabOf[c] \in Tabs /\ WalletOf[c] \in Wallets
        /\ q \in Seq(Calls) /\ Len(q) \in Nat \ {0} /\ q[1] = c /\ q # <<>>
    BY <1>2, HolderFirst, EmptySeq
  <2>2. /\ Tail(q) \in Seq(Calls) /\ Len(Tail(q)) = Len(q) - 1
        /\ \A i \in 1 .. Len(Tail(q)) : Tail(q)[i] = q[i + 1]
    BY <2>1, HeadTailProperties
  <2>3. /\ \A t \in Tabs, w \in Wallets :
            queue'[t][w] = IF t = TabOf[c] /\ w = WalletOf[c] THEN Tail(q) ELSE queue[t][w]
        /\ released' = released \cup {c} /\ UNCHANGED <<tail, previous>>
    BY <1>2, <2>1 DEF Release, TypeOK, Queue
  <2>4. \A d \in released' : pc'[d] \in Settled
    BY <1>0, <2>3 DEF PromiseInv, TypeOK
  <2>5. ASSUME NEW t \in Tabs, NEW w \in Wallets
        PROVE  ChainOK(queue'[t][w], tail'[t][w], previous', released')
    <3>1. ChainOK(queue[t][w], tail[t][w], previous, released)
      BY PromiseSplit
    <3>2. queue[t][w] \in Seq(Calls)
      BY DEF TypeOK
    <3>3. ChainOK(queue[t][w], tail'[t][w], previous', released')
      BY <2>3, <3>1, <3>2, ChainStays
    <3>4. CASE ~(t = TabOf[c] /\ w = WalletOf[c])
      BY <2>3, <3>3, <3>4
    <3>5. CASE t = TabOf[c] /\ w = WalletOf[c]
      <4>1. queue'[t][w] = Tail(q) /\ queue[t][w] = q /\ c \in released'
        BY <2>3, <3>5 DEF Queue
      <4>2. tail'[t][w] = q[Len(q)] /\ (\A i \in 2 .. Len(q) : previous'[q[i]] = q[i - 1])
        BY <2>1, <3>3, <4>1 DEF ChainOK
      <4> HIDE DEF q
      <4>3. CASE Len(q) = 1
        <5>1. Tail(q) = <<>> /\ tail'[t][w] \in released'
          BY <2>1, <2>2, <4>1, <4>2, <4>3, EmptySeq
        <5>2. Len(Tail(q)) = 0
          BY <2>2, <4>3
        <5> QED
          BY <4>1, <5>1, <5>2 DEF ChainOK
      <4>4. CASE Len(q) # 1
        <5> DEFINE r == Tail(q)
        <5>a. Len(r) \in Nat \ {0} /\ Len(r) + 1 = Len(q)
          BY <2>1, <2>2, <4>4
        <5>b. 1 \in 1 .. Len(r) /\ Len(r) \in 1 .. Len(r) /\ 2 \in 2 .. Len(q)
          <6> HIDE DEF r
          <6> QED
            BY <2>1, <5>a
        <5>c. r[1] = q[1 + 1] /\ r[Len(r)] = q[Len(r) + 1]
          BY <2>2, <5>b
        <5>1. r # <<>> /\ r[1] = q[2] /\ r[Len(r)] = q[Len(q)]
          <6>1. r # <<>>
            BY <2>2, <5>a, EmptySeq
          <6>2. 1 + 1 = 2
            OBVIOUS
          <6> HIDE DEF r
          <6> QED
            BY <5>a, <5>c, <6>1, <6>2
        <5>2. previous'[r[1]] = c
          BY <2>1, <4>2, <5>b, <5>1
        <5>3. ASSUME NEW i \in 2 .. Len(r) PROVE previous'[r[i]] = r[i - 1]
          <6>1. i + 1 \in 2 .. Len(q) /\ r[i] = q[i + 1] /\ r[i - 1] = q[i]
            BY <2>1, <2>2, <5>a
          <6>2. (i + 1) - 1 = i
            OBVIOUS
          <6> QED
            BY <4>2, <6>1, <6>2
        <5> HIDE DEF r
        <5> QED
          BY <4>1, <4>2, <5>1, <5>2, <5>3 DEF ChainOK, r
      <4> QED
        BY <4>3, <4>4
    <3> QED
      BY <3>4, <3>5
  <2> QED
    BY <2>4, <2>5, PromiseSplit
<1> QED
  BY <1>1, <1>2

\* A reload begins a new chain in each mutex of its tab.
LEMMA PromiseReload ==
    ASSUME TypeOK, PromiseInv, NEW t \in Tabs, Reload(t)
    PROVE  PromiseInv'
<1>1. /\ released' = released /\ previous' = previous
      /\ \A u \in Tabs, w \in Wallets :
           /\ queue'[u][w] = IF u = t THEN <<>> ELSE queue[u][w]
           /\ tail'[u][w] = IF u = t THEN NoCall ELSE tail[u][w]
  BY DEF Reload, TypeOK
<1>2. \A d \in released' : pc'[d] \in Settled
  BY DEF Reload, PromiseInv, TypeOK, Pending, Settled
<1>3. ASSUME NEW u \in Tabs, NEW w \in Wallets
      PROVE  ChainOK(queue'[u][w], tail'[u][w], previous', released')
  <2>1. ChainOK(queue[u][w], tail[u][w], previous, released)
    BY PromiseSplit
  <2>2. ChainOK(<<>>, NoCall, previous, released)
    BY EmptySeq DEF ChainOK
  <2> QED
    BY <1>1, <2>1, <2>2
<1> QED
  BY <1>2, <1>3, PromiseSplit

\* Each step keeps the promise chain.
LEMMA StepPromise ==
    ASSUME TypeOK, MutexInv, PromiseInv, CallInv, [Next]_vars
    PROVE  PromiseInv'
<1>1. ASSUME NEW c \in Calls, NEW h, ReadPointer(c, h), pc[c] \notin Settled,
             Kind[c] = "append" => pc[c] = "queued" /\ Head(Queue(c)) = c
      PROVE  PromiseInv'
  <2>1. CASE Release(c) /\ pc' = [pc EXCEPT ![c] = "refused"]
    BY <1>1, <2>1, PromiseLeave DEF Settled
  <2>2. CASE UNCHANGED mutex /\ \E x \in {"cat", "init"} : pc' = [pc EXCEPT ![c] = x]
    BY <1>1, <2>2, PromiseStays DEF TypeOK
  <2> QED
    BY <1>1, <2>1, <2>2 DEF ReadPointer
<1>2. ASSUME NEW c \in Calls, CallLoad(c) PROVE PromiseInv'
  BY <1>1, <1>2 DEF CallLoad, Settled
<1>3. ASSUME NEW c \in Calls, CallAppend(c) PROVE PromiseInv'
  BY <1>3, PromiseJoin
<1>4. ASSUME NEW c \in Calls, Enter(c) PROVE PromiseInv'
  BY <1>1, <1>4, EnterFirst DEF Enter, Settled
<1>5. ASSUME NEW c \in Calls, PutLands(c) PROVE PromiseInv'
  BY <1>5, PromiseLeave DEF PutLands, Holding, Settled
<1>6. ASSUME NEW c \in Calls, Fails(c) PROVE PromiseInv'
  <2>1. Kind[c] = "append" => pc[c] \in Holding
    BY <1>6 DEF Fails, CallInv, Holding
  <2> QED
    BY <1>6, <2>1, PromiseLeave DEF Fails, Broken, Settled
<1>7. ASSUME NEW c \in Calls,
             \/ InitLands(c) \/ Reread(c) \/ CatReturns(c) \/ RestoreLands(c)
             \/ PublishLands(c) \/ CallRestore(c) \/ CallPublish(c)
      PROVE  PromiseInv'
  <2>1. PICK x : pc' = [pc EXCEPT ![c] = x] /\ (pc[c] \in Settled => x \in Settled)
    BY <1>7 DEF InitLands, Reread, CatReturns, RestoreLands, PublishLands, CallRestore,
                CallPublish, Settled
  <2>2. UNCHANGED mutex
    BY <1>7 DEF InitLands, Reread, CatReturns, RestoreLands, PublishLands, CallRestore,
                CallPublish
  <2> QED
    BY <2>1, <2>2, PromiseStays DEF TypeOK
<1>8. ASSUME NEW t \in Tabs, Show(t) PROVE PromiseInv'
  BY <1>8, PromiseStays DEF Show
<1>9. ASSUME NEW t \in Tabs, Reload(t) PROVE PromiseInv'
  BY <1>9, PromiseReload
<1>10. CASE UNCHANGED vars
  BY <1>10, PromiseStays DEF vars
<1> QED
  BY <1>2, <1>3, <1>4, <1>5, <1>6, <1>7, <1>8, <1>9, <1>10 DEF Next, Resume

-----------------------------------------------------------------------------
\* The store only grows: what a CID designates never changes.
LEMMA StepStore ==
    ASSUME TypeOK, CallInv, [Next]_vars
    PROVE  /\ store' \in Seq(Objects) /\ Len(store) \in Nat /\ Len(store') \in Nat
           /\ Len(store) <= Len(store')
           /\ \A i \in 1 .. Len(store) : store'[i] = store[i]
<1>1. CASE \E c \in Calls : InitLands(c) \/ PutLands(c) \/ Fails(c)
  BY <1>1, StepUploads, UploadGrows
<1>2. CASE UNCHANGED store
  BY <1>2, LenProperties DEF TypeOK, Objects, Entries
<1> QED
  BY <1>1, <1>2 DEF Next, Resume, CallLoad, CallAppend, CallRestore, CallPublish, Enter,
     Reread, CatReturns, RestoreLands, PublishLands, Show, Reload, vars

\* A wallet whose pointer may come from another registry is never cleared.
LEMMA ForeignGrows ==
    ASSUME [Next]_vars
    PROVE  foreign \subseteq foreign'
<1>1. ASSUME NEW c \in Calls, CallRestore(c) PROVE foreign \subseteq foreign'
  BY <1>1 DEF CallRestore
<1>2. CASE UNCHANGED foreign
  BY <1>2
<1> QED
  BY <1>1, <1>2 DEF Next, Resume, CallLoad, CallAppend, CallPublish, Enter, InitLands,
     Reread, CatReturns, PutLands, RestoreLands, PublishLands, Fails, Show, Reload, vars

\* A CID that designates a manifest of a wallet always will.
LEMMA DesignatesStays ==
    ASSUME TypeOK, CallInv, [Next]_vars, NEW cid, NEW w, Designates(foreign, store, cid, w)
    PROVE  Designates(foreign', store', cid, w)
<1>1. store \in Seq(Objects)
  BY DEF TypeOK, Objects, Entries
<1>2. DOMAIN store = 1 .. Len(store) /\ DOMAIN store' = 1 .. Len(store')
  BY <1>1, StepStore, LenProperties
<1>3. cid \in DOMAIN store' /\ store'[cid] = store[cid]
  BY <1>2, StepStore DEF Designates
<1> QED
  BY <1>3, ForeignGrows DEF Designates

\* The CID of the object a call uploads designates a manifest of its wallet.
LEMMA UploadDesignates ==
    ASSUME TypeOK, NEW c \in Calls, NEW es, Object(c, es) \in Objects,
           store' = Append(store, Object(c, es))
    PROVE  Designates(foreign', store', Len(store'), WalletOf[c]) /\ Len(store') # NoCid
<1>1. /\ store' \in Seq(Objects) /\ Len(store) \in Nat /\ Len(store') = Len(store) + 1
      /\ store'[Len(store')] = Object(c, es)
  BY GrowTyped
<1>2. Len(store') \in DOMAIN store'
  BY <1>1, LenProperties
<1> QED
  BY <1>1, <1>2 DEF Designates, Object, NoCid

\* What a call with a base may upload.
LEMMA PutObject ==
    ASSUME TypeOK, CallInv, NEW c \in Calls, pc[c] = "put"
    PROVE  Object(c, Merge(store[base[c]].entries, EntryOf[c])) \in Objects
BY BaseEntries DEF CallInv, Designates

\* A pointer that moves moves to a manifest of its wallet, never to null.
LEMMA PointerMoves ==
    ASSUME TypeOK, CallInv, [Next]_vars, NEW d \in Devices, NEW w \in Wallets
    PROVE  \/ ptr'[d][w] = ptr[d][w]
           \/ ptr'[d][w] # NoCid /\ Designates(foreign', store', ptr'[d][w], w)
<1> DEFINE Sets(c, x) == ptr' = [ptr EXCEPT ![Dev(c)][WalletOf[c]] = x]
<1>1. ASSUME NEW c \in Calls, NEW x, Sets(c, x), x # NoCid, Designates(foreign', store', x, WalletOf[c])
      PROVE  \/ ptr'[d][w] = ptr[d][w]
             \/ ptr'[d][w] # NoCid /\ Designates(foreign', store', ptr'[d][w], w)
  <2>1. ptr' = [ptr EXCEPT ![Dev(c)][WalletOf[c]] = x]
    BY <1>1
  <2>2. CASE d = Dev(c) /\ w = WalletOf[c]
    <3>1. ptr'[d][w] = x
      BY <2>1, <2>2 DEF TypeOK
    <3> QED
      BY <1>1, <2>2, <3>1
  <2>3. CASE ~(d = Dev(c) /\ w = WalletOf[c])
    BY <2>1, <2>3 DEF TypeOK
  <2> QED
    BY <2>2, <2>3
<1>2. ASSUME NEW c \in Calls, InitLands(c)
      PROVE  Sets(c, Len(store')) /\ Len(store') # NoCid /\ Designates(foreign', store', Len(store'), WalletOf[c])
  BY <1>2, EmptyObject, UploadDesignates DEF InitLands, SetPointer
<1>3. ASSUME NEW c \in Calls, PutLands(c)
      PROVE  Sets(c, Len(store')) /\ Len(store') # NoCid /\ Designates(foreign', store', Len(store'), WalletOf[c])
  BY <1>3, PutObject, UploadDesignates DEF PutLands, SetPointer
<1>4. ASSUME NEW c \in Calls, RestoreLands(c)
      PROVE  Sets(c, base[c]) /\ base[c] # NoCid /\ Designates(foreign', store', base[c], WalletOf[c])
  <2>1. Designates(foreign, store, base[c], WalletOf[c])
    BY <1>4 DEF RestoreLands, CallInv
  <2>2. base[c] # NoCid
    BY <2>1, LenProperties DEF Designates, TypeOK, NoCid
  <2> QED
    BY <1>4, <2>1, <2>2, DesignatesStays DEF RestoreLands
<1>5. CASE UNCHANGED ptr
  BY <1>5
<1> QED
  BY <1>1, <1>2, <1>3, <1>4, <1>5 DEF Next, Resume, CallLoad, CallAppend, CallRestore,
     CallPublish, Enter, Reread, CatReturns, PublishLands, Fails, Show, Reload, vars

\* Each step keeps the pointers, local and on-chain, on manifests of their wallet.
LEMMA StepPointers ==
    ASSUME TypeOK, CallInv, PointersDesignate, [Next]_vars
    PROVE  PointersDesignate'
<1> SUFFICES ASSUME NEW w \in Wallets
             PROVE  /\ \A d \in Devices : ptr'[d][w] # NoCid => Designates(foreign', store', ptr'[d][w], w)
                    /\ \A t \in Tabs : shown'[t][w] # NoCid => Designates(foreign', store', shown'[t][w], w)
                    /\ \A i \in DOMAIN chain'[w] : Designates(foreign', store', chain'[w][i], w)
  BY DEF PointersDesignate
<1>1. ASSUME NEW d \in Devices, ptr'[d][w] # NoCid PROVE Designates(foreign', store', ptr'[d][w], w)
  <2>1. CASE ptr'[d][w] = ptr[d][w]
    BY <1>1, <2>1, DesignatesStays DEF PointersDesignate
  <2> QED
    BY <1>1, <2>1, PointerMoves
<1>2. ASSUME NEW i \in DOMAIN chain'[w] PROVE Designates(foreign', store', chain'[w][i], w)
  <2>1. CASE \E c \in Calls : PublishLands(c) /\ w = WalletOf[c]
    <3>1. PICK c \in Calls : PublishLands(c) /\ w = WalletOf[c]
      BY <2>1
    <3>2. chain'[w] = Append(chain[w], base[c]) /\ chain[w] \in Seq(1 .. Len(store))
      BY <3>1 DEF PublishLands, TypeOK
    <3>3. Designates(foreign, store, base[c], w)
      BY <3>1 DEF PublishLands, CallInv
    <3>4. Designates(foreign', store', base[c], w)
      BY <3>3, DesignatesStays
    <3>5. CASE i \in DOMAIN chain[w]
      <4>1. chain'[w][i] = chain[w][i]
        BY <3>2, <3>5
      <4> QED
        BY <3>5, <4>1, DesignatesStays DEF PointersDesignate
    <3>6. CASE i \notin DOMAIN chain[w]
      <4>1. chain'[w][i] = base[c]
        BY <1>2, <3>2, <3>6
      <4> QED
        BY <3>4, <4>1
    <3> QED
      BY <3>5, <3>6
  <2>2. CASE chain'[w] = chain[w]
    BY <1>2, <2>2, DesignatesStays DEF PointersDesignate
  <2>3. chain'[w] = chain[w] \/ \E c \in Calls : PublishLands(c) /\ w = WalletOf[c]
    BY DEF Next, Resume, CallLoad, CallAppend, CallRestore, CallPublish, Enter, InitLands,
       Reread, CatReturns, PutLands, RestoreLands, PublishLands, Fails, Show, Reload, vars, TypeOK
  <2> QED
    BY <2>1, <2>2, <2>3
<1>3. ASSUME NEW t \in Tabs, shown'[t][w] # NoCid PROVE Designates(foreign', store', shown'[t][w], w)
  <2>1. DeviceOf[t] \in Devices
    BY CallAssumption
  <2>2. ASSUME NEW c \in Calls, NEW x, SetPointer(c, x)
        PROVE  shown'[t] = shown[t] \/ shown'[t] = ptr'[DeviceOf[t]]
    BY <2>2 DEF SetPointer, TypeOK, Dev
  <2>5. ASSUME NEW c \in Calls, RestoreLands(c)
        PROVE  \/ shown'[t][w] = shown[t][w]
               \/ shown'[t][w] = ptr'[DeviceOf[t]][w]
               \/ Designates(foreign', store', shown'[t][w], w)
    <3>1. PICK u \in Wallets :
              /\ shown' = [shown EXCEPT ![TabOf[c]] = [ptr'[Dev(c)] EXCEPT ![u] = base[c]]]
              /\ foreign' = IF u = WalletOf[c] THEN foreign ELSE foreign \cup {u}
      BY <2>5 DEF RestoreLands
    <3>2. CASE t # TabOf[c]
      BY <3>1, <3>2 DEF TypeOK
    <3>3. CASE t = TabOf[c]
      <4>1. shown'[t] = [ptr'[Dev(c)] EXCEPT ![u] = base[c]]
        BY <3>1, <3>3 DEF TypeOK
      <4>2. CASE w # u
        BY <3>3, <4>1, <4>2 DEF Dev
      <4>3. CASE w = u
        <5>1. ptr' = [ptr EXCEPT ![Dev(c)][WalletOf[c]] = base[c]]
          BY <2>5 DEF RestoreLands
        <5>2. DeviceOf[t] = Dev(c) /\ w \in DOMAIN ptr'[Dev(c)]
          BY <2>1, <3>3, <5>1 DEF Dev, TypeOK
        <5>3. shown'[t][w] = base[c]
          BY <4>1, <4>3, <5>2
        <5>4. Designates(foreign, store, base[c], WalletOf[c])
          BY <2>5 DEF RestoreLands, CallInv
        <5>5. Designates(foreign', store', base[c], WalletOf[c])
          BY <5>4, DesignatesStays
        <5>6. w \notin foreign' => w = WalletOf[c]
          BY <3>1, <4>3
        <5>7. Designates(foreign', store', base[c], w)
          BY <5>5, <5>6 DEF Designates
        <5> QED
          BY <5>3, <5>7
      <4> QED
        BY <4>2, <4>3
    <3> QED
      BY <3>2, <3>3
  <2>3. \/ shown'[t][w] = shown[t][w]
        \/ shown'[t][w] = ptr'[DeviceOf[t]][w]
        \/ Designates(foreign', store', shown'[t][w], w)
    <3>1. shown \in [Tabs -> [Wallets -> Cids]]
      BY DEF TypeOK
    <3> QED
      BY <2>2, <2>5, <3>1 DEF Next, Resume, CallLoad, CallAppend, CallRestore, CallPublish, Enter, InitLands,
       Reread, CatReturns, PutLands, PublishLands, Fails, Show, Reload, vars
  <2>4. shown'[t][w] = shown[t][w] => Designates(foreign', store', shown'[t][w], w)
    BY <1>3, DesignatesStays DEF PointersDesignate
  <2> QED
    BY <1>1, <1>3, <2>1, <2>3, <2>4
<1> QED
  BY <1>1, <1>2, <1>3

-----------------------------------------------------------------------------
\* CallInv, one call at a time.
CallOK(f, p, b, r, s, c) ==
    /\ p[c] \in {"queued", "reread", "put"} => Kind[c] = "append"
    /\ p[c] \in {"init", "cat"} => Kind[c] \in {"load", "append"}
    /\ p[c] \in {"cat", "put", "import", "send", "late"} => Designates(f, s, b[c], WalletOf[c])
    /\ p[c] = "import" => Kind[c] = "restore"
    /\ p[c] \in {"send", "late"} => Kind[c] = "publish"
    /\ p[c] = "reread" => r[Dev(c)][WalletOf[c]] # NoCid

\* CallInv, one call at a time.
LEMMA CallInvSplit ==
    /\ CallInv <=> \A c \in Calls : CallOK(foreign, pc, base, ptr, store, c)
    /\ CallInv' <=> \A c \in Calls : CallOK(foreign', pc', base', ptr', store', c)
BY DEF CallInv, CallOK, Pointer

\* A call stays where it is, or its transaction outlives it.
LateOrSame(c) == pc'[c] = pc[c] \/ (pc[c] = "send" /\ pc'[c] = "late")

\* A call that does not move, settles or is late keeps what it relies on.
LEMMA CallStays ==
    ASSUME TypeOK, CallInv, [Next]_vars, NEW c \in Calls,
           \/ base'[c] = base[c] /\ LateOrSame(c)
           \/ pc'[c] \in {"idle"} \cup (Settled \ {"late"})
    PROVE  CallOK(foreign', pc', base', ptr', store', c)
<1>1. CASE pc'[c] \in {"idle"} \cup (Settled \ {"late"})
  BY <1>1 DEF CallOK, Settled
<1>2. CASE base'[c] = base[c] /\ LateOrSame(c)
  <2>1. CallOK(foreign, pc, base, ptr, store, c)
    BY CallInvSplit
  <2>2. ptr[Dev(c)][WalletOf[c]] # NoCid => ptr'[Dev(c)][WalletOf[c]] # NoCid
    BY PointerMoves, CallAssumption DEF Dev
  <2>3. Designates(foreign, store, base[c], WalletOf[c]) => Designates(foreign', store', base[c], WalletOf[c])
    BY DesignatesStays
  <2> QED
    BY <1>2, <2>1, <2>2, <2>3 DEF CallOK, LateOrSame
<1> QED
  BY <1>1, <1>2

\* A step of one call leaves the others where they are.
LEMMA OneCallMoves ==
    ASSUME TypeOK, NEW c \in Calls, NEW x, pc' = [pc EXCEPT ![c] = x],
           base' = base \/ \E y : base' = [base EXCEPT ![c] = y]
    PROVE  \A d \in Calls \ {c} : pc'[d] = pc[d] /\ base'[d] = base[d]
BY DEF TypeOK

\* A call that read its pointer holds a manifest of its wallet.
LEMMA ReadPointerCall ==
    ASSUME TypeOK, CallInv, PointersDesignate, [Next]_vars, NEW c \in Calls, NEW h,
           ReadPointer(c, h), Kind[c] \in {"load", "append"}
    PROVE  CallOK(foreign', pc', base', ptr', store', c)
<1>1. Pointer(c) # NoCid => Designates(foreign, store, Pointer(c), WalletOf[c])
  BY CallAssumption DEF PointersDesignate, Pointer, Dev
<1>2. Pointer(c) # NoCid => Designates(foreign', store', Pointer(c), WalletOf[c])
  BY <1>1, DesignatesStays
<1>3. pc'[c] \in {"cat", "refused", "init"} /\ (pc'[c] = "cat" => Pointer(c) # NoCid /\ base'[c] = Pointer(c))
  BY DEF ReadPointer, TypeOK
<1> QED
  BY <1>2, <1>3 DEF CallOK

\* Each step keeps what the suspended calls rely on.
LEMMA StepCall ==
    ASSUME TypeOK, CallInv, PointersDesignate, [Next]_vars
    PROVE  CallInv'
<1> SUFFICES ASSUME NEW d \in Calls PROVE CallOK(foreign', pc', base', ptr', store', d)
  BY CallInvSplit
<1>1. ASSUME NEW c \in Calls, CallLoad(c) PROVE CallOK(foreign', pc', base', ptr', store', d)
  <2>1. PICK h \in KnownHeads : ReadPointer(c, h)
    BY <1>1 DEF CallLoad
  <2>2. CallOK(foreign', pc', base', ptr', store', c)
    BY <1>1, <2>1, ReadPointerCall DEF CallLoad
  <2>3. d # c => pc'[d] = pc[d] /\ base'[d] = base[d]
    BY <2>1, OneCallMoves DEF ReadPointer
  <2> QED
    BY <2>2, <2>3, CallStays DEF LateOrSame
<1>2. ASSUME NEW c \in Calls, CallAppend(c) PROVE CallOK(foreign', pc', base', ptr', store', d)
  <2>1. CallOK(foreign', pc', base', ptr', store', c)
    BY <1>2 DEF CallAppend, CallOK, TypeOK
  <2>2. d # c => pc'[d] = pc[d] /\ base'[d] = base[d]
    BY <1>2, OneCallMoves DEF CallAppend
  <2> QED
    BY <2>1, <2>2, CallStays DEF LateOrSame
<1>3. ASSUME NEW c \in Calls, Enter(c) PROVE CallOK(foreign', pc', base', ptr', store', d)
  <2>1. Kind[c] = "append"
    BY <1>3 DEF Enter, CallInv
  <2>2. CallOK(foreign', pc', base', ptr', store', c)
    BY <1>3, <2>1, ReadPointerCall DEF Enter
  <2>3. d # c => pc'[d] = pc[d] /\ base'[d] = base[d]
    BY <1>3, OneCallMoves DEF Enter, ReadPointer
  <2> QED
    BY <2>2, <2>3, CallStays DEF LateOrSame
<1>4. ASSUME NEW c \in Calls, InitLands(c) PROVE CallOK(foreign', pc', base', ptr', store', d)
  <2>1. ptr'[Dev(c)][WalletOf[c]] = Len(store') /\ Len(store') # NoCid
    BY <1>4, EmptyObject, UploadDesignates, CallAssumption DEF InitLands, SetPointer, TypeOK, Dev
  <2>2. CallOK(foreign', pc', base', ptr', store', c)
    BY <1>4, <2>1 DEF InitLands, CallOK, TypeOK
  <2>3. d # c => pc'[d] = pc[d] /\ base'[d] = base[d]
    BY <1>4, OneCallMoves DEF InitLands
  <2> QED
    BY <2>2, <2>3, CallStays DEF LateOrSame
<1>5. ASSUME NEW c \in Calls, Reread(c) PROVE CallOK(foreign', pc', base', ptr', store', d)
  <2>1. Pointer(c) # NoCid /\ Kind[c] = "append"
    BY <1>5 DEF Reread, CallInv
  <2>2. Designates(foreign, store, Pointer(c), WalletOf[c])
    BY <2>1, CallAssumption DEF PointersDesignate, Pointer, Dev
  <2>3. CallOK(foreign', pc', base', ptr', store', c)
    BY <1>5, <2>1, <2>2 DEF Reread, CallOK, TypeOK
  <2>4. d # c => pc'[d] = pc[d] /\ base'[d] = base[d]
    BY <1>5, OneCallMoves DEF Reread
  <2> QED
    BY <2>3, <2>4, CallStays DEF LateOrSame
<1>6. ASSUME NEW c \in Calls, CatReturns(c) PROVE CallOK(foreign', pc', base', ptr', store', d)
  <2>1. CallOK(foreign', pc', base', ptr', store', c)
    BY <1>6 DEF CatReturns, CallOK, CallInv, TypeOK
  <2>2. d # c => pc'[d] = pc[d] /\ base'[d] = base[d]
    BY <1>6, OneCallMoves DEF CatReturns
  <2> QED
    BY <2>1, <2>2, CallStays DEF LateOrSame
<1>7. ASSUME NEW c \in Calls, PutLands(c) PROVE CallOK(foreign', pc', base', ptr', store', d)
  BY <1>7, CallStays, OneCallMoves DEF PutLands, TypeOK, Settled, LateOrSame
<1>8. ASSUME NEW c \in Calls, Fails(c) PROVE CallOK(foreign', pc', base', ptr', store', d)
  BY <1>8, CallStays, OneCallMoves DEF Fails, Broken, TypeOK, Settled, LateOrSame
<1>9. ASSUME NEW c \in Calls, CallRestore(c) PROVE CallOK(foreign', pc', base', ptr', store', d)
  <2>1. PICK h \in KnownHeads \ {NoCid} :
            /\ base' = [base EXCEPT ![c] = h]
            /\ foreign' = IF h \in Range(chain[WalletOf[c]]) THEN foreign
                          ELSE foreign \cup {WalletOf[c]}
    BY <1>9 DEF CallRestore
  <2>2. Designates(foreign', store, h, WalletOf[c])
    <3>1. CASE h \in Range(chain[WalletOf[c]])
      BY <2>1, <3>1, CallAssumption DEF PointersDesignate, Range
    <3>2. CASE h \notin Range(chain[WalletOf[c]])
      BY <2>1, <3>2, KnownHeadType DEF Designates
    <3> QED
      BY <3>1, <3>2
  <2>3. CallOK(foreign', pc', base', ptr', store', c)
    BY <1>9, <2>1, <2>2 DEF CallRestore, CallOK, TypeOK
  <2>4. d # c => pc'[d] = pc[d] /\ base'[d] = base[d]
    BY <1>9, <2>1, OneCallMoves DEF CallRestore
  <2> QED
    BY <2>3, <2>4, CallStays DEF LateOrSame
<1>10. ASSUME NEW c \in Calls, RestoreLands(c) PROVE CallOK(foreign', pc', base', ptr', store', d)
  BY <1>10, CallStays, OneCallMoves DEF RestoreLands, TypeOK, Settled, LateOrSame
<1>11. ASSUME NEW c \in Calls, CallPublish(c) PROVE CallOK(foreign', pc', base', ptr', store', d)
  <2>1. CASE d # c
    BY <1>11, <2>1, CallStays, OneCallMoves DEF CallPublish, LateOrSame
  <2>2. CASE d = c
    <3>1. Designates(foreign, store, shown[TabOf[c]][WalletOf[c]], WalletOf[c])
      BY <1>11, CallAssumption DEF CallPublish, PointersDesignate
    <3> QED
      BY <1>11, <2>2, <3>1 DEF CallPublish, CallOK, TypeOK
  <2> QED
    BY <2>1, <2>2
<1>12. ASSUME NEW c \in Calls, PublishLands(c) PROVE CallOK(foreign', pc', base', ptr', store', d)
  BY <1>12, CallStays, OneCallMoves DEF PublishLands, TypeOK, Settled, LateOrSame
<1>13. ASSUME NEW t \in Tabs, Show(t) PROVE CallOK(foreign', pc', base', ptr', store', d)
  BY <1>13, CallStays DEF Show, LateOrSame
<1>14. ASSUME NEW t \in Tabs, Reload(t) PROVE CallOK(foreign', pc', base', ptr', store', d)
  BY <1>14, CallStays DEF Reload, Broken, Settled, LateOrSame
<1>15. CASE UNCHANGED vars
  BY <1>15, CallStays DEF vars, LateOrSame
<1> QED
  BY <1>1, <1>2, <1>3, <1>4, <1>5, <1>6, <1>7, <1>8, <1>9, <1>10, <1>11, <1>12,
     <1>13, <1>14, <1>15 DEF Next, Resume

-----------------------------------------------------------------------------
\* Merge keeps a list free of duplicates, extends it, and holds the new entry.
LEMMA MergeProperties ==
    ASSUME NEW es \in Seq(Entries), NEW e \in Entries
    PROVE  /\ Extends(es, Merge(es, e))
           /\ Has(Merge(es, e), e)
           /\ \A f \in Entries : Has(es, f) => Has(Merge(es, e), f)
           /\ (\A i, j \in DOMAIN es : Same(es[i], es[j]) => i = j) =>
                 \A i, j \in DOMAIN Merge(es, e) : Same(Merge(es, e)[i], Merge(es, e)[j]) => i = j
<1>0. DOMAIN es = 1 .. Len(es) /\ Len(es) \in Nat
  BY LenProperties
<1>1. CASE Has(es, e)
  BY <1>0, <1>1 DEF Merge, Extends
<1>2. CASE ~Has(es, e)
  <2>1. Merge(es, e) = Append(es, e)
    BY <1>2 DEF Merge
  <2>2. /\ Append(es, e) \in Seq(Entries) /\ Len(Append(es, e)) = Len(es) + 1
        /\ \A i \in 1 .. Len(es) : Append(es, e)[i] = es[i]
        /\ Append(es, e)[Len(es) + 1] = e
    BY StoreAppend
  <2>3. DOMAIN Append(es, e) = 1 .. Len(es) + 1
    BY <2>2, LenProperties
  <2>4. Extends(es, Append(es, e))
    BY <1>0, <2>2 DEF Extends
  <2>5. Has(Append(es, e), e)
    BY <1>0, <2>2, <2>3 DEF Has, Same
  <2>6. \A f \in Entries : Has(es, f) => Has(Append(es, e), f)
    BY <1>0, <2>2, <2>3 DEF Has
  <2>7. ASSUME \A i, j \in DOMAIN es : Same(es[i], es[j]) => i = j,
               NEW i \in 1 .. Len(es) + 1, NEW j \in 1 .. Len(es) + 1,
               Same(Append(es, e)[i], Append(es, e)[j])
        PROVE  i = j
    <3>1. \A k \in 1 .. Len(es) : ~Same(es[k], e) /\ ~Same(e, es[k])
      BY <1>0, <1>2 DEF Has, Same
    <3>2. i \in 1 .. Len(es) \/ i = Len(es) + 1
      BY <1>0
    <3>3. j \in 1 .. Len(es) \/ j = Len(es) + 1
      BY <1>0
    <3> QED
      BY <1>0, <2>2, <2>7, <3>1, <3>2, <3>3
  <2> QED
    BY <2>1, <2>3, <2>4, <2>5, <2>6, <2>7
<1> QED
  BY <1>1, <1>2

\* The list a stored object holds.
LEMMA StoredEntries ==
    ASSUME TypeOK, NEW n \in DOMAIN store
    PROVE  store[n].entries \in Seq(Entries)
<1>1. store \in Seq(Objects)
  BY DEF TypeOK, Objects, Entries
<1>2. store[n] \in Objects
  BY <1>1, LenProperties, ElementOfSeq
<1> QED
  BY <1>2 DEF Objects

Unique(es) == \A i, j \in DOMAIN es : Same(es[i], es[j]) => i = j

\* Each step keeps every manifest free of duplicates.
LEMMA StepNoDuplicate ==
    ASSUME TypeOK, CallInv, NoDuplicateEntry, [Next]_vars
    PROVE  NoDuplicateEntry'
<1>0. store \in Seq(Objects) /\ DOMAIN store = 1 .. Len(store) /\ Len(store) \in Nat
  BY LenProperties DEF TypeOK, Objects, Entries
<1>1. ASSUME NEW c \in Calls, NEW es \in Seq(Entries), Unique(es),
             store' = Append(store, Object(c, es))
      PROVE  NoDuplicateEntry'
  <2>1. Object(c, es) \in Objects
    BY ObjectType
  <2>2. /\ store' \in Seq(Objects) /\ Len(store') = Len(store) + 1
        /\ \A n \in 1 .. Len(store) : store'[n] = store[n]
        /\ store'[Len(store')] = Object(c, es)
    BY <1>1, <2>1, GrowTyped
  <2>3. DOMAIN store' = 1 .. Len(store) + 1
    BY <2>2, LenProperties
  <2>4. \A n \in DOMAIN store' : Unique(store'[n].entries)
    BY <1>0, <1>1, <2>2, <2>3 DEF NoDuplicateEntry, Unique, Object
  <2> QED
    BY <2>4 DEF NoDuplicateEntry, Unique
<1>2. <<>> \in Seq(Entries) /\ Unique(<<>>)
  BY EmptySeq DEF Unique
<1>3. ASSUME NEW c \in Calls, pc[c] = "put"
      PROVE  /\ Merge(store[base[c]].entries, EntryOf[c]) \in Seq(Entries)
             /\ Unique(Merge(store[base[c]].entries, EntryOf[c]))
  <2>1. base[c] \in DOMAIN store
    BY <1>3 DEF CallInv, Designates
  <2>2. store[base[c]].entries \in Seq(Entries) /\ EntryOf[c] \in Entries
    BY <2>1, StoredEntries, EntryType
  <2> QED
    BY <2>1, <2>2, MergeType, MergeProperties DEF NoDuplicateEntry, Unique
<1>4. CASE UNCHANGED store
  BY <1>4 DEF NoDuplicateEntry
<1> QED
  BY <1>1, <1>2, <1>3, <1>4 DEF Next, Resume, CallLoad, CallAppend, CallRestore, CallPublish,
     Enter, InitLands, Reread, CatReturns, PutLands, RestoreLands, PublishLands, Fails, Show,
     Reload, vars

-----------------------------------------------------------------------------
\* A pointer only moves when a call of that device and wallet lands.
LEMMA PointerWriter ==
    ASSUME TypeOK, [Next]_vars, NEW d \in Devices, NEW w \in Wallets,
           ptr'[d][w] # ptr[d][w]
    PROVE  \E c \in Calls : /\ Dev(c) = d /\ WalletOf[c] = w
                            /\ InitLands(c) \/ RestoreLands(c) \/ PutLands(c)
<1>1. ASSUME NEW c \in Calls, NEW x, ptr' = [ptr EXCEPT ![Dev(c)][WalletOf[c]] = x]
      PROVE  Dev(c) = d /\ WalletOf[c] = w
  BY <1>1 DEF TypeOK
<1>2. \/ UNCHANGED ptr
      \/ \E c \in Calls : InitLands(c) \/ RestoreLands(c) \/ PutLands(c)
  BY DEF Next, Resume, CallLoad, CallAppend, CallRestore, CallPublish, Enter, Reread,
     CatReturns, PublishLands, Fails, Show, Reload, vars
<1> QED
  BY <1>1, <1>2 DEF InitLands, RestoreLands, PutLands, SetPointer

\* Two appends of one tab and wallet are never both past the mutex.
LEMMA Exclusion ==
    ASSUME TypeOK, MutexInv
    PROVE  MutexExclusion
<1> SUFFICES ASSUME NEW c1 \in Calls, NEW c2 \in Calls,
                    Kind[c1] = "append", Kind[c2] = "append",
                    TabOf[c1] = TabOf[c2], WalletOf[c1] = WalletOf[c2],
                    pc[c1] \in Holding, pc[c2] \in Holding
             PROVE  c1 = c2
  BY DEF MutexExclusion
<1>1. Queue(c1)[1] = c1 /\ Queue(c2)[1] = c2
  BY HolderFirst
<1> QED
  BY <1>1 DEF Queue

\* What guards a pointer after a step guarded it before.
LEMMA GuardedBefore ==
    ASSUME [Next]_vars, NEW d \in Devices, NEW w \in Wallets, Guarded(d, w)'
    PROVE  Guarded(d, w)
<1>1. raced \subseteq raced'
  BY DEF Next, Resume, CallLoad, CallAppend, CallRestore, CallPublish, Enter, InitLands,
     Reread, CatReturns, PutLands, RestoreLands, PublishLands, Fails, Show, Reload, vars,
     NoteBlindWrite
<1> QED
  BY <1>1 DEF Guarded, SingleTab

\* The heart of the matter: on a guarded pointer that is set, only the append
\* that holds it lands.
LEMMA GuardedMove ==
    ASSUME TypeOK, FreshInv, CallInv, [Next]_vars, NEW d \in Devices, NEW w \in Wallets,
           ptr[d][w] # NoCid, ptr'[d][w] # ptr[d][w], Guarded(d, w)'
    PROVE  \E c \in Calls :
              /\ PutLands(c) /\ Kind[c] = "append" /\ Dev(c) = d /\ WalletOf[c] = w
              /\ base[c] = ptr[d][w]
              /\ store'[ptr'[d][w]].entries = Merge(store[ptr[d][w]].entries, EntryOf[c])
<1>1. PICK c \in Calls : /\ Dev(c) = d /\ WalletOf[c] = w
                         /\ InitLands(c) \/ RestoreLands(c) \/ PutLands(c)
  BY PointerWriter
<1>2. Pointer(c) = ptr[d][w]
  BY <1>1 DEF Pointer
<1>3. ~(InitLands(c) \/ RestoreLands(c))
  BY <1>1, <1>2 DEF InitLands, RestoreLands, NoteBlindWrite, Guarded
<1>4. PutLands(c) /\ Kind[c] = "append" /\ pc[c] = "put"
  BY <1>1, <1>3 DEF PutLands, CallInv
<1>5. base[c] = ptr[d][w]
  BY <1>1, <1>2, <1>4, GuardedBefore DEF FreshInv
<1>6. Object(c, Merge(store[base[c]].entries, EntryOf[c])) \in Objects
  BY <1>4, PutObject
<1>7. store'[Len(store')] = Object(c, Merge(store[base[c]].entries, EntryOf[c]))
  BY <1>4, <1>6, GrowTyped DEF PutLands
<1>8. ptr'[d][w] = Len(store')
  BY <1>1, <1>4 DEF PutLands, SetPointer, TypeOK
<1> QED
  BY <1>1, <1>4, <1>5, <1>7, <1>8 DEF Object

\* Each step leaves the append past the mutex with the current pointer.
LEMMA StepFresh ==
    ASSUME TypeOK, MutexInv, CallInv, FreshInv, [Next]_vars
    PROVE  FreshInv'
<1> SUFFICES ASSUME NEW c \in Calls, Kind[c] = "append", pc'[c] \in {"cat", "put"},
                    Guarded(Dev(c), WalletOf[c])'
             PROVE  base'[c] = ptr'[Dev(c)][WalletOf[c]]
  BY DEF FreshInv, Pointer
<1> DEFINE d == Dev(c)
           w == WalletOf[c]
<1>1. d \in Devices /\ w \in Wallets /\ TabOf[c] \in Tabs
  BY CallAssumption DEF Dev
<1>2. Guarded(d, w)
  BY <1>1, GuardedBefore
<1>3. CASE pc'[c] = pc[c] /\ base'[c] = base[c]
  <2>1. base[c] = ptr[d][w]
    BY <1>2, <1>3 DEF FreshInv, Pointer
  <2>2. base[c] # NoCid
    BY <1>3, LenProperties DEF CallInv, Designates, TypeOK, NoCid
  <2>3. ASSUME ptr'[d][w] # ptr[d][w] PROVE FALSE
    <3>1. PICK e \in Calls : PutLands(e) /\ Kind[e] = "append" /\ Dev(e) = d /\ WalletOf[e] = w
      BY <1>1, <2>1, <2>2, <2>3, GuardedMove
    <3>2. TabOf[e] = TabOf[c]
      BY <1>2, <3>1, CallAssumption DEF Guarded, SingleTab, Dev
    <3>3. pc[e] \in Holding /\ pc[c] \in Holding
      BY <1>3, <3>1 DEF PutLands, Holding
    <3>4. e = c
      BY <3>1, <3>2, <3>3, Exclusion DEF MutexExclusion
    <3> QED
      BY <1>3, <3>1, <3>4 DEF PutLands, TypeOK
  <2> QED
    BY <1>3, <2>1, <2>3
<1>4. CASE ReadPointer(c, head[c]) /\ UNCHANGED ptr
  BY <1>4 DEF ReadPointer, Pointer, TypeOK
<1>5. CASE Reread(c)
  BY <1>5 DEF Reread, Pointer, TypeOK
<1>6. CASE CatReturns(c)
  BY <1>2, <1>6 DEF CatReturns, FreshInv, Pointer
<1>7. ASSUME NEW e \in Calls,
             \/ CallLoad(e) \/ CallAppend(e) \/ CallRestore(e) \/ CallPublish(e) \/ Resume(e)
      PROVE  \/ pc'[c] = pc[c] /\ base'[c] = base[c]
             \/ ReadPointer(c, head[c]) /\ UNCHANGED ptr
             \/ Reread(c) \/ CatReturns(c)
  <2>1. CASE e = c
    BY <1>7, <2>1 DEF Resume, CallLoad, CallAppend, CallRestore, CallPublish, Enter, InitLands,
       PutLands, RestoreLands, PublishLands, Fails, Broken, TypeOK
  <2>2. CASE e # c
    <3>1. base' = base \/ \E y : base' = [base EXCEPT ![e] = y]
      BY <1>7 DEF Resume, CallLoad, CallAppend, CallRestore, CallPublish, Enter, InitLands,
         Reread, CatReturns, PutLands, RestoreLands, PublishLands, Fails, ReadPointer
    <3>2. \E x : pc' = [pc EXCEPT ![e] = x]
      BY <1>7 DEF Resume, CallLoad, CallAppend, CallRestore, CallPublish, Enter, InitLands,
         Reread, CatReturns, PutLands, RestoreLands, PublishLands, Fails, ReadPointer
    <3> QED
      BY <2>2, <3>1, <3>2, OneCallMoves
  <2> QED
    BY <2>1, <2>2
<1>8. CASE \E t \in Tabs : Show(t) \/ Reload(t)
  BY <1>3, <1>8 DEF Show, Reload, Broken
<1>9. CASE UNCHANGED vars
  BY <1>3, <1>9 DEF vars
<1> QED
  BY <1>3, <1>4, <1>5, <1>6, <1>7, <1>8, <1>9 DEF Next

-----------------------------------------------------------------------------
\* An append only returns by landing its upload.
LEMMA AppendReturns ==
    ASSUME TypeOK, CallInv, [Next]_vars, NEW c \in Calls, Kind[c] = "append",
           pc'[c] = "done", pc[c] # "done"
    PROVE  PutLands(c)
<1>1. ASSUME NEW e \in Calls,
             \/ CallLoad(e) \/ CallAppend(e) \/ CallRestore(e) \/ CallPublish(e) \/ Resume(e)
      PROVE  e = c
  <2>1. \E x : pc' = [pc EXCEPT ![e] = x]
    BY <1>1 DEF Resume, CallLoad, CallAppend, CallRestore, CallPublish, Enter, InitLands,
       Reread, CatReturns, PutLands, RestoreLands, PublishLands, Fails, ReadPointer
  <2> QED
    BY <2>1 DEF TypeOK
<1>2. ~\E t \in Tabs : Show(t) \/ Reload(t)
  BY DEF Show, Reload, Broken
<1>3. pc' # pc
  OBVIOUS
<1>4. \/ CallLoad(c) \/ CallAppend(c) \/ CallRestore(c) \/ CallPublish(c) \/ Resume(c)
  BY <1>1, <1>2, <1>3 DEF Next, vars
<1> QED
  BY <1>4 DEF Resume, CallLoad, CallAppend, CallRestore, CallPublish, Enter, InitLands, Reread,
     CatReturns, RestoreLands, PublishLands, Fails, Broken, ReadPointer, TypeOK, CallInv

\* A manifest the store holds is still there after a step.
LEMMA EntriesStay ==
    ASSUME TypeOK, CallInv, [Next]_vars, NEW n \in DOMAIN store
    PROVE  store'[n] = store[n]
BY StepStore, LenProperties DEF TypeOK, Objects, Entries

\* Each step keeps the entries of the appends that returned.
LEMMA StepAcked ==
    ASSUME TypeOK, PointersDesignate, CallInv, FreshInv, AckedEntriesSurvive, [Next]_vars
    PROVE  AckedEntriesSurvive'
<1> SUFFICES ASSUME NEW c \in Calls, Kind[c] = "append", pc'[c] = "done",
                    Guarded(Dev(c), WalletOf[c])'
             PROVE  /\ ptr'[Dev(c)][WalletOf[c]] # NoCid
                    /\ Has(store'[ptr'[Dev(c)][WalletOf[c]]].entries, EntryOf[c])
  BY DEF AckedEntriesSurvive, Kept, Pointer
<1> DEFINE d == Dev(c)
           w == WalletOf[c]
<1>1. d \in Devices /\ w \in Wallets /\ EntryOf[c] \in Entries
  BY CallAssumption, EntryType DEF Dev
<1>2. Guarded(d, w)
  BY <1>1, GuardedBefore
<1>3. CASE pc[c] = "done"
  <2>1. ptr[d][w] # NoCid /\ Has(store[ptr[d][w]].entries, EntryOf[c])
    BY <1>2, <1>3 DEF AckedEntriesSurvive, Kept, Pointer
  <2>2. ptr[d][w] \in DOMAIN store
    BY <1>1, <2>1 DEF PointersDesignate, Designates
  <2>3. CASE ptr'[d][w] = ptr[d][w]
    BY <2>1, <2>2, <2>3, EntriesStay
  <2>4. CASE ptr'[d][w] # ptr[d][w]
    <3>1. PICK e \in Calls :
              store'[ptr'[d][w]].entries = Merge(store[ptr[d][w]].entries, EntryOf[e])
      BY <1>1, <2>1, <2>4, GuardedMove
    <3>2. Has(Merge(store[ptr[d][w]].entries, EntryOf[e]), EntryOf[c])
      BY <1>1, <2>1, <2>2, StoredEntries, EntryType, MergeProperties
    <3> QED
      BY <1>1, <2>4, <3>1, <3>2, PointerMoves
  <2> QED
    BY <2>3, <2>4
<1>4. CASE pc[c] # "done"
  <2>1. PutLands(c)
    BY <1>4, AppendReturns
  <2>2. base[c] \in DOMAIN store
    BY <2>1 DEF PutLands, CallInv, Designates
  <2>3. /\ Len(store') # NoCid
        /\ store'[Len(store')] = Object(c, Merge(store[base[c]].entries, EntryOf[c]))
    BY <2>1, PutObject, GrowTyped, UploadDesignates DEF PutLands
  <2>4. ptr'[d][w] = Len(store')
    BY <1>1, <2>1 DEF PutLands, SetPointer, TypeOK
  <2>5. Has(Merge(store[base[c]].entries, EntryOf[c]), EntryOf[c])
    BY <1>1, <2>2, StoredEntries, MergeProperties
  <2> QED
    BY <2>3, <2>4, <2>5 DEF Object
<1> QED
  BY <1>3, <1>4

\* The inductive invariant holds at the start.
LEMMA InitIInv == Init => IInv
<1> SUFFICES ASSUME Init PROVE IInv
  OBVIOUS
<1>1. TypeOK
  BY InitTypeOK
<1>2. QueueInv /\ QueuedInv
  BY DEF Init, QueueInv, QueuedInv, Holding
<1>a. PromiseInv
  BY EmptySeq DEF Init, PromiseInv, Fulfilled
<1>3. CallInv /\ FreshInv /\ AckedEntriesSurvive
  BY DEF Init, CallInv, FreshInv, AckedEntriesSurvive
<1>4. PointersDesignate
  BY CallAssumption DEF Init, PointersDesignate
<1>5. NoDuplicateEntry
  BY DEF Init, NoDuplicateEntry
<1> QED
  BY <1>1, <1>2, <1>a, <1>3, <1>4, <1>5 DEF IInv

\* Each step keeps it.
LEMMA StepIInv == IInv /\ [Next]_vars => IInv'
<1> SUFFICES ASSUME IInv, [Next]_vars PROVE IInv'
  OBVIOUS
<1> USE DEF IInv
<1>1. TypeOK'
  BY StepTypeOK
<1>2. QueueInv' /\ QueuedInv'
  BY StepMutex DEF MutexInv
<1>a. PromiseInv'
  BY StepPromise DEF MutexInv
<1>3. CallInv'
  BY StepCall
<1>4. FreshInv'
  BY StepFresh DEF MutexInv
<1>5. PointersDesignate'
  BY StepPointers
<1>6. NoDuplicateEntry'
  BY StepNoDuplicate
<1>7. AckedEntriesSurvive'
  BY StepAcked
<1> QED
  BY <1>1, <1>2, <1>a, <1>3, <1>4, <1>5, <1>6, <1>7

-----------------------------------------------------------------------------
\* Every reachable state satisfies the strengthening: queues hold their
\* appends in order, suspended calls hold CIDs of their wallet.
THEOREM Inductive == Spec => []IInv
<1>1. Init => IInv
  BY InitIInv
<1>2. IInv /\ [Next]_vars => IInv'
  BY StepIInv
<1> QED
  BY <1>1, <1>2, PTL DEF Spec

\* The variables keep their types.
THEOREM TypeCorrect == Spec => []TypeOK
<1>1. IInv => TypeOK
  BY DEF IInv
<1> QED
  BY <1>1, Inductive, PTL

\* runExclusive lets one append of a tab and wallet run at a time, through
\* failures and reloads.
THEOREM MutexSafe == Spec => []MutexExclusion
<1>1. IInv => MutexExclusion
  BY Exclusion DEF IInv, MutexInv
<1> QED
  BY <1>1, Inductive, PTL

\* Local, shown and on-chain pointers designate manifests of their wallet.
THEOREM PointersSafe == Spec => []PointersDesignate
<1>1. IInv => PointersDesignate
  BY DEF IInv
<1> QED
  BY <1>1, Inductive, PTL

\* No stored manifest lists one entry twice.
THEOREM NoDuplicates == Spec => []NoDuplicateEntry
<1>1. IInv => NoDuplicateEntry
  BY DEF IInv
<1> QED
  BY <1>1, Inductive, PTL

\* Where the device has one tab and no blind write landed, what an append
\* acknowledged is never lost.
THEOREM AckedSafe == Spec => []AckedEntriesSurvive
<1>1. IInv => AckedEntriesSurvive
  BY DEF IInv
<1> QED
  BY <1>1, Inductive, PTL

\* ... and the pointer only moves to a manifest that extends the last.
THEOREM PointerSafe == Spec => PointerExtends
<1>1. IInv /\ [Next]_vars =>
        [\A d \in Devices, w \in Wallets :
          ptr[d][w] # NoCid /\ ptr'[d][w] # ptr[d][w] /\ Guarded(d, w)' =>
              Extends(store[ptr[d][w]].entries, store'[ptr'[d][w]].entries)]_vars
  <2> SUFFICES ASSUME IInv, [Next]_vars, NEW d \in Devices, NEW w \in Wallets,
                      ptr[d][w] # NoCid, ptr'[d][w] # ptr[d][w], Guarded(d, w)'
               PROVE  Extends(store[ptr[d][w]].entries, store'[ptr'[d][w]].entries)
    OBVIOUS
  <2>1. PICK c \in Calls :
            store'[ptr'[d][w]].entries = Merge(store[ptr[d][w]].entries, EntryOf[c])
    BY GuardedMove DEF IInv
  <2>2. store[ptr[d][w]].entries \in Seq(Entries)
    BY StoredEntries DEF IInv, PointersDesignate, Designates
  <2> QED
    BY <2>1, <2>2, EntryType, MergeProperties
<1> QED
  BY <1>1, Inductive, PTL DEF Spec, PointerExtends
-----------------------------------------------------------------------------
(* The registry is used as the log of RegistryLog.                           *)

\* What a step that moves no publication leaves of the log: all of it.
LEMMA PublicationsStay ==
    ASSUME TypeOK, UNCHANGED chain,
           \A c \in Publications : base'[c] = base[c] /\ PublicationState(c)' = PublicationState(c)
    PROVE  UNCHANGED Account!vars
<1>1. [c \in Publications |-> base'[c]] = [c \in Publications |-> base[c]]
  OBVIOUS
<1>2. [c \in Publications |-> PublicationState(c)'] = [c \in Publications |-> PublicationState(c)]
  OBVIOUS
<1> QED
  BY <1>1, <1>2 DEF Account!vars, Publications

\* A step of one call that does not publish moves no publication.
LEMMA OtherCallMoves ==
    ASSUME TypeOK, NEW c \in Calls, Kind[c] # "publish", UNCHANGED chain,
           NEW x, pc' = [pc EXCEPT ![c] = x],
           base' = base \/ \E y : base' = [base EXCEPT ![c] = y]
    PROVE  UNCHANGED Account!vars
<1>1. \A d \in Publications : pc'[d] = pc[d] /\ base'[d] = base[d]
  BY OneCallMoves DEF Publications
<1> QED
  BY <1>1, PublicationsStay DEF PublicationState

\* One publication moves: its state in the log.
LEMMA PublicationMoves ==
    ASSUME TypeOK, NEW c \in Publications, NEW x, pc' = [pc EXCEPT ![c] = x]
    PROVE  [d \in Publications |-> PublicationState(d)'] =
           [[d \in Publications |-> PublicationState(d)] EXCEPT ![c] = PublicationState(c)']
<1>1. \A d \in Publications \ {c} : PublicationState(d)' = PublicationState(d)
  BY DEF Publications, PublicationState, TypeOK
<1> QED
  BY <1>1

\* Each step is a step of the log or leaves it alone.
LEMMA AccountStep ==
    ASSUME TypeOK, CallInv, [Next]_vars
    PROVE  [Account!Next]_(Account!vars)
<1> DEFINE cid == [c \in Publications |-> base[c]]
           state == [c \in Publications |-> PublicationState(c)]
<1>1. CASE \E c \in Calls : CallPublish(c)
  <2>1. PICK c \in Calls : CallPublish(c)
    BY <1>1
  <2>2. c \in Publications /\ pc[c] = "idle" /\ pc'[c] = "send"
    BY <2>1 DEF CallPublish, Publications, TypeOK
  <2>3. state[c] = "idle" /\ state' = [state EXCEPT ![c] = "sent"]
    BY <2>1, <2>2, PublicationMoves DEF CallPublish, PublicationState, Publications
  <2>4. cid' = [cid EXCEPT ![c] = cid'[c]]
    BY <2>1, <2>2 DEF CallPublish, TypeOK, Publications
  <2>5. Account!Send(c)
    BY <2>1, <2>3, <2>4 DEF CallPublish, Account!Send, Publications
  <2> QED
    BY <2>2, <2>5 DEF Account!Next
<1>2. CASE \E c \in Calls : PublishLands(c)
  <2>1. PICK c \in Calls : PublishLands(c)
    BY <1>2
  <2>2. c \in Publications /\ pc[c] \in {"send", "late"} /\ pc'[c] = "done"
    BY <2>1 DEF PublishLands, Publications, CallInv, TypeOK
  <2>3. state[c] = "sent" /\ state' = [state EXCEPT ![c] = "recorded"]
    BY <2>1, <2>2, PublicationMoves DEF PublishLands, PublicationState, Publications
  <2>4. cid[c] = base[c] /\ cid' = cid
    BY <2>1, <2>2 DEF PublishLands, Publications
  <2>5. Account!Record(c)
    BY <2>1, <2>3, <2>4 DEF PublishLands, Account!Record, Publications, Account!Range, Range
  <2> QED
    BY <2>2, <2>5 DEF Account!Next
<1>3. ASSUME NEW c \in Calls, CallLoad(c) \/ CallAppend(c) \/ CallRestore(c)
      PROVE  UNCHANGED Account!vars
  <2>1. Kind[c] # "publish" /\ UNCHANGED chain
    BY <1>3 DEF CallLoad, CallAppend, CallRestore
  <2>2. /\ \E x : pc' = [pc EXCEPT ![c] = x]
        /\ base' = base \/ \E y : base' = [base EXCEPT ![c] = y]
    BY <1>3 DEF CallLoad, CallAppend, CallRestore, ReadPointer
  <2> QED
    BY <2>1, <2>2, OtherCallMoves
<1>4. ASSUME NEW c \in Calls,
             \/ Enter(c) \/ InitLands(c) \/ Reread(c) \/ CatReturns(c) \/ PutLands(c)
             \/ RestoreLands(c)
      PROVE  UNCHANGED Account!vars
  <2>1. Kind[c] # "publish" /\ UNCHANGED chain
    BY <1>4 DEF Enter, InitLands, Reread, CatReturns, PutLands, RestoreLands, CallInv
  <2>2. /\ \E x : pc' = [pc EXCEPT ![c] = x]
        /\ base' = base \/ \E y : base' = [base EXCEPT ![c] = y]
    BY <1>4 DEF Enter, InitLands, Reread, CatReturns, PutLands, RestoreLands, ReadPointer
  <2> QED
    BY <2>1, <2>2, OtherCallMoves
<1>5. ASSUME NEW c \in Calls, Fails(c) PROVE UNCHANGED Account!vars
  <2>1. \A d \in Publications : pc'[d] = pc[d] \/ (pc[d] = "send" /\ pc'[d] = "late")
    BY <1>5 DEF Fails, Broken, Publications, CallInv, TypeOK
  <2>2. UNCHANGED <<chain, base>>
    BY <1>5 DEF Fails
  <2> QED
    BY <2>1, <2>2, PublicationsStay DEF PublicationState
<1>6. ASSUME NEW t \in Tabs, Show(t) \/ Reload(t) PROVE UNCHANGED Account!vars
  <2>1. \A d \in Publications : pc'[d] = pc[d] \/ (pc[d] = "send" /\ pc'[d] = "late")
    BY <1>6 DEF Show, Reload, Broken, Pending, Publications, CallInv
  <2>2. UNCHANGED <<chain, base>>
    BY <1>6 DEF Show, Reload
  <2> QED
    BY <2>1, <2>2, PublicationsStay DEF PublicationState
<1>7. CASE UNCHANGED vars
  BY <1>7, PublicationsStay DEF vars, PublicationState
<1> QED
  BY <1>1, <1>2, <1>3, <1>4, <1>5, <1>6, <1>7 DEF Next, Resume

\* Nothing was published yet.
LEMMA AccountInit == Init => Account!Init
BY DEF Init, Account!Init, PublicationState, Publications

\* The calls of all tabs and devices use the registry as the log of CIDs that
\* Registry implements: a publication that timed out, or whose page was gone,
\* is recorded once, later, or not at all.
THEOREM RegistryIsLog == Spec => UsesRegistryLog
<1>1. IInv /\ [Next]_vars => [Account!Next]_(Account!vars)
  BY AccountStep DEF IInv
<1> QED
  BY <1>1, AccountInit, Inductive, PTL DEF Spec, UsesRegistryLog, Account!Spec

\* LogIsSound of the recorded publications R, whose CIDs are b, and the logs ch.
RecordedSet == {c \in Publications : PublicationState(c) = "recorded"}

SoundLog(R, b, ch) ==
    /\ \A c \in R : \E i \in 1 .. Len(ch[WalletOf[c]]) : ch[WalletOf[c]][i] = b[c]
    /\ \A w \in Wallets : \A i \in 1 .. Len(ch[w]) :
         \E c \in R :
            /\ WalletOf[c] = w /\ b[c] = ch[w][i]
            /\ \A d \in R : WalletOf[d] = w /\ b[d] = ch[w][i] => d = c
    /\ \A w \in Wallets :
         /\ Len(ch[w]) <= MaxEntries
         /\ \A i, j \in 1 .. Len(ch[w]) : ch[w][i] = ch[w][j] => i = j

\* The two say the same of every state.
LEMMA SoundLogSplit ==
    ASSUME TypeOK, TypeOK'
    PROVE  /\ Account!LogIsSound <=> SoundLog(RecordedSet, base, chain)
           /\ Account!LogIsSound' <=> SoundLog(RecordedSet', base', chain')
<1>1. /\ \A w \in Wallets : DOMAIN chain[w] = 1 .. Len(chain[w])
      /\ \A w \in Wallets : DOMAIN chain'[w] = 1 .. Len(chain'[w])
  BY LenProperties DEF TypeOK
<1>2. \A c \in Publications : c \in Calls /\ WalletOf[c] \in Wallets
  BY CallAssumption DEF Publications
<1>3. Account!LogIsSound <=> SoundLog(RecordedSet, base, chain)
  BY <1>1, <1>2 DEF Account!LogIsSound, Account!OneOrigin, SoundLog, RecordedSet, Account!Range
<1>4. Account!LogIsSound' <=> SoundLog(RecordedSet', base', chain')
  BY <1>1, <1>2 DEF Account!LogIsSound, Account!OneOrigin, SoundLog, RecordedSet, Account!Range
<1> QED
  BY <1>3, <1>4

\* A sound log stays sound when one more publication is recorded, at the end.
LEMMA SoundRecord ==
    ASSUME NEW R \in SUBSET Calls, NEW b, NEW b2, NEW ch \in [Wallets -> Seq(Nat)], NEW ch2,
           SoundLog(R, b, ch), NEW c \in Calls \ R, NEW k \in Nat, b2[c] = k,
           \A i \in 1 .. Len(ch[WalletOf[c]]) : ch[WalletOf[c]][i] # k,
           Len(ch[WalletOf[c]]) < MaxEntries,
           ch2 = [ch EXCEPT ![WalletOf[c]] = Append(@, k)],
           \A d \in R : b2[d] = b[d]
    PROVE  SoundLog(R \cup {c}, b2, ch2)
<1> DEFINE v == WalletOf[c]
           q == ch[v]
           n == Len(q)
           R2 == R \cup {c}
<1>1. v \in Wallets /\ q \in Seq(Nat) /\ n \in Nat /\ MaxEntries \in Nat
  BY CallAssumption, LenProperties
<1>2. /\ Len(Append(q, k)) = n + 1
      /\ \A i \in 1 .. n : Append(q, k)[i] = q[i]
      /\ Append(q, k)[n + 1] = k
  BY <1>1
<1>3. \A w \in Wallets : ch2[w] = IF w = v THEN Append(q, k) ELSE ch[w]
  BY <1>1
<1>4. \A i \in 1 .. n + 1 : i \in 1 .. n \/ i = n + 1
  BY <1>1
<1>5. 1 .. n \subseteq 1 .. n + 1 /\ n + 1 \in 1 .. n + 1
  BY <1>1
<1>6. \A d \in R : WalletOf[d] = v => b[d] # k
  BY DEF SoundLog
<1>7. \A d \in R2 : d \in Calls /\ WalletOf[d] \in Wallets
  BY CallAssumption
<1> HIDE DEF v, q, n
<1>8. ASSUME NEW d \in R2
      PROVE  \E i \in 1 .. Len(ch2[WalletOf[d]]) : ch2[WalletOf[d]][i] = b2[d]
  <2>1. CASE d = c
    <3>1. ch2[WalletOf[d]] = Append(q, k)
      BY <1>1, <1>3, <2>1 DEF v
    <3> QED
      BY <1>2, <1>5, <2>1, <3>1
  <2>2. CASE d \in R
    <3>1. PICK i \in 1 .. Len(ch[WalletOf[d]]) : ch[WalletOf[d]][i] = b[d]
      BY <2>2 DEF SoundLog
    <3>2. CASE WalletOf[d] = v
      BY <1>1, <1>2, <1>3, <1>5, <2>2, <3>1, <3>2 DEF q, n
    <3>3. CASE WalletOf[d] # v
      BY <1>3, <1>7, <2>2, <3>1, <3>3
    <3> QED
      BY <3>2, <3>3
  <2> QED
    BY <2>1, <2>2
<1>9. ASSUME NEW w \in Wallets, NEW i \in 1 .. Len(ch2[w])
      PROVE  \E d \in R2 :
               /\ WalletOf[d] = w /\ b2[d] = ch2[w][i]
               /\ \A e \in R2 : WalletOf[e] = w /\ b2[e] = ch2[w][i] => e = d
  <2>1. CASE i \in 1 .. Len(ch[w]) /\ ch2[w][i] = ch[w][i]
    <3>1. PICK d \in R : /\ WalletOf[d] = w /\ b[d] = ch[w][i]
                         /\ \A e \in R : WalletOf[e] = w /\ b[e] = ch[w][i] => e = d
      BY <2>1 DEF SoundLog
    <3>2. w = v => ch[w][i] # k
      BY <2>1 DEF v
    <3>3. \A e \in R2 : WalletOf[e] = w /\ b2[e] = ch[w][i] => e = d
      BY <3>1, <3>2 DEF v
    <3>4. d \in R2 /\ b2[d] = b[d]
      BY <3>1
    <3> QED
      BY <2>1, <3>1, <3>3, <3>4
  <2>2. CASE w = v /\ i = n + 1
    <3>1. ch2[w][i] = k
      BY <1>2, <1>3, <2>2
    <3> QED
      BY <1>6, <2>2, <3>1 DEF v
  <2>3. CASE w = v /\ i \in 1 .. n
    <3>1. ch2[w][i] = ch[w][i] /\ i \in 1 .. Len(ch[w])
      BY <1>2, <1>3, <2>3 DEF q, n
    <3> QED
      BY <2>1, <3>1
  <2>4. CASE w # v
    BY <1>3, <1>9, <2>1, <2>4
  <2>5. w = v => i \in 1 .. n \/ i = n + 1
    BY <1>2, <1>3, <1>4, <1>9
  <2> QED
    BY <2>2, <2>3, <2>4, <2>5
<1>10. ASSUME NEW w \in Wallets
       PROVE  /\ Len(ch2[w]) <= MaxEntries
              /\ \A i, j \in 1 .. Len(ch2[w]) : ch2[w][i] = ch2[w][j] => i = j
  <2>1. CASE w # v
    <3>1. ch2[w] = ch[w]
      BY <1>3, <2>1
    <3>2. /\ Len(ch[w]) <= MaxEntries
          /\ \A i, j \in 1 .. Len(ch[w]) : ch[w][i] = ch[w][j] => i = j
      BY DEF SoundLog
    <3> QED
      BY <3>1, <3>2
  <2>2. CASE w = v
    <3>1. ch2[w] = Append(q, k) /\ n < MaxEntries /\ Len(ch2[w]) = n + 1
      BY <1>2, <1>3, <2>2 DEF v, q, n
    <3>2. \A i, j \in 1 .. n : q[i] = q[j] => i = j
      BY <1>1 DEF SoundLog, q, n
    <3>3. \A i \in 1 .. n : q[i] # k
      BY DEF q, n, v
    <3>4. \A i, j \in 1 .. n + 1 : Append(q, k)[i] = Append(q, k)[j] => i = j
      BY <1>2, <1>4, <3>2, <3>3
    <3>5. n + 1 <= MaxEntries
      BY <1>1, <3>1
    <3>6. Len(ch2[w]) <= MaxEntries
      BY <3>1, <3>5
    <3>7. ASSUME NEW i \in 1 .. Len(ch2[w]), NEW j \in 1 .. Len(ch2[w]), ch2[w][i] = ch2[w][j]
          PROVE  i = j
      <4>1. /\ i \in 1 .. n + 1 /\ j \in 1 .. n + 1
            /\ Append(q, k)[i] = Append(q, k)[j]
        BY <3>1, <3>7
      <4> QED
        BY <3>4, <4>1
    <3> QED
      BY <3>6, <3>7
  <2> QED
    BY <2>1, <2>2
<1> QED
  BY <1>8, <1>9, <1>10 DEF SoundLog

\* Each step keeps the log sound.
LEMMA SoundStep ==
    ASSUME TypeOK, TypeOK', CallInv, Account!LogIsSound, [Next]_vars
    PROVE  Account!LogIsSound'
<1> DEFINE cid == [c \in Publications |-> base[c]]
           state == [c \in Publications |-> PublicationState(c)]
<1>0. /\ \A c \in Publications : /\ c \in Calls /\ cid[c] = base[c] /\ cid'[c] = base'[c]
                                 /\ state[c] = PublicationState(c)
                                 /\ state'[c] = PublicationState(c)'
      /\ SoundLog(RecordedSet, base, chain)
  BY SoundLogSplit DEF Publications
<1> HIDE DEF cid, state
<1> SUFFICES SoundLog(RecordedSet', base', chain')
  BY SoundLogSplit
<1>1. CASE \E c \in Publications : Account!Record(c)
  <2>1. PICK c \in Publications :
            /\ state[c] = "sent" /\ state' = [state EXCEPT ![c] = "recorded"]
            /\ cid[c] \notin Account!Range(chain[WalletOf[c]])
            /\ Len(chain[WalletOf[c]]) < MaxEntries
            /\ chain' = [chain EXCEPT ![WalletOf[c]] = Append(@, cid[c])]
            /\ cid' = cid
    BY <1>1 DEF Account!Record, cid, state
  <2>2. \A d \in Publications : state'[d] = IF d = c THEN "recorded" ELSE state[d]
    BY <2>1 DEF state
  <2>3. RecordedSet' = RecordedSet \cup {c} /\ c \notin RecordedSet
    BY <1>0, <2>1, <2>2 DEF RecordedSet
  <2>4. RecordedSet \in SUBSET Calls /\ \A d \in RecordedSet : base'[d] = base[d]
    BY <1>0, <2>1 DEF RecordedSet
  <2>5. chain \in [Wallets -> Seq(Nat)] /\ WalletOf[c] \in Wallets /\ base[c] \in Nat
    <3>1. \A w \in Wallets : chain[w] \in Seq(1 .. Len(store))
      BY DEF TypeOK
    <3>2. \A w \in Wallets : chain[w] \in Seq(Nat)
      BY <3>1, SeqMonotonic
    <3> QED
      BY <1>0, <3>2, CallAssumption DEF TypeOK, Cids
  <2>6. \A i \in 1 .. Len(chain[WalletOf[c]]) : chain[WalletOf[c]][i] # base[c]
    BY <1>0, <2>1, <2>5 DEF Account!Range
  <2>7. base'[c] = base[c] /\ chain' = [chain EXCEPT ![WalletOf[c]] = Append(@, base[c])]
    BY <1>0, <2>1
  <2>8. SoundLog(RecordedSet \cup {c}, base', chain')
    <3>1. c \in Calls \ RecordedSet /\ Len(chain[WalletOf[c]]) < MaxEntries
      BY <1>0, <2>1, <2>3
    <3>2. SoundLog(RecordedSet, base, chain)
      BY <1>0
    <3> QED
      BY <2>4, <2>5, <2>6, <2>7, <3>1, <3>2, SoundRecord
  <2> QED
    BY <2>3, <2>8
<1>2. CASE UNCHANGED chain /\ RecordedSet' = RecordedSet
           /\ \A c \in RecordedSet : base'[c] = base[c]
  BY <1>0, <1>2 DEF SoundLog
<1>3. CASE \E c \in Publications : Account!Send(c) \/ Account!Lose(c)
  <2>1. PICK c \in Publications : Account!Send(c) \/ Account!Lose(c)
    BY <1>3
  <2>2. /\ UNCHANGED chain
        /\ state[c] # "recorded"
        /\ \E x \in {"sent", "lost"} : state' = [state EXCEPT ![c] = x]
        /\ \E x : cid' = [cid EXCEPT ![c] = x]
    BY <2>1 DEF Account!Send, Account!Lose, cid, state
  <2>3. \A d \in Publications \ {c} : state'[d] = state[d] /\ cid'[d] = cid[d]
    BY <2>2 DEF state, cid
  <2>4. state'[c] # "recorded"
    BY <2>2 DEF state
  <2> QED
    BY <1>0, <1>2, <2>2, <2>3, <2>4 DEF RecordedSet
<1>4. CASE UNCHANGED Account!vars
  <2>1. cid' = cid /\ state' = state /\ UNCHANGED chain
    BY <1>4 DEF Account!vars, cid, state
  <2> QED
    BY <1>0, <1>2, <2>1 DEF RecordedSet
<1> QED
  BY <1>1, <1>3, <1>4, AccountStep DEF Account!Next

\* What the registry of a wallet lists was published by one call of some tab,
\* and by one only, is never more than the account has room for, and stays: also
\* what was recorded for a call no tab remembers.
THEOREM RegistryLogSound == Spec => []Account!LogIsSound
<1>1. Init => Account!LogIsSound
  BY CallAssumption DEF Init, Account!LogIsSound, Account!OneOrigin, PublicationState,
     Publications, Account!Range
<1>2. IInv /\ IInv' /\ Account!LogIsSound /\ [Next]_vars => Account!LogIsSound'
  BY SoundStep DEF IInv
<1> QED
  BY <1>1, <1>2, Inductive, PTL DEF Spec

-----------------------------------------------------------------------------
(* Appends implement the list of ManifestList.                               *)

Lists == [d \in Devices |-> [w \in Wallets |-> ListOf(d, w)]]
States == [c \in Appends |-> AppendState(c)]
Suspended == raced \cup {p \in Devices \X Wallets : ~SingleTab(p[1])}

\* A list is what the pointer designates: it stays when the pointer does.
LEMMA ListStays ==
    ASSUME TypeOK, CallInv, PointersDesignate, [Next]_vars, NEW d \in Devices, NEW w \in Wallets,
           ptr'[d][w] = ptr[d][w]
    PROVE  ListOf(d, w)' = ListOf(d, w)
<1>1. CASE ptr[d][w] = NoCid
  BY <1>1 DEF ListOf
<1>2. CASE ptr[d][w] # NoCid
  <2>1. ptr[d][w] \in DOMAIN store
    BY <1>2 DEF PointersDesignate, Designates
  <2>2. store'[ptr[d][w]] = store[ptr[d][w]]
    BY <2>1, EntriesStay
  <2> QED
    BY <1>2, <2>2 DEF ListOf
<1> QED
  BY <1>1, <1>2

\* Where only one pointer moves, only one list changes, to one without repeats.
LEMMA ListReplaced ==
    ASSUME TypeOK, CallInv, PointersDesignate, NoDuplicateEntry', PointersDesignate', [Next]_vars,
           NEW c \in Calls, NEW x, x # NoCid, ptr' = [ptr EXCEPT ![Dev(c)][WalletOf[c]] = x]
    PROVE  /\ List!Replace(Dev(c), WalletOf[c])
           /\ Dev(c) \in Devices /\ WalletOf[c] \in Wallets
           /\ Lists'[Dev(c)][WalletOf[c]].entries = store'[x].entries
           /\ Lists[Dev(c)][WalletOf[c]].some <=> Pointer(c) # NoCid
<1> DEFINE d == Dev(c)
           w == WalletOf[c]
<1>1. d \in Devices /\ w \in Wallets
  BY CallAssumption DEF Dev
<1>2. ptr'[d][w] = x /\ \A e \in Devices, v \in Wallets :
                           ~(e = d /\ v = w) => ptr'[e][v] = ptr[e][v]
  BY <1>1 DEF TypeOK
<1>3. \A e \in Devices, v \in Wallets : ~(e = d /\ v = w) => ListOf(e, v)' = ListOf(e, v)
  BY <1>2, ListStays
<1>4. ListOf(d, w)'.some /\ ListOf(d, w)'.entries = store'[x].entries
  BY <1>2 DEF ListOf
<1>5. x \in DOMAIN store'
  BY <1>1, <1>2 DEF PointersDesignate, Designates
<1>6. List!NoRepeat(store'[x].entries)
  BY <1>5 DEF NoDuplicateEntry, List!NoRepeat, List!SameFile, Same
<1>7. /\ Lists \in [Devices -> [Wallets -> {ListOf(e, v) : e \in Devices, v \in Wallets}]]
      /\ \A e \in Devices, v \in Wallets : /\ Lists[e][v] = ListOf(e, v)
                                           /\ Lists'[e][v] = ListOf(e, v)'
  BY DEF Lists
<1>8. Lists' = [Lists EXCEPT ![d][w] = Lists'[d][w]]
  BY <1>1, <1>3, <1>7 DEF Lists
<1>9. List!Replace(d, w)
  BY <1>1, <1>4, <1>6, <1>7, <1>8 DEF List!Replace, Lists
<1>a. Lists[d][w] = ListOf(d, w) /\ Lists'[d][w] = ListOf(d, w)'
  BY <1>1 DEF Lists, ListOf
<1>b. ListOf(d, w).some = (ptr[d][w] # NoCid)
  BY DEF ListOf
<1>10. Lists'[d][w].entries = store'[x].entries
  BY <1>4, <1>a
<1>11. Lists[d][w].some <=> Pointer(c) # NoCid
  BY <1>a, <1>b DEF Pointer
<1> QED
  BY <1>1, <1>9, <1>10, <1>11

\* Appends that stay where they are, or fail, are no more than a break.
LEMMA QuietAppends ==
    ASSUME TypeOK, CallInv, PointersDesignate, [Next]_vars, UNCHANGED <<ptr, raced>>,
           \A c \in Appends : \/ AppendState(c)' = AppendState(c)
                              \/ AppendState(c) = "pending" /\ AppendState(c)' = "failed"
    PROVE  List!Break
<1> DEFINE F == {c \in Appends : AppendState(c) = "pending" /\ AppendState(c)' = "failed"}
<1>1. \A d \in Devices, w \in Wallets : ListOf(d, w)' = ListOf(d, w)
  BY ListStays
<1>2. Lists' = Lists
  BY <1>1 DEF Lists
<1>3. States' = [c \in Appends |-> IF c \in F THEN "failed" ELSE States[c]]
  BY DEF States, Appends
<1>4. F \in SUBSET {c \in Appends : States[c] = "pending"}
  BY DEF States
<1>5. Suspended' = Suspended
  BY DEF Suspended, SingleTab
<1> HIDE DEF F
<1> QED
  BY <1>2, <1>3, <1>4, <1>5 DEF List!Break, Lists, States, Suspended

\* One append moves: its state in the list.
LEMMA AppendMoves ==
    ASSUME TypeOK, NEW c \in Appends, NEW x, pc' = [pc EXCEPT ![c] = x]
    PROVE  States' = [States EXCEPT ![c] = AppendState(c)']
<1>1. \A d \in Appends \ {c} : AppendState(d)' = AppendState(d)
  BY DEF Appends, AppendState, TypeOK
<1> QED
  BY <1>1 DEF States

\* Joining the queue begins the append.
LEMMA BeginList ==
    ASSUME TypeOK, CallInv, PointersDesignate, [Next]_vars, NEW c \in Calls, CallAppend(c)
    PROVE  List!Begin(c) /\ c \in Appends
<1>1. c \in Appends /\ pc[c] = "idle" /\ pc'[c] = "queued" /\ UNCHANGED <<ptr, raced>>
  BY DEF CallAppend, Appends, TypeOK
<1>2. States[c] = "idle" /\ States' = [States EXCEPT ![c] = "pending"]
  BY <1>1, AppendMoves DEF CallAppend, States, AppendState, Pending
<1>3. Lists' = Lists
  BY <1>1, ListStays DEF Lists
<1> QED
  BY <1>1, <1>2, <1>3 DEF List!Begin, Lists, States, SingleTab

\* The upload that lands commits the append: at the end of the list of the
\* moment, where nothing suspended the promise.
LEMMA CommitList ==
    ASSUME TypeOK, CallInv, FreshInv, PointersDesignate, NoDuplicateEntry', PointersDesignate',
           [Next]_vars, NEW c \in Calls, PutLands(c)
    PROVE  List!Commit(c) /\ c \in Appends
<1> DEFINE d == Dev(c)
           w == WalletOf[c]
           es == store[base[c]].entries
<1>1. /\ c \in Appends /\ pc[c] = "put" /\ pc' = [pc EXCEPT ![c] = "done"]
      /\ UNCHANGED raced /\ base[c] \in DOMAIN store
  BY DEF PutLands, Appends, CallInv, Designates
<1>2. States[c] = "pending" /\ States' = [States EXCEPT ![c] = "done"]
  BY <1>1, AppendMoves DEF States, AppendState, Pending, TypeOK, Appends
<1>3. /\ Len(store') # NoCid
      /\ store'[Len(store')] = Object(c, Merge(es, EntryOf[c]))
  BY <1>1, PutObject, GrowTyped, UploadDesignates DEF PutLands
<1>4. ptr' = [ptr EXCEPT ![d][w] = Len(store')]
  BY DEF PutLands, SetPointer
<1>5. /\ List!Replace(d, w) /\ d \in Devices /\ w \in Wallets
      /\ Lists'[d][w].entries = Merge(es, EntryOf[c])
      /\ Lists[d][w].some <=> Pointer(c) # NoCid
  <2>1. /\ List!Replace(d, w) /\ d \in Devices /\ w \in Wallets
        /\ Lists'[d][w].entries = store'[Len(store')].entries
        /\ Lists[d][w].some <=> Pointer(c) # NoCid
    BY <1>3, <1>4, ListReplaced
  <2>2. store'[Len(store')].entries = Merge(es, EntryOf[c])
    BY <1>3 DEF Object
  <2> QED
    BY <2>1, <2>2
<1>6. es \in Seq(Entries) /\ EntryOf[c] \in Entries
  BY <1>1, StoredEntries, EntryType
<1>7. List!Lists(Lists'[d][w].entries, EntryOf[c])
  BY <1>5, <1>6, MergeProperties DEF List!Lists, List!SameFile, Has, Same
<1>8. ASSUME <<d, w>> \notin Suspended
      PROVE  /\ Lists[d][w].some
             /\ Lists'[d][w].entries \in {Lists[d][w].entries, Append(Lists[d][w].entries, EntryOf[c])}
  <2>1. Guarded(d, w)
    BY <1>5, <1>8 DEF Suspended, Guarded
  <2>2. base[c] = ptr[d][w]
    BY <1>1, <2>1 DEF FreshInv, Pointer, Appends
  <2>3. base[c] # NoCid
    BY <1>1, LenProperties DEF TypeOK, NoCid
  <2>4. Lists[d][w].some /\ Lists[d][w].entries = es
    BY <1>5, <2>2, <2>3 DEF Lists, ListOf
  <2> QED
    BY <1>5, <2>4 DEF Merge
<1>9. Suspended' = Suspended
  BY <1>1 DEF Suspended, SingleTab
<1>10. [e \in Appends |-> Dev(e)][c] = d
  BY <1>1
<1> HIDE DEF d, w, es
<1> QED
  BY <1>1, <1>2, <1>5, <1>7, <1>8, <1>9, <1>10 DEF List!Commit, Lists, States, Suspended, w

\* A pointer set without being read starts the list, or suspends its promise.
LEMMA StartList ==
    ASSUME TypeOK, CallInv, PointersDesignate, NoDuplicateEntry', PointersDesignate',
           [Next]_vars, NEW c \in Calls, InitLands(c) \/ RestoreLands(c)
    PROVE  \E d \in Devices, w \in Wallets : List!Start(d, w) \/ List!Overwrite(d, w)
<1> DEFINE d == Dev(c)
           w == WalletOf[c]
<1>1. PICK x : x # NoCid /\ ptr' = [ptr EXCEPT ![d][w] = x]
  <2>1. CASE InitLands(c)
    BY <2>1, EmptyObject, UploadDesignates DEF InitLands, SetPointer
  <2>2. CASE RestoreLands(c)
    <3>1. base[c] \in DOMAIN store
      BY <2>2 DEF RestoreLands, CallInv, Designates
    <3>2. base[c] # NoCid
      BY <3>1, LenProperties DEF TypeOK, NoCid
    <3> QED
      BY <2>2, <3>2 DEF RestoreLands
  <2> QED
    BY <2>1, <2>2
<1>2. /\ List!Replace(d, w) /\ d \in Devices /\ w \in Wallets
      /\ Lists[d][w].some <=> Pointer(c) # NoCid
  BY <1>1, ListReplaced
<1>3. States' = States
  <2>1. \A e \in Appends : AppendState(e)' = AppendState(e)
    BY DEF InitLands, RestoreLands, Appends, AppendState, Pending, CallInv, TypeOK
  <2> QED
    BY <2>1 DEF States
<1>4. NoteBlindWrite(c)
  BY DEF InitLands, RestoreLands
<1>5. CASE Pointer(c) = NoCid
  <2>1. Suspended' = Suspended
    BY <1>4, <1>5 DEF NoteBlindWrite, Suspended, SingleTab
  <2>2. List!Start(d, w)
    BY <1>2, <1>3, <1>5, <2>1 DEF List!Start, Lists, States, Suspended
  <2> QED
    BY <1>2, <2>2
<1>6. CASE Pointer(c) # NoCid
  <2>1. Suspended' = Suspended \cup {<<d, w>>}
    BY <1>4, <1>6 DEF NoteBlindWrite, Suspended, SingleTab
  <2>2. List!Overwrite(d, w)
    BY <1>2, <1>3, <1>6, <2>1 DEF List!Overwrite, Lists, States, Suspended
  <2> QED
    BY <1>2, <2>2
<1> QED
  BY <1>5, <1>6

\* Each step is a step of the list.
LEMMA ListStep ==
    ASSUME TypeOK, CallInv, FreshInv, PointersDesignate, NoDuplicateEntry', PointersDesignate',
           [Next]_vars
    PROVE  List!Next
<1>1. CASE \E c \in Calls : CallAppend(c)
  BY <1>1, BeginList DEF List!Next
<1>2. CASE \E c \in Calls : PutLands(c)
  BY <1>2, CommitList DEF List!Next
<1>3. CASE \E c \in Calls : InitLands(c) \/ RestoreLands(c)
  BY <1>3, StartList DEF List!Next
<1>4. ASSUME NEW c \in Calls, CallLoad(c) \/ CallRestore(c) \/ CallPublish(c) \/ PublishLands(c)
      PROVE  List!Next
  <2>1. c \notin Appends /\ UNCHANGED <<ptr, raced>>
    BY <1>4 DEF CallLoad, CallRestore, CallPublish, PublishLands, Appends, CallInv
  <2>2. \E x : pc' = [pc EXCEPT ![c] = x]
    BY <1>4 DEF CallLoad, CallRestore, CallPublish, PublishLands, ReadPointer
  <2>3. \A d \in Appends : AppendState(d)' = AppendState(d)
    BY <2>1, <2>2 DEF AppendState, Appends, TypeOK
  <2> QED
    BY <2>1, <2>3, QuietAppends DEF List!Next
<1>5. ASSUME NEW c \in Calls, Enter(c) \/ Reread(c) \/ CatReturns(c) PROVE List!Next
  <2>1. UNCHANGED <<ptr, raced>>
    BY <1>5 DEF Enter, Reread, CatReturns
  <2>2. \A d \in Appends : \/ pc'[d] = pc[d]
                           \/ pc[d] \in Pending /\ pc'[d] \in Pending \cup {"refused"}
    BY <1>5 DEF Enter, Reread, CatReturns, ReadPointer, Appends, Pending, TypeOK
  <2>3. \A d \in Appends : \/ AppendState(d)' = AppendState(d)
                           \/ AppendState(d) = "pending" /\ AppendState(d)' = "failed"
    BY <2>2 DEF AppendState, Pending
  <2> QED
    BY <2>1, <2>3, QuietAppends DEF List!Next
<1>6. ASSUME NEW c \in Calls, Fails(c) PROVE List!Next
  <2>1. UNCHANGED <<ptr, raced>>
    BY <1>6 DEF Fails
  <2>2. \A d \in Appends : \/ pc'[d] = pc[d]
                           \/ pc[d] \in Pending /\ pc'[d] \in {"failed", "late"}
    BY <1>6 DEF Fails, Broken, Appends, Pending, TypeOK
  <2>3. \A d \in Appends : \/ AppendState(d)' = AppendState(d)
                           \/ AppendState(d) = "pending" /\ AppendState(d)' = "failed"
    BY <2>2 DEF AppendState, Pending
  <2> QED
    BY <2>1, <2>3, QuietAppends DEF List!Next
<1>7. ASSUME NEW t \in Tabs, Show(t) \/ Reload(t) PROVE List!Next
  <2>1. UNCHANGED <<ptr, raced>>
    BY <1>7 DEF Show, Reload
  <2>2. \A d \in Appends : \/ pc'[d] = pc[d]
                           \/ pc[d] \in Pending /\ pc'[d] \in {"killed", "late"}
    BY <1>7 DEF Show, Reload, Broken, Appends, Pending
  <2>3. \A d \in Appends : \/ AppendState(d)' = AppendState(d)
                           \/ AppendState(d) = "pending" /\ AppendState(d)' = "failed"
    BY <2>2 DEF AppendState, Pending
  <2> QED
    BY <2>1, <2>3, QuietAppends DEF List!Next
<1>8. CASE UNCHANGED vars
  BY <1>8, QuietAppends DEF vars, AppendState, List!Next
<1> QED
  BY <1>1, <1>2, <1>3, <1>4, <1>5, <1>6, <1>7, <1>8 DEF Next, Resume

\* No device has a list yet and no append was called.
LEMMA ListInit == Init => List!Init
<1> SUFFICES ASSUME Init PROVE List!Init
  OBVIOUS
<1>1. \A d \in Devices, w \in Wallets : ListOf(d, w) = List!None
  BY DEF Init, ListOf, List!None
<1>2. \A c \in Appends : AppendState(c) = "idle"
  BY DEF Init, AppendState, Appends, Pending
<1>3. Suspended \in SUBSET (Devices \X Wallets)
  BY DEF Init, Suspended
<1> QED
  BY <1>1, <1>2, <1>3 DEF List!Init, Suspended

\* Appends implement the list of ManifestList: although they read, upload and
\* set the pointer at four awaits, each takes effect at one step, on the list of
\* that moment, or not at all, for any tabs, wallets, calls, failures and reloads.
THEOREM AppendsImplementList == Spec => ImplementsList
<1>1. IInv /\ IInv' /\ [Next]_vars => [List!Next]_(List!vars)
  BY ListStep DEF IInv
<1> QED
  BY <1>1, ListInit, Inductive, PTL DEF Spec, ImplementsList, List!Spec
=============================================================================
