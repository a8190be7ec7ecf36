---------------------------- MODULE MyFilesProofs ----------------------------
(***************************************************************************)
(* Proofs about MyFiles, for every set of wallets and of uploads and any   *)
(* number of manifests: IInv is inductive, so that the list shown is that  *)
(* of the open vault and of the pointer, or empty where the code leaves it *)
(* so, an entry is listed for the wallet its file was uploaded for, and    *)
(* the file is keyed for that wallet.                                      *)
(***************************************************************************)
EXTENDS MyFiles, TLAPS

\* null is neither a wallet, nor the key of a refresh, nor a prompt.
LEMMA NoneType == None \notin Wallets /\ None \notin Key /\ None \notin Prompt
BY NullAssumption

\* What a session is made of.
LEMMA SessionType == Session =
    [wallet : MaybeWallet, open : BOOLEAN, verified : BOOLEAN, ready : BOOLEAN]
BY DEF Session, Vault!Session, Vault!MaybeWallet, MaybeWallet

\* The session of the moment and the one rendered are sessions.
LEMMA SessionsType ==
    ASSUME TypeOK
    PROVE  /\ sess \in Session /\ sess.wallet \in MaybeWallet /\ sess.open \in BOOLEAN
           /\ seen \in Session /\ seen.wallet \in MaybeWallet
BY SessionType DEF TypeOK, Vault!TypeOK, Session

\* A page that was just opened satisfies the invariant.
LEMMA InitInv == Init => IInv
<1> SUFFICES ASSUME Init PROVE IInv
    OBVIOUS
<1>0. /\ Vault!TypeOK /\ unlock = "none" /\ seen = sess
      /\ sess.wallet = None /\ ~sess.open
  <2>1. PICK v \in BOOLEAN : sess = [wallet |-> None, open |-> FALSE, verified |-> v,
                                     ready |-> FALSE]
    BY DEF Init, Vault!Init, Vault!Closed
  <2>2. QED
    BY <2>1 DEF Init, Vault!Init, Vault!TypeOK, Vault!Session, Vault!MaybeWallet, Vault!Calls
<1>1. TypeOK
  <2>1. seen \in Session
    BY <1>0 DEF Vault!TypeOK, Session
  <2>2. store \in Seq(Manifest) /\ Len(store) = 0
    BY DEF Init
  <2>3. ptr \in [Wallets -> 0 .. Len(store)]
    BY <2>2 DEF Init
  <2>4. up \in [Uploads -> [pc : Phases, wallet : MaybeWallet]]
    BY DEF Init, NoUpload, Phases, MaybeWallet
  <2>5. QED
    BY <1>0, <2>1, <2>2, <2>3, <2>4 DEF Init, TypeOK, MaybeWallet
<1>2. RenderInv /\ ProofInv
  BY <1>0 DEF Init, RenderInv, ProofInv
<1>3. UploadInv /\ EntryOfWallet
  BY DEF Init, UploadInv, EntryOfWallet, NoUpload
<1>4. KeyInv /\ LoadInv /\ ListOfOpenVault /\ ListIsCurrent
  BY <1>0 DEF Init, KeyInv, LoadInv, ListOfOpenVault, ListIsCurrent, Ready, Gate
<1>5. QED
  BY <1>1, <1>2, <1>3, <1>4 DEF IInv

-----------------------------------------------------------------------------
(* Types. *)

\* Adding a manifest keeps every CID in use valid.
LEMMA StoreAppend ==
    ASSUME NEW s \in Seq(Manifest), NEW m \in Manifest
    PROVE  /\ Append(s, m) \in Seq(Manifest)
           /\ Len(Append(s, m)) = Len(s) + 1
           /\ Len(s) \in Nat
           /\ DOMAIN s = 1 .. Len(s)
           /\ DOMAIN Append(s, m) = 1 .. Len(s) + 1
           /\ Append(s, m)[Len(s) + 1] = m
           /\ \A i \in 1 .. Len(s) : Append(s, m)[i] = s[i]
OBVIOUS

\* A manifest is sealed for a wallet and lists uploads.
LEMMA StoreType ==
    ASSUME TypeOK, NEW c \in DOMAIN store
    PROVE  store[c].wallet \in Wallets /\ store[c].files \in SUBSET Uploads
<1>1. store[c] \in Manifest
  BY DEF TypeOK
<1>2. QED
  BY <1>1 DEF Manifest

\* What a pointer designates was made.
LEMMA PointerType ==
    ASSUME TypeOK, NEW w \in Wallets
    PROVE  /\ Len(store) \in Nat /\ DOMAIN store = 1 .. Len(store)
           /\ ptr[w] \in 0 .. Len(store)
           /\ ptr[w] # 0 => ptr[w] \in DOMAIN store
BY DEF TypeOK

\* The manifest an append makes.
LEMMA AppendType ==
    ASSUME TypeOK, NEW w \in Wallets, NEW u \in Uploads, AppendEntry(w, u)
    PROVE  /\ \E m \in Bases(w) :
                /\ store' = Append(store, [wallet |-> w, files |-> m \cup {u}])
                /\ [wallet |-> w, files |-> m \cup {u}] \in Manifest
           /\ store' \in Seq(Manifest)
           /\ Len(store') = Len(store) + 1 /\ Len(store) \in Nat
           /\ ptr' \in [Wallets -> 0 .. Len(store')]
           /\ ptr'[w] = Len(store')
<1>1. PICK m \in Bases(w) : store' = Append(store, [wallet |-> w, files |-> m \cup {u}])
  BY DEF AppendEntry
<1>2. m \in SUBSET Uploads
  BY StoreType DEF Bases
<1>3. [wallet |-> w, files |-> m \cup {u}] \in Manifest
  BY <1>2 DEF Manifest
<1>4. /\ store' \in Seq(Manifest)
      /\ Len(store') = Len(store) + 1 /\ Len(store) \in Nat
  BY <1>1, <1>3, StoreAppend DEF TypeOK
<1>5. ptr' = [ptr EXCEPT ![w] = Len(store')]
  BY DEF AppendEntry
<1>6. ptr' \in [Wallets -> 0 .. Len(store')] /\ ptr'[w] = Len(store')
  BY <1>4, <1>5 DEF TypeOK
<1>7. QED
  BY <1>1, <1>3, <1>4, <1>6

\* The head a restore takes is a manifest stored, or one that is now.
LEMMA StartRestoreFacts ==
    ASSUME TypeOK, StartRestore
    PROVE  /\ seen.wallet \in Wallets
           /\ \/ store' = store
              \/ \E v \in Wallets : \E m \in SUBSET FilesOf(v) :
                    /\ store' = Append(store, [wallet |-> v, files |-> m])
                    /\ [wallet |-> v, files |-> m] \in Manifest
           /\ store' \in Seq(Manifest)
           /\ Len(store) \in Nat /\ Len(store') \in Nat /\ Len(store) <= Len(store')
           /\ restoring' \in Key /\ restoring'.cid \in DOMAIN store'
           /\ UNCHANGED <<session, seen, ptr, up, list>>
<1>1. seen.wallet \in Wallets
  BY SessionsType DEF StartRestore, MaybeWallet
<1>2. ASSUME NEW v \in Wallets PROVE FilesOf(v) \in SUBSET Uploads
  BY StoreType DEF FilesOf
<1>3. Len(store) \in Nat /\ DOMAIN store = 1 .. Len(store)
  BY DEF TypeOK
<1>4. ASSUME UNCHANGED store, NEW c \in DOMAIN store,
             restoring' = [wallet |-> seen.wallet, cid |-> c]
      PROVE  /\ store' \in Seq(Manifest) /\ Len(store') = Len(store)
             /\ restoring' \in Key /\ restoring'.cid \in DOMAIN store'
  BY <1>1, <1>3, <1>4 DEF Key, TypeOK
<1>5. ASSUME NEW v \in Wallets, NEW m \in SUBSET FilesOf(v),
             store' = Append(store, [wallet |-> v, files |-> m]),
             restoring' = [wallet |-> seen.wallet, cid |-> Len(store')]
      PROVE  /\ [wallet |-> v, files |-> m] \in Manifest
             /\ store' \in Seq(Manifest)
             /\ Len(store') \in Nat /\ Len(store) <= Len(store')
             /\ restoring' \in Key /\ restoring'.cid \in DOMAIN store'
  <2>1. [wallet |-> v, files |-> m] \in Manifest
    BY <1>2 DEF Manifest
  <2>2. /\ store' \in Seq(Manifest) /\ Len(store') = Len(store) + 1
        /\ DOMAIN store' = 1 .. Len(store')
    BY <1>5, <2>1, StoreAppend DEF TypeOK
  <2>3. QED
    BY <1>1, <1>3, <1>5, <2>1, <2>2 DEF Key
<1>6. ASSUME NEW v \in Wallets, NEW m \in SUBSET FilesOf(v),
             store' = Append(store, [wallet |-> v, files |-> m])
      PROVE  \E x \in Wallets : \E y \in SUBSET FilesOf(x) :
                /\ store' = Append(store, [wallet |-> x, files |-> y])
                /\ [wallet |-> x, files |-> y] \in Manifest
  BY <1>2, <1>6 DEF Manifest
<1>7. UNCHANGED <<session, seen, ptr, up, list>>
  BY DEF StartRestore
<1>8. CASE /\ \E v \in Wallets : \E m \in SUBSET FilesOf(v) :
                 store' = Append(store, [wallet |-> v, files |-> m])
           /\ restoring' = [wallet |-> seen.wallet, cid |-> Len(store')]
  <2>1. PICK v \in Wallets : \E m \in SUBSET FilesOf(v) :
             store' = Append(store, [wallet |-> v, files |-> m])
    BY <1>8
  <2>2. PICK m \in SUBSET FilesOf(v) : store' = Append(store, [wallet |-> v, files |-> m])
    BY <2>1
  <2>3. restoring' = [wallet |-> seen.wallet, cid |-> Len(store')]
    BY <1>8
  <2>4. QED
    BY <1>1, <1>3, <1>5, <1>6, <1>7, <2>2, <2>3
<1>9. CASE UNCHANGED store /\ \E c \in DOMAIN store : restoring' = [wallet |-> seen.wallet, cid |-> c]
  BY <1>1, <1>3, <1>4, <1>7, <1>9
<1>10. QED
  BY <1>8, <1>9 DEF StartRestore

\* A refresh keeps the variables of the list typed.
LEMMA RefreshType ==
    ASSUME TypeOK, NEW s \in Session, Refresh(s),
           ptr' \in [Wallets -> Nat]
    PROVE  /\ files' \in Key \cup {None}
           /\ lastKey' = lastKey
           /\ load' \in Key \cup {None}
           /\ late' \in BOOLEAN
           /\ missed' \in BOOLEAN
<1>1. CASE ~Ready(s)
  BY <1>1 DEF TypeOK, Refresh
<1>2. CASE Ready(s)
  <2>1. s.wallet \in Wallets
    BY <1>2, SessionType DEF Ready, Gate, MaybeWallet
  <2>2. [wallet |-> s.wallet, cid |-> ptr'[s.wallet]] \in Key
    BY <2>1 DEF Key
  <2>3. (~(Ready(seen') /\ s.wallet = seen'.wallet)) \in BOOLEAN
    OBVIOUS
  <2>4. QED
    BY <1>2, <2>2, <2>3 DEF TypeOK, Refresh, list
<1>3. QED
  BY <1>1, <1>2

\* Closing the vault leaves a typed session of the wallet it is closed on.
LEMMA BecomesType ==
    ASSUME TypeOK, NEW w \in MaybeWallet, Vault!Becomes(w), Vault!Crosses \/ unlock' = "none"
    PROVE  /\ Vault!TypeOK'
           /\ sess'.wallet = w
           /\ ~sess'.open
<1>1. PICK v \in BOOLEAN : sess' = [wallet |-> w, open |-> FALSE, verified |-> v,
                                    ready |-> FALSE]
  BY DEF Vault!Becomes, Vault!Closed
<1>2. unlock' \in Vault!Calls
  BY DEF TypeOK, Vault!TypeOK, Vault!Crosses, Vault!Calls
<1>3. QED
  BY <1>1, <1>2 DEF Vault!TypeOK, Vault!Session, Vault!MaybeWallet, MaybeWallet

\* The other moves of the session keep its types and its wallet.
LEMMA VaultType ==
    ASSUME TypeOK, Vault!Announce \/ Vault!Begin \/ Vault!Open \/ Vault!Refuse
    PROVE  /\ Vault!TypeOK'
           /\ sess'.wallet = sess.wallet
<1> USE DEF TypeOK, Vault!TypeOK
<1>1. CASE Vault!Announce
  BY <1>1 DEF Vault!Announce, Vault!Session
<1>2. CASE Vault!Begin \/ Vault!Refuse
  BY <1>2 DEF Vault!Begin, Vault!Refuse, Vault!Calls
<1>3. CASE Vault!Open
  <2>1. PICK r \in BOOLEAN : sess' = [wallet |-> sess.wallet, open |-> TRUE,
                                      verified |-> TRUE, ready |-> r]
    BY <1>3 DEF Vault!Open
  <2>2. unlock' \in Vault!Calls
    BY <1>3 DEF Vault!Open, Vault!Calls
  <2>3. QED
    BY <2>1, <2>2 DEF Vault!Session
<1>4. QED
  BY <1>1, <1>2, <1>3

\* Every step keeps the types; an append needs the wallet of its upload, the end
\* of a restore its manifest.
LEMMA StepTypeOK ==
    ASSUME TypeOK, UploadInv, KeyInv, [Next]_vars
    PROVE  TypeOK'
<1> USE DEF session, identity, manifests, list, MaybeWallet
<1>1. ASSUME NEW w \in Wallets, AdapterConnects(w) PROVE TypeOK'
  <2>1. Vault!TypeOK'
    BY <1>1, BecomesType DEF AdapterConnects, Connected, Vault!Connect
  <2>2. prompt' \in Prompt \cup {None}
    BY <1>1 DEF TypeOK, AdapterConnects, Prompt
  <2>3. QED
    BY <1>1, <2>1, <2>2 DEF TypeOK, AdapterConnects
<1>2. CASE AdapterLost \/ Disconnect
  BY <1>2 DEF TypeOK, AdapterLost, Disconnect, Vault!TypeOK
<1>3. CASE StartVerify
  BY <1>3 DEF TypeOK, StartVerify, Prompt, Vault!TypeOK
<1>16. CASE Signed
  <2>1. Vault!TypeOK'
    BY <1>16, VaultType DEF Signed
  <2>2. prompt.wallet \in Wallets /\ prompt.switched \in BOOLEAN
    BY <1>16 DEF TypeOK, Signed, Prompt
  <2>3. QED
    BY <1>16, <2>1, <2>2 DEF TypeOK, Signed
<1>17. CASE VerifyFails
  BY <1>17 DEF TypeOK, VerifyFails, Vault!TypeOK
<1>4. CASE Clear
  <2>1. sess.wallet \in MaybeWallet
    BY SessionType DEF TypeOK, Vault!TypeOK, Session
  <2>2. Vault!TypeOK'
    BY <1>4, <2>1, BecomesType DEF Clear, Vault!Lock
  <2>3. QED
    BY <1>4, <2>2 DEF TypeOK, Clear
<1>0. CASE StartUnlock \/ UnlockEnds \/ UnlockRefused \/ Event
  <2>1. Vault!TypeOK'
    BY <1>0, VaultType DEF StartUnlock, UnlockEnds, UnlockRefused, Event
  <2>2. QED
    BY <1>0, <2>1 DEF TypeOK, StartUnlock, UnlockEnds, UnlockRefused, Event
<1>15. CASE Reload
  <2>1. Vault!TypeOK'
    BY <1>15, BecomesType DEF Reload, Vault!Reload
  <2>2. seen' \in Session
    BY <1>15, <2>1 DEF Reload, Vault!TypeOK, Session
  <2>3. up' \in [Uploads -> [pc : Phases, wallet : MaybeWallet]]
    BY <1>15 DEF Reload, TypeOK, NoUpload, Phases
  <2>4. QED
    BY <1>15, <2>1, <2>2, <2>3 DEF Reload, TypeOK
<1>5. CASE Render
  <2>1. sess \in Session /\ seen' = sess /\ ptr' \in [Wallets -> Nat]
    BY <1>5, SessionsType DEF Render, TypeOK
  <2>2. CASE Refresh(seen')
    BY <1>5, <2>1, <2>2, RefreshType DEF Render, TypeOK, Vault!TypeOK
  <2>3. CASE UNCHANGED list
    BY <1>5, <2>1, <2>3 DEF Render, TypeOK, Vault!TypeOK
  <2>4. QED
    BY <1>5, <2>2, <2>3 DEF Render
<1>6. CASE LoadReturns
  BY <1>6 DEF TypeOK, LoadReturns, Left, Vault!TypeOK
<1>7. CASE InitReturns
  <2>1. load \in Key /\ load.wallet \in Wallets
    BY <1>7 DEF InitReturns, TypeOK, Key
  <2>2. /\ store' \in Seq(Manifest)
        /\ Len(store') = Len(store) + 1 /\ Len(store) \in Nat
    <3>1. [wallet |-> load.wallet, files |-> {}] \in Manifest
      BY <2>1 DEF Manifest
    <3>2. QED
      BY <1>7, <3>1, StoreAppend DEF InitReturns, TypeOK
  <2>3. ptr' \in [Wallets -> 0 .. Len(store')]
    BY <1>7, <2>1, <2>2 DEF InitReturns, TypeOK
  <2>4. files' \in Key
    BY <1>7, <2>1, <2>2 DEF InitReturns, Key
  <2>5. QED
    BY <1>7, <2>2, <2>3, <2>4 DEF InitReturns, TypeOK, Left, Vault!TypeOK
<1>8. CASE RestoreRequired \/ LoadFails
  BY <1>8 DEF TypeOK, RestoreRequired, LoadFails, Vault!TypeOK
<1>9. CASE StartRestore
  <2>1. /\ store' \in Seq(Manifest) /\ restoring' \in Key
        /\ Len(store) \in Nat /\ Len(store') \in Nat /\ Len(store) <= Len(store')
        /\ UNCHANGED <<session, seen, ptr, up, list>>
    BY <1>9, StartRestoreFacts
  <2>2. ptr' \in [Wallets -> 0 .. Len(store')]
    BY <2>1 DEF TypeOK
  <2>3. QED
    BY <2>1, <2>2 DEF TypeOK, Vault!TypeOK
<1>18. CASE RestoreEnds
  <2>1. Vault!TypeOK'
    BY <1>18, VaultType DEF RestoreEnds
  <2>2. restoring.cid \in 0 .. Len(store)
    BY <1>18 DEF RestoreEnds, TypeOK, Key, KeyInv
  <2>3. QED
    BY <1>18, <2>1, <2>2 DEF TypeOK, RestoreEnds
<1>19. CASE RestoreFails
  BY <1>19 DEF TypeOK, RestoreFails, Vault!TypeOK
<1>10. ASSUME NEW u \in Uploads, StartUpload(u) PROVE TypeOK'
  BY <1>10, SessionsType DEF TypeOK, StartUpload, Phases, Vault!TypeOK
<1>11. ASSUME NEW u \in Uploads, Appended(u) PROVE TypeOK'
  <2> DEFINE s == Opened(up[u].wallet)
  <2>1. up[u].wallet \in Wallets /\ s \in Session
    BY <1>11, SessionType DEF Appended, UploadInv, Opened
  <2>3. /\ store' \in Seq(Manifest)
        /\ Len(store') = Len(store) + 1 /\ Len(store) \in Nat
        /\ ptr' \in [Wallets -> 0 .. Len(store')]
    BY <1>11, <2>1, AppendType DEF Appended
  <2>5. ptr' \in [Wallets -> Nat]
    BY <2>3
  <2>6. /\ files' \in Key \cup {None}
        /\ lastKey' = lastKey
        /\ load' \in Key \cup {None}
        /\ late' \in BOOLEAN
        /\ missed' \in BOOLEAN
    <3> HIDE DEF s
    <3>1. Refresh(s)
      BY <1>11 DEF Appended, s
    <3>2. QED
      BY <2>1, <2>5, <3>1, RefreshType
  <2>7. QED
    BY <1>11, <2>3, <2>6 DEF Appended, TypeOK, Phases, Vault!TypeOK
<1>12. ASSUME NEW u \in Uploads, UploadFails(u) PROVE TypeOK'
  BY <1>12 DEF TypeOK, UploadFails, NoUpload, Phases, Vault!TypeOK
<1>13. CASE UNCHANGED vars
  BY <1>13 DEF TypeOK, Vault!TypeOK, vars
<1>14. QED
  BY <1>1, <1>2, <1>3, <1>4, <1>5, <1>6, <1>7, <1>8, <1>9, <1>10, <1>11, <1>12, <1>13,
     <1>0, <1>15, <1>16, <1>17, <1>18, <1>19
  DEF Next, LoadSettles

-----------------------------------------------------------------------------
(* The session. *)

\* The steps of the session, which the page is only told of.
SessionMoves ==
    \/ \E w \in Wallets : AdapterConnects(w)
    \/ AdapterLost \/ Disconnect
    \/ StartVerify \/ Signed \/ VerifyFails
    \/ Clear \/ Event
    \/ StartUnlock \/ UnlockEnds \/ UnlockRefused

\* They change nothing of the page, and what they change of the session is due.
LEMMA SessionStep ==
    ASSUME SessionMoves
    PROVE  /\ UNCHANGED <<seen, store, ptr, restoring, files, lastKey, load, up, late, missed>>
           /\ due' = TRUE \/ UNCHANGED <<sess, due>>
BY DEF SessionMoves, AdapterConnects, AdapterLost, Disconnect, StartVerify, Signed, VerifyFails,
       Clear, Event, StartUnlock, UnlockEnds, UnlockRefused, Vault!Begin, Vault!Refuse, list,
       manifests

\* The steps of the list, of the uploads and of a restore that begins or fails.
PageMoves ==
    \/ LoadSettles \/ StartRestore \/ RestoreFails
    \/ \E u \in Uploads : StartUpload(u) \/ Appended(u) \/ UploadFails(u)

\* They leave the session alone.
LEMMA PageStep ==
    ASSUME PageMoves
    PROVE  UNCHANGED <<adapter, proof, prompt, sess, unlock, due, switched, seen>>
BY DEF PageMoves, LoadSettles, LoadReturns, InitReturns, RestoreRequired, LoadFails, StartRestore,
       RestoreFails, StartUpload, Appended, UploadFails, session, identity

\* The cases of a step.
LEMMA StepCases ==
    ASSUME [Next]_vars
    PROVE  \/ SessionMoves \/ Render \/ LoadSettles \/ Reload
           \/ StartRestore \/ RestoreEnds \/ RestoreFails
           \/ \E u \in Uploads : StartUpload(u) \/ Appended(u) \/ UploadFails(u)
           \/ UNCHANGED vars
BY DEF Next, SessionMoves

\* What is open in the session and on the page is of one wallet, and no unlock
\* runs on an open vault.
LEMMA StepRender ==
    ASSUME TypeOK, RenderInv, [Next]_vars
    PROVE  RenderInv'
<1>1. ASSUME NEW w \in Wallets, AdapterConnects(w) PROVE RenderInv'
  <2>1. due' = TRUE /\ ~sess'.open
    BY <1>1, BecomesType DEF AdapterConnects, Connected, Vault!Connect, MaybeWallet
  <2>2. QED
    BY <2>1 DEF RenderInv
<1>2. CASE AdapterLost \/ Disconnect \/ StartVerify \/ VerifyFails
  BY <1>2 DEF AdapterLost, Disconnect, StartVerify, VerifyFails, RenderInv
<1>3. CASE Signed \/ Event \/ RestoreEnds
  <2>1. /\ due' = TRUE /\ seen' = seen /\ unlock' = unlock
        /\ sess'.open = sess.open /\ sess'.wallet = sess.wallet
    BY <1>3, SessionType, SessionsType DEF Signed, Event, RestoreEnds, Vault!Announce
  <2>2. QED
    BY <2>1 DEF RenderInv
<1>4. CASE StartUnlock \/ UnlockRefused
  BY <1>4 DEF StartUnlock, UnlockRefused, Vault!Begin, Vault!Refuse, RenderInv
<1>5. CASE UnlockEnds
  <2>1. seen = sess /\ ~sess.open
    BY <1>5 DEF UnlockEnds, Vault!Open, RenderInv
  <2>2. due' = TRUE /\ seen' = seen /\ unlock' = "none"
    BY <1>5 DEF UnlockEnds, Vault!Open
  <2>3. QED
    BY <2>1, <2>2 DEF RenderInv
<1>6. CASE Clear
  <2>1. ~sess'.open /\ due' = TRUE
    BY <1>6, SessionsType, BecomesType DEF Clear, Vault!Lock
  <2>2. QED
    BY <2>1 DEF RenderInv
<1>7. CASE Reload
  <2>1. ~sess'.open /\ seen' = sess'
    BY <1>7, BecomesType DEF Reload, Vault!Reload, MaybeWallet
  <2>2. QED
    BY <2>1 DEF RenderInv
<1>8. CASE Render
  BY <1>8 DEF Render, RenderInv
<1>10. CASE PageMoves
  BY <1>10, PageStep DEF RenderInv
<1>11. CASE UNCHANGED vars
  BY <1>11 DEF vars, RenderInv
<1>12. QED
  BY <1>1, <1>2, <1>3, <1>4, <1>5, <1>6, <1>7, <1>8, <1>10, <1>11, StepCases
  DEF SessionMoves, PageMoves

\* The proof and the prompt follow the wallet, or the history says they did not.
LEMMA StepProof ==
    ASSUME TypeOK, ProofInv, [Next]_vars
    PROVE  ProofInv'
<1>1. ASSUME NEW w \in Wallets, AdapterConnects(w) PROVE ProofInv'
  <2>1. sess'.wallet = w /\ adapter' = w
    BY <1>1, BecomesType DEF AdapterConnects, Connected, Vault!Connect, MaybeWallet
  <2>2. ASSUME prompt' # None, ~prompt'.switched PROVE prompt'.wallet = w
    <3>1. prompt # None /\ prompt \in Prompt
      BY <1>1, <2>2 DEF AdapterConnects, TypeOK
    <3>2. /\ prompt'.wallet = prompt.wallet
          /\ prompt'.switched = (prompt.switched \/ prompt.wallet # w)
      BY <1>1, <3>1 DEF AdapterConnects, Prompt
    <3>3. QED
      BY <2>2, <3>2
  <2>3. QED
    BY <1>1, <2>1, <2>2 DEF AdapterConnects, ProofInv
<1>2. CASE AdapterLost \/ Disconnect
  BY <1>2 DEF AdapterLost, Disconnect, ProofInv, identity
<1>3. CASE StartVerify
  <2>1. /\ prompt'.wallet = adapter /\ UNCHANGED <<adapter, proof, switched, sess>>
        /\ adapter # None
    BY <1>3 DEF StartVerify
  <2>2. QED
    BY <2>1 DEF ProofInv
<1>11. CASE Signed
  <2>1. sess'.wallet = sess.wallet
    BY <1>11, VaultType DEF Signed
  <2>2. QED
    BY <1>11, <2>1 DEF Signed, ProofInv
<1>12. CASE VerifyFails
  BY <1>12 DEF VerifyFails, ProofInv
<1>4. CASE Event \/ StartUnlock \/ UnlockEnds \/ UnlockRefused \/ RestoreEnds
  <2>1. sess'.wallet = sess.wallet
    BY <1>4, VaultType DEF Event, StartUnlock, UnlockEnds, UnlockRefused, RestoreEnds
  <2>2. UNCHANGED <<adapter, proof, prompt, switched>>
    BY <1>4 DEF Event, StartUnlock, UnlockEnds, UnlockRefused, RestoreEnds, identity
  <2>3. QED
    BY <2>1, <2>2 DEF ProofInv
<1>5. CASE Clear
  <2>1. sess'.wallet = sess.wallet
    BY <1>5, SessionsType, BecomesType DEF Clear, Vault!Lock
  <2>2. QED
    BY <1>5, <2>1 DEF Clear, ProofInv
<1>6. CASE Reload
  BY <1>6 DEF Reload, ProofInv
<1>7. CASE Render
  BY <1>7 DEF Render, ProofInv, identity
<1>8. CASE PageMoves
  BY <1>8, PageStep DEF ProofInv
<1>9. CASE UNCHANGED vars
  BY <1>9 DEF vars, ProofInv
<1>10. QED
  BY <1>1, <1>2, <1>3, <1>4, <1>5, <1>6, <1>7, <1>8, <1>9, <1>11, <1>12, StepCases
  DEF SessionMoves, PageMoves

-----------------------------------------------------------------------------
(* Uploads. *)

\* What is stored stays, and a manifest that is added is the last.
LEMMA StoreAfter ==
    ASSUME TypeOK, NEW m \in Manifest, store' = Append(store, m)
    PROVE  /\ DOMAIN store' = DOMAIN store \cup {Len(store')}
           /\ Len(store') = Len(store) + 1 /\ Len(store) \in Nat
           /\ store'[Len(store')] = m
           /\ \A c \in DOMAIN store : c # Len(store') /\ store'[c] = store[c]
<1>1. /\ Len(store') = Len(store) + 1 /\ Len(store) \in Nat
      /\ DOMAIN store = 1 .. Len(store) /\ DOMAIN store' = 1 .. Len(store) + 1
      /\ store'[Len(store')] = m
      /\ \A i \in 1 .. Len(store) : store'[i] = store[i]
  BY StoreAppend DEF TypeOK
<1>2. QED
  BY <1>1

\* A manifest may be added if what it lists ended, for the wallet it is sealed
\* for; the list shown may change to that of a manifest of its wallet.
LEMMA ManifestAdded ==
    ASSUME TypeOK, UploadInv, EntryOfWallet, NEW m \in Manifest,
           store' = Append(store, m),
           \A u \in Uploads : up'[u] = up[u] \/ (up[u].pc # "appended" /\
                                (up'[u].pc # "idle" => up'[u].wallet \in Wallets)),
           \A u \in m.files : up'[u].pc = "appended" /\ up'[u].wallet = m.wallet,
           \/ files' \in {None, files}
           \/ files'.cid = Len(store') /\ files'.wallet = m.wallet
    PROVE  UploadInv' /\ EntryOfWallet'
<1>1. /\ DOMAIN store' = DOMAIN store \cup {Len(store')}
      /\ store'[Len(store')] = m
      /\ \A c \in DOMAIN store : c # Len(store') /\ store'[c] = store[c]
  BY StoreAfter
<1>2. \A c \in DOMAIN store : \A u \in store[c].files : u \in Uploads /\ up'[u] = up[u]
  BY StoreType DEF UploadInv
<1>3. UploadInv'
  BY <1>1, <1>2 DEF UploadInv
<1>4. \A c \in DOMAIN store' : \A u \in store'[c].files : up'[u].wallet = store'[c].wallet
  BY <1>1, <1>2 DEF EntryOfWallet
<1>5. files' # None => files'.cid \in DOMAIN store' /\ store'[files'.cid].wallet = files'.wallet
  BY <1>1 DEF EntryOfWallet
<1>6. QED
  BY <1>3, <1>4, <1>5 DEF EntryOfWallet

\* Where nothing is stored, an upload that is listed may not change.
LEMMA UploadChanged ==
    ASSUME TypeOK, UploadInv, EntryOfWallet, store' = store,
           \A u \in Uploads : up'[u] = up[u] \/ (up[u].pc # "appended" /\
                                (up'[u].pc # "idle" => up'[u].wallet \in Wallets)),
           \/ files' \in {None, files}
           \/ files'.cid \in DOMAIN store /\ store[files'.cid].wallet = files'.wallet
    PROVE  UploadInv' /\ EntryOfWallet'
<1>1. \A c \in DOMAIN store : \A u \in store[c].files : u \in Uploads /\ up'[u] = up[u]
  BY StoreType DEF UploadInv
<1>2. UploadInv'
  BY <1>1 DEF UploadInv
<1>3. QED
  BY <1>1, <1>2 DEF EntryOfWallet

\* A refresh shows no list.
LEMMA RefreshFiles ==
    ASSUME NEW s, Refresh(s)
    PROVE  files' \in {None, files}
BY DEF Refresh, list

\* The steps that store no manifest and begin no upload.
LEMMA QuietStep ==
    ASSUME \/ SessionMoves \/ Render \/ LoadReturns \/ RestoreRequired \/ LoadFails
           \/ RestoreEnds \/ RestoreFails \/ UNCHANGED vars
    PROVE  UNCHANGED <<store, up>>
BY SessionStep
DEF Render, LoadReturns, RestoreRequired, LoadFails, RestoreEnds, RestoreFails, vars, manifests

\* An upload is listed after it began, in manifests of the wallet it began with.
LEMMA StepUpload ==
    ASSUME TypeOK, UploadInv, KeyInv, EntryOfWallet, [Next]_vars
    PROVE  UploadInv' /\ EntryOfWallet'
<1>1. CASE \/ SessionMoves \/ Render \/ RestoreRequired \/ LoadFails
           \/ RestoreEnds \/ RestoreFails \/ UNCHANGED vars
  <2>1. files' \in {None, files}
    BY <1>1, SessionStep, RefreshFiles
    DEF Render, RestoreRequired, LoadFails, RestoreEnds, RestoreFails, list, vars
  <2>2. QED
    BY <1>1, <2>1, QuietStep, UploadChanged
<1>2. CASE LoadReturns
  <2>1. load \in Key /\ load.cid \in DOMAIN store /\ store[load.cid].wallet = load.wallet
    BY <1>2, PointerType DEF LoadReturns, KeyInv, TypeOK, Key
  <2>2. QED
    BY <1>2, <2>1, QuietStep, UploadChanged DEF LoadReturns
<1>3. CASE InitReturns
  <2>1. [wallet |-> load.wallet, files |-> {}] \in Manifest
    BY <1>3 DEF InitReturns, TypeOK, Key, Manifest
  <2>2. QED
    BY <1>3, <2>1, ManifestAdded DEF InitReturns
<1>4. CASE StartRestore
  <2>1. /\ UNCHANGED <<up, files>>
        /\ \/ store' = store
           \/ \E v \in Wallets : \E m \in SUBSET FilesOf(v) :
                 /\ store' = Append(store, [wallet |-> v, files |-> m])
                 /\ [wallet |-> v, files |-> m] \in Manifest
    BY <1>4, StartRestoreFacts DEF list
  <2>2. ASSUME NEW v \in Wallets, NEW u \in FilesOf(v)
        PROVE  up[u].pc = "appended" /\ up[u].wallet = v
    BY <2>2 DEF FilesOf, UploadInv, EntryOfWallet
  <2>3. ASSUME NEW v \in Wallets, NEW m \in SUBSET FilesOf(v),
               store' = Append(store, [wallet |-> v, files |-> m]),
               [wallet |-> v, files |-> m] \in Manifest
        PROVE  UploadInv' /\ EntryOfWallet'
    BY <2>1, <2>2, <2>3, ManifestAdded
  <2>4. QED
    BY <2>1, <2>3, UploadChanged
<1>5. ASSUME NEW u \in Uploads, StartUpload(u) PROVE UploadInv' /\ EntryOfWallet'
  <2>1. /\ up[u].pc = "idle" /\ UNCHANGED <<store, files>>
        /\ seen.wallet \in Wallets
        /\ up' = [up EXCEPT ![u] = [pc |-> "sending", wallet |-> seen.wallet]]
    BY <1>5, SessionsType DEF StartUpload, Ready, Gate, MaybeWallet, list, manifests
  <2>2. up'[u].wallet = seen.wallet /\ \A v \in Uploads \ {u} : up'[v] = up[v]
    BY <2>1 DEF TypeOK
  <2>3. QED
    BY <2>1, <2>2, UploadChanged
<1>6. ASSUME NEW u \in Uploads, Appended(u) PROVE UploadInv' /\ EntryOfWallet'
  <2> PICK w0 \in Wallets : w0 = up[u].wallet
    BY <1>6 DEF Appended, UploadInv
  <2>1. /\ AppendEntry(w0, u) /\ up[u].pc = "sending"
        /\ up' = [up EXCEPT ![u].pc = "appended"]
        /\ files' \in {None, files}
    BY <1>6, RefreshFiles DEF Appended
  <2>2. PICK b \in Bases(w0) : /\ store' = Append(store, [wallet |-> w0, files |-> b \cup {u}])
                               /\ [wallet |-> w0, files |-> b \cup {u}] \in Manifest
    BY <2>1, AppendType
  <2> DEFINE m == [wallet |-> w0, files |-> b \cup {u}]
  <2>3. /\ up'[u].wallet = w0 /\ up'[u].pc = "appended"
        /\ \A v \in Uploads \ {u} : up'[v] = up[v]
    BY <2>1 DEF TypeOK
  <2>4. \A v \in b : up[v].pc = "appended" /\ up[v].wallet = w0 /\ v \in Uploads
    BY StoreType DEF Bases, UploadInv, EntryOfWallet
  <2>5. \A v \in m.files : up'[v].pc = "appended" /\ up'[v].wallet = m.wallet
    BY <2>3, <2>4
  <2>6. QED
    BY <2>1, <2>2, <2>3, <2>5, ManifestAdded
<1>7. ASSUME NEW u \in Uploads, UploadFails(u) PROVE UploadInv' /\ EntryOfWallet'
  <2>1. /\ up[u].pc = "sending" /\ UNCHANGED <<store, files>>
        /\ up' = [up EXCEPT ![u] = NoUpload]
    BY <1>7 DEF UploadFails, list, manifests
  <2>2. /\ up'[u] = NoUpload /\ NoUpload.pc = "idle"
        /\ \A v \in Uploads \ {u} : up'[v] = up[v]
    BY <2>1 DEF TypeOK, NoUpload
  <2>3. QED
    BY <2>1, <2>2, UploadChanged
<1>8. CASE Reload
  <2>1. /\ store' = store /\ files' = None
        /\ \A u \in Uploads : \/ up'[u] = up[u]
                              \/ up[u].pc = "sending" /\ up'[u].pc = "idle"
    BY <1>8 DEF Reload, NoUpload
  <2>2. QED
    BY <2>1, UploadChanged
<1>9. QED
  BY <1>1, <1>2, <1>3, <1>4, <1>5, <1>6, <1>7, <1>8, StepCases DEF LoadSettles

-----------------------------------------------------------------------------
(* The list. *)

\* A refresh through an open gate shows nothing yet: it is dropped, it is not
\* needed, or it begins a load.
LEMMA RefreshCases ==
    ASSUME NEW s, Refresh(s), Ready(s)
    PROVE  /\ UNCHANGED <<files, lastKey, late>>
           /\ \/ load # None /\ load' = load /\ missed'
              \/ load = None /\ KeyOf(s) = lastKey /\ load' = load /\ missed' = missed
              \/ /\ load = None /\ KeyOf(s) # lastKey
                 /\ load' = KeyOf(s)
                 /\ missed' = (s.wallet # seen'.wallet)
BY DEF Refresh, list, KeyOf

\* What an append and the refresh that follows do to the pointers and the list.
LEMMA AppendRefreshes ==
    ASSUME TypeOK, UploadInv, NEW u \in Uploads, Appended(u)
    PROVE  /\ up[u].wallet \in Wallets
           /\ UNCHANGED <<seen, due, files, lastKey, late, restoring>>
           /\ Len(store') = Len(store) + 1 /\ Len(store) \in Nat
           /\ ptr' = [ptr EXCEPT ![up[u].wallet] = Len(store')]
           /\ \/ load # None /\ load' = load /\ missed'
              \/ /\ load = None
                 /\ KeyOf(Opened(up[u].wallet)) = lastKey /\ load' = load /\ missed' = missed
              \/ /\ load = None
                 /\ load' = KeyOf(Opened(up[u].wallet))
                 /\ missed' = (up[u].wallet # seen.wallet)
<1>1. up[u].wallet \in Wallets /\ Refresh(Opened(up[u].wallet))
  BY DEF Appended, UploadInv
<1>2. Ready(Opened(up[u].wallet)) /\ Opened(up[u].wallet).wallet = up[u].wallet
  BY <1>1, NoneType DEF Ready, Gate, Opened
<1>3. /\ UNCHANGED <<seen, due, restoring>>
      /\ ptr' = [ptr EXCEPT ![up[u].wallet] = Len(store')]
  BY DEF Appended, AppendEntry, session
<1>4. Len(store') = Len(store) + 1 /\ Len(store) \in Nat
  BY <1>1, AppendType DEF Appended
<1>6. QED
  BY <1>1, <1>2, <1>3, <1>4, RefreshCases

\* The list shown is of the open vault.
LEMMA StepList ==
    ASSUME TypeOK, RenderInv, UploadInv, ListOfOpenVault, [Next]_vars
    PROVE  ListOfOpenVault'
<1>1. ASSUME UNCHANGED <<files, late, seen>> PROVE ListOfOpenVault'
  BY <1>1 DEF ListOfOpenVault, Ready, Gate
<1>2. CASE Render
  <2>1. seen' = sess /\ (Refresh(seen') \/ UNCHANGED list)
    BY <1>2 DEF Render
  <2>2. CASE UNCHANGED list /\ seen' = seen
    BY <1>1, <2>2 DEF list
  <2>3. CASE Refresh(seen') /\ ~Ready(seen')
    BY <2>3 DEF Refresh, ListOfOpenVault
  <2>4. CASE Refresh(seen') /\ Ready(seen')
    <3>1. UNCHANGED <<files, late>>
      BY <2>4, RefreshCases
    <3>2. ASSUME files # None, ~late PROVE files.wallet = seen'.wallet
      BY <2>1, <2>4, <3>2 DEF ListOfOpenVault, RenderInv, Ready, Gate
    <3>3. QED
      BY <2>4, <3>1, <3>2 DEF ListOfOpenVault, Ready, Gate
  <2>5. CASE UNCHANGED list /\ ~(sess # seen \/ sess.verified)
    BY <2>1, <2>2, <2>5
  <2>6. QED
    BY <1>2, <2>3, <2>4, <2>5 DEF Render
<1>3. CASE LoadReturns
  BY <1>3 DEF LoadReturns, Left, ListOfOpenVault, Ready, Gate
<1>4. CASE InitReturns
  BY <1>4 DEF InitReturns, Left, ListOfOpenVault, Ready, Gate
<1>5. CASE RestoreRequired
  BY <1>5 DEF RestoreRequired, ListOfOpenVault
<1>6. CASE \/ SessionMoves \/ LoadFails \/ UNCHANGED vars
           \/ StartRestore \/ RestoreEnds \/ RestoreFails
  BY <1>1, <1>6, SessionStep DEF LoadFails, StartRestore, RestoreEnds, RestoreFails, list, vars
<1>7. ASSUME NEW u \in Uploads, StartUpload(u) \/ Appended(u) \/ UploadFails(u)
      PROVE  ListOfOpenVault'
  <2>1. CASE StartUpload(u) \/ UploadFails(u)
    BY <1>1, <2>1 DEF StartUpload, UploadFails, list
  <2>2. CASE Appended(u)
    BY <1>1, <2>2, AppendRefreshes
  <2>3. QED
    BY <1>7, <2>1, <2>2
<1>8. CASE Reload
  BY <1>8 DEF Reload, ListOfOpenVault
<1>9. QED
  BY <1>2, <1>3, <1>4, <1>5, <1>6, <1>7, <1>8, StepCases DEF LoadSettles

\* A new manifest outruns every CID in use.
LEMMA InitFacts ==
    ASSUME TypeOK, InitReturns
    PROVE  /\ load \in Key /\ load.wallet \in Wallets
           /\ Len(store') = Len(store) + 1 /\ Len(store) \in Nat
           /\ ptr' = [ptr EXCEPT ![load.wallet] = Len(store')]
           /\ ptr'[load.wallet] = Len(store')
<1>1. load \in Key /\ load.wallet \in Wallets
  BY DEF InitReturns, TypeOK, Key
<1>2. Len(store') = Len(store) + 1 /\ Len(store) \in Nat
  <2>1. [wallet |-> load.wallet, files |-> {}] \in Manifest
    BY <1>1 DEF Manifest
  <2>2. QED
    BY <2>1, StoreAppend DEF InitReturns, TypeOK
<1>3. QED
  BY <1>1, <1>2 DEF InitReturns, TypeOK

\* A restore that ends sets a pointer to a manifest, announces it, and leaves the
\* list alone.
LEMMA RestoreFacts ==
    ASSUME TypeOK, KeyInv, RestoreEnds
    PROVE  /\ restoring.wallet \in Wallets /\ restoring.cid \in 1 .. Len(store)
           /\ ptr' = [ptr EXCEPT ![restoring.wallet] = restoring.cid]
           /\ restoring' = None
           /\ due'
           /\ UNCHANGED <<store, seen, files, lastKey, load, late, missed>>
BY DEF RestoreEnds, KeyInv, TypeOK, Key, list

\* Manifests are only added, and no step takes a pointer away.
LEMMA Grows ==
    ASSUME TypeOK, UploadInv, KeyInv, [Next]_vars
    PROVE  /\ Len(store) \in Nat /\ Len(store') \in Nat /\ Len(store) <= Len(store')
           /\ \A w \in Wallets : ptr[w] # 0 => ptr'[w] # 0
<1>0. Len(store) \in Nat
  BY DEF TypeOK
<1>1. ASSUME NEW w0 \in Wallets, Len(store') = Len(store) + 1,
             ptr' = [ptr EXCEPT ![w0] = Len(store')]
      PROVE  /\ Len(store') \in Nat /\ Len(store) <= Len(store')
             /\ \A w \in Wallets : ptr[w] # 0 => ptr'[w] # 0
  BY <1>0, <1>1 DEF TypeOK
<1>2. CASE UNCHANGED <<store, ptr>>
  BY <1>0, <1>2
<1>3. CASE InitReturns
  BY <1>1, <1>3, InitFacts
<1>4. CASE StartRestore
  BY <1>4, StartRestoreFacts
<1>5. CASE RestoreEnds
  BY <1>0, <1>5, RestoreFacts DEF TypeOK
<1>6. ASSUME NEW u \in Uploads, Appended(u)
      PROVE  /\ Len(store') \in Nat /\ Len(store) <= Len(store')
             /\ \A w \in Wallets : ptr[w] # 0 => ptr'[w] # 0
  BY <1>1, <1>6, AppendRefreshes
<1>7. ASSUME NEW u \in Uploads, StartUpload(u) \/ UploadFails(u)
      PROVE  UNCHANGED <<store, ptr>>
  BY <1>7 DEF StartUpload, UploadFails, manifests
<1>8. CASE \/ SessionMoves \/ Render \/ LoadReturns \/ RestoreRequired \/ LoadFails
           \/ RestoreFails \/ Reload \/ UNCHANGED vars
  BY <1>2, <1>8, SessionStep
  DEF Render, LoadReturns, RestoreRequired, LoadFails, RestoreFails, Reload, manifests, vars
<1>9. QED
  BY <1>2, <1>3, <1>4, <1>5, <1>6, <1>7, <1>8, StepCases DEF LoadSettles

\* The key of a refresh that begins a load is a key of a wallet.
LEMMA KeyType ==
    ASSUME TypeOK, ptr' \in [Wallets -> Nat], NEW s, s.wallet \in Wallets
    PROVE  /\ KeyOf(s) \in Key /\ KeyOf(s) # None
           /\ KeyOf(s).wallet = s.wallet
           /\ KeyOf(s).cid = ptr'[s.wallet]
BY NoneType DEF KeyOf, Key

\* What a render does to the list.
LEMMA RenderCases ==
    ASSUME TypeOK, Render
    PROVE  /\ ~due' /\ seen' = sess /\ UNCHANGED <<store, ptr, restoring, lastKey>>
           /\ \/ missed' /\ load # None /\ UNCHANGED <<files, load>>
              \/ ~Ready(seen') /\ files' \in {None, files} /\ UNCHANGED <<load, missed>>
              \/ /\ KeyOf(seen') = lastKey /\ load = None /\ KeyOf(seen') # None
                 /\ UNCHANGED <<files, load, missed>>
              \/ /\ load = None /\ load' = KeyOf(seen') /\ KeyOf(seen') # None
                 /\ UNCHANGED files
           /\ Ready(seen') => seen'.wallet \in Wallets
           /\ seen'.wallet \in Wallets =>
                /\ KeyOf(seen').wallet = seen'.wallet
                /\ KeyOf(seen').cid = ptr[seen'.wallet]
<1>1. ~due' /\ seen' = sess /\ UNCHANGED <<store, ptr, restoring>>
  BY DEF Render, manifests
<1>2. seen' \in Session /\ ptr' \in [Wallets -> Nat]
  BY <1>1, SessionsType DEF TypeOK
<1>3. CASE Refresh(seen') /\ ~Ready(seen')
  BY <1>1, <1>2, <1>3, KeyType DEF Refresh
<1>4. CASE Refresh(seen') /\ Ready(seen')
  <2>1. seen'.wallet \in Wallets
    BY <1>2, <1>4, SessionType DEF Ready, Gate, MaybeWallet
  <2>2. /\ KeyOf(seen') # None /\ KeyOf(seen').wallet = seen'.wallet
        /\ KeyOf(seen').cid = ptr[seen'.wallet]
    BY <1>1, <1>2, <2>1, KeyType
  <2>3. QED
    BY <1>1, <1>4, <2>1, <2>2, RefreshCases
<1>5. CASE UNCHANGED list /\ ~(sess # seen \/ sess.verified)
  BY <1>1, <1>2, <1>5, KeyType DEF Ready, Gate, list
<1>6. QED
  BY <1>3, <1>4, <1>5 DEF Render

\* A key that is the last one and is that of a pointer set is the list's, if any.
LEMMA LastKeyShown ==
    ASSUME KeyInv, lastKey # None, lastKey.cid = ptr[lastKey.wallet]
    PROVE  files \in {None, lastKey}
BY DEF KeyInv

\* The CIDs held are of manifests made, and the key of the last refresh is that of
\* the list, if it names a manifest.
LEMMA StepKey ==
    ASSUME TypeOK, UploadInv, KeyInv, [Next]_vars
    PROVE  KeyInv'
<1>0. /\ Len(store) \in Nat /\ Len(store') \in Nat /\ Len(store) <= Len(store')
      /\ DOMAIN store = 1 .. Len(store)
      /\ \A w \in Wallets : ptr[w] # 0 => ptr'[w] # 0
      /\ load # None => load.cid \in Nat
      /\ lastKey # None => lastKey.cid \in Nat /\ lastKey.wallet \in Wallets
  BY Grows DEF TypeOK, Key
<1>00. DOMAIN store' = 1 .. Len(store')
  <2>1. TypeOK'
    BY StepTypeOK
  <2>2. QED
    BY <2>1 DEF TypeOK
<1>1. ASSUME files' \in {None, files}, lastKey' = lastKey, load' \in {load, None},
             restoring' \in {restoring, None}
      PROVE  KeyInv'
  BY <1>0, <1>00, <1>1 DEF KeyInv
<1>2. ASSUME files' \in {None, files}, lastKey' = lastKey, load' # None,
             load'.cid <= Len(store'), restoring' = restoring
      PROVE  KeyInv'
  BY <1>0, <1>00, <1>2 DEF KeyInv
<1>4. CASE Render
  <2>1. CASE load' = load /\ files' \in {None, files}
    BY <1>1, <1>4, <2>1, RenderCases
  <2>2. CASE load = None /\ load' = KeyOf(seen') /\ KeyOf(seen') # None /\ UNCHANGED files
             /\ Ready(seen')
    <3>1. seen'.wallet \in Wallets /\ ptr[seen'.wallet] \in 0 .. Len(store)
      BY <1>4, <2>2, RenderCases, PointerType
    <3>2. load'.cid <= Len(store')
      BY <1>0, <1>4, <2>2, <3>1, RenderCases
    <3>3. QED
      BY <1>2, <1>4, <2>2, <3>2, RenderCases
  <2>3. CASE ~Ready(seen')
    <3>1. load' = load /\ files' \in {None, files}
      BY <1>4, <2>3 DEF Render, Refresh, list
    <3>2. QED
      BY <2>1, <3>1
  <2>4. QED
    BY <1>4, <2>1, <2>2, <2>3, RenderCases
<1>5. CASE LoadReturns
  BY <1>0, <1>00, <1>5 DEF LoadReturns, KeyInv, manifests
<1>6. CASE InitReturns
  <2>1. /\ load' = None /\ lastKey' = load /\ load.cid = 0 /\ restoring' = restoring
        /\ load # None /\ load.wallet \in Wallets
    BY <1>6, InitFacts DEF InitReturns
  <2>2. ptr'[load.wallet] # 0
    BY <1>0, <1>6, InitFacts
  <2>3. QED
    BY <1>0, <1>00, <2>1, <2>2 DEF KeyInv
<1>7. CASE RestoreRequired \/ LoadFails
  BY <1>1, <1>7 DEF RestoreRequired, LoadFails, manifests
<1>8. CASE SessionMoves \/ RestoreFails \/ UNCHANGED vars
  BY <1>1, <1>8, SessionStep DEF RestoreFails, list, vars
<1>12. CASE StartRestore
  <2>1. UNCHANGED <<files, lastKey, load>> /\ restoring'.cid \in DOMAIN store'
    BY <1>12, StartRestoreFacts DEF list
  <2>2. QED
    BY <1>0, <2>1 DEF KeyInv
<1>13. CASE RestoreEnds
  BY <1>1, <1>13, RestoreFacts
<1>9. ASSUME NEW u \in Uploads, StartUpload(u) \/ Appended(u) \/ UploadFails(u)
      PROVE  KeyInv'
  <2>1. CASE StartUpload(u) \/ UploadFails(u)
    BY <1>1, <2>1 DEF StartUpload, UploadFails, list, manifests
  <2>2. CASE Appended(u) /\ load' = load
    BY <1>1, <2>2, AppendRefreshes
  <2>3. CASE Appended(u) /\ load' = KeyOf(Opened(up[u].wallet))
    <3>1. ptr'[up[u].wallet] = Len(store') /\ up[u].wallet \in Wallets
      BY <2>3, AppendRefreshes DEF TypeOK
    <3>2. load'.cid = Len(store')
      BY <2>3, <3>1 DEF KeyOf, Opened
    <3>3. load' # None
      BY <1>0, <2>3, <3>1, NoneType DEF KeyOf, Opened, Key
    <3>4. QED
      BY <1>0, <1>2, <2>3, <3>2, <3>3, AppendRefreshes
  <2>4. QED
    BY <1>9, <2>1, <2>2, <2>3, AppendRefreshes
<1>10. CASE Reload
  BY <1>10 DEF Reload, KeyInv
<1>11. QED
  BY <1>4, <1>5, <1>6, <1>7, <1>8, <1>9, <1>10, <1>12, <1>13, StepCases DEF LoadSettles

\* A load is for the pointer, and the list of a page at rest is its manifest or
\* none: a refresh is skipped only for a key whose list is shown or was emptied.
LEMMA StepLoad ==
    ASSUME TypeOK, RenderInv, UploadInv, KeyInv, LoadInv, ListIsCurrent, [Next]_vars
    PROVE  LoadInv' /\ ListIsCurrent'
<1> USE DEF AtRest, Pointer, Skipped
<1>1. ASSUME UNCHANGED <<seen, ptr, files, lastKey, load, missed, due>>
      PROVE  LoadInv' /\ ListIsCurrent'
  BY <1>1 DEF LoadInv, ListIsCurrent, Ready, Gate
<1>2. CASE due' \/ missed'
  BY <1>2 DEF LoadInv, ListIsCurrent
<1>3. CASE SessionMoves
  BY <1>1, <1>2, <1>3, SessionStep
<1>4. CASE Render
  <2>1. CASE ~Ready(seen')
    BY <2>1 DEF LoadInv, ListIsCurrent, Ready, Gate
  <2>2. CASE Ready(seen')
    <3>1. seen'.wallet \in Wallets
      BY <1>4, <2>2, RenderCases
    <3>2. KeyOf(seen') = [wallet |-> seen'.wallet, cid |-> ptr'[seen'.wallet]]
      BY DEF KeyOf
    <3>3. CASE KeyOf(seen') = lastKey /\ load = None /\ KeyOf(seen') # None
               /\ UNCHANGED <<files, load, missed>>
      <4>1. lastKey # None /\ lastKey.cid = ptr[lastKey.wallet]
        BY <1>4, <3>1, <3>3, RenderCases
      <4>2. files \in {None, lastKey} /\ lastKey' = lastKey
        BY <1>4, <4>1, LastKeyShown, RenderCases
      <4>3. QED
        BY <3>2, <3>3, <4>2 DEF LoadInv, ListIsCurrent
    <3>4. CASE load' = KeyOf(seen') /\ KeyOf(seen') # None
      BY <3>2, <3>4 DEF LoadInv, ListIsCurrent
    <3>5. QED
      BY <1>2, <1>4, <2>2, <3>3, <3>4, RenderCases
  <2>3. QED
    BY <2>1, <2>2
<1>5. CASE LoadReturns
  BY <1>5 DEF LoadReturns, session, manifests, LoadInv, ListIsCurrent, Ready, Gate
<1>6. CASE InitReturns
  <2>1. /\ load # None /\ load' = None
        /\ UNCHANGED <<seen, due, missed>>
        /\ files' = [wallet |-> load.wallet, cid |-> Len(store')]
    BY <1>6 DEF InitReturns, session
  <2>2. ptr'[load.wallet] = Len(store')
    BY <1>6, InitFacts
  <2>3. ASSUME ~due, Ready(seen), ~missed PROVE load.wallet = seen.wallet
    BY <2>1, <2>3 DEF LoadInv
  <2>4. QED
    BY <2>1, <2>2, <2>3 DEF LoadInv, ListIsCurrent, Ready, Gate
<1>7. CASE RestoreRequired \/ LoadFails
  BY <1>2, <1>7 DEF RestoreRequired, LoadFails
<1>8. CASE RestoreEnds
  BY <1>2, <1>8 DEF RestoreEnds
<1>13. CASE StartRestore \/ RestoreFails
  BY <1>1, <1>13 DEF StartRestore, RestoreFails, session, list
<1>9. ASSUME NEW u \in Uploads, StartUpload(u) \/ Appended(u) \/ UploadFails(u)
      PROVE  LoadInv' /\ ListIsCurrent'
  <2>1. CASE StartUpload(u) \/ UploadFails(u)
    BY <1>1, <2>1 DEF StartUpload, UploadFails, list, session, manifests
  <2>2. CASE Appended(u)
    <3>1. /\ up[u].wallet \in Wallets
          /\ ptr'[up[u].wallet] = Len(store') /\ Len(store') = Len(store) + 1
          /\ Len(store) \in Nat
      BY <2>2, AppendRefreshes DEF TypeOK
    <3>2. /\ KeyOf(Opened(up[u].wallet)) = [wallet |-> up[u].wallet, cid |-> Len(store')]
          /\ KeyOf(Opened(up[u].wallet)) # None
      <4>1. KeyOf(Opened(up[u].wallet)) = [wallet |-> up[u].wallet, cid |-> Len(store')]
        BY <3>1 DEF KeyOf, Opened
      <4>2. Len(store') \in Nat
        BY <3>1
      <4>3. QED
        BY <3>1, <4>1, <4>2, NoneType DEF Key
    <3>3. KeyOf(Opened(up[u].wallet)) # lastKey
      <4>1. KeyOf(Opened(up[u].wallet)).cid > Len(store)
        BY <3>1, <3>2
      <4>2. lastKey # None => lastKey.cid <= Len(store) /\ lastKey.cid \in Nat
        BY DEF KeyInv, TypeOK, Key
      <4>3. QED
        BY <3>1, <3>2, <4>1, <4>2
    <3>4. CASE missed'
      BY <1>2, <3>4
    <3>5. CASE /\ load' = KeyOf(Opened(up[u].wallet))
               /\ missed' = (up[u].wallet # seen.wallet)
      <4>1. load' # None /\ seen' = seen
        BY <2>2, <3>2, <3>5, AppendRefreshes
      <4>2. ASSUME ~missed' PROVE load' = [wallet |-> seen'.wallet, cid |-> ptr'[seen'.wallet]]
        BY <3>1, <3>2, <3>5, <4>1, <4>2
      <4>3. QED
        BY <4>1, <4>2 DEF LoadInv, ListIsCurrent
    <3>6. QED
      BY <2>2, <3>3, <3>4, <3>5, AppendRefreshes
  <2>3. QED
    BY <1>9, <2>1, <2>2
<1>10. CASE UNCHANGED vars
  BY <1>1, <1>10 DEF vars
<1>11. CASE Reload
  <2>1. ~seen'.open /\ load' = None
    BY <1>11, BecomesType DEF Reload, Vault!Reload, MaybeWallet
  <2>2. QED
    BY <2>1 DEF LoadInv, ListIsCurrent, Ready, Gate
<1>12. QED
  BY <1>3, <1>4, <1>5, <1>6, <1>7, <1>8, <1>9, <1>10, <1>11, <1>13, StepCases DEF LoadSettles

-----------------------------------------------------------------------------
(* The theorems. *)

\* Every step keeps the invariant.
LEMMA NextInv == IInv /\ [Next]_vars => IInv'
BY StepTypeOK, StepRender, StepProof, StepUpload, StepKey, StepLoad, StepList DEF IInv

\* The invariant behind the others: the page, the session and the list agree.
THEOREM Inductive == Spec => []IInv
BY InitInv, NextInv, PTL DEF Spec

\* Whatever the order of events, renders, loads, restores and uploads, the state
\* of the page keeps its types, and no pointer names a manifest that was not made.
THEOREM TypeCorrect == Spec => []TypeOK
<1>1. IInv => TypeOK
  BY DEF IInv
<1>2. QED
  BY <1>1, Inductive, PTL

\* A list on the page is that of the wallet whose vault the page shows open,
\* unless its load outlived the session it began in.
THEOREM ListSafe == Spec => []ListOfOpenVault
<1>1. IInv => ListOfOpenVault
  BY DEF IInv
<1>2. QED
  BY <1>1, Inductive, PTL

\* A page at rest in an open vault shows what the pointer designates, or the empty
\* list de-duplication left after a lock, unless the last load failed, was for
\* another wallet, or a refresh was dropped for it.
THEOREM ListFresh == Spec => []ListIsCurrent
<1>1. IInv => ListIsCurrent
  BY DEF IInv
<1>2. QED
  BY <1>1, Inductive, PTL

\* What the page missed the next event makes up for: no list of an older pointer
\* or of another wallet stays once the session is rendered with no load in flight.
THEOREM RetrySafe == Spec => RetryLoads
<1> DEFINE Retried == due /\ ~due' /\ Ready(seen') /\ load = None =>
                          load' = Pointer' \/ files' = Pointer' \/ Skipped'
<1>1. ASSUME IInv, [Next]_vars PROVE [Retried]_vars
  <2> SUFFICES ASSUME due, ~due', Ready(seen'), load = None
               PROVE  load' = Pointer' \/ files' = Pointer' \/ Skipped'
    OBVIOUS
  <2>1. TypeOK /\ KeyInv
    BY <1>1 DEF IInv
  <2>2. ~(SessionMoves \/ RestoreEnds \/ PageMoves \/ UNCHANGED vars)
    BY SessionStep, PageStep DEF RestoreEnds, vars
  <2>3. CASE Reload
    <3>1. ~seen'.open
      BY <2>1, <2>3, BecomesType DEF Reload, Vault!Reload, MaybeWallet
    <3>2. QED
      BY <3>1 DEF Ready, Gate
  <2>4. CASE Render
    <3>1. seen'.wallet \in Wallets /\ lastKey' = lastKey
      BY <2>1, <2>4, RenderCases
    <3>2. KeyOf(seen') = Pointer'
      BY DEF KeyOf, Pointer
    <3>3. CASE KeyOf(seen') = lastKey /\ KeyOf(seen') # None /\ files' = files
      <4>1. lastKey # None /\ lastKey.cid = ptr[lastKey.wallet]
        BY <2>1, <2>4, <3>1, <3>3, RenderCases
      <4>2. files \in {None, lastKey}
        BY <2>1, <4>1, LastKeyShown
      <4>3. QED
        BY <3>1, <3>2, <3>3, <4>2 DEF Skipped
    <3>4. QED
      BY <2>1, <2>4, <3>2, <3>3, RenderCases
  <2>5. QED
    BY <1>1, <2>2, <2>3, <2>4, StepCases DEF PageMoves
<1>2. QED
  BY <1>1, Inductive, PTL DEF Spec, RetryLoads

\* An entry is never in a manifest of another wallet than that of its upload, nor
\* a list shown that of a manifest of another wallet, whatever wallet is connected
\* when the upload ends and whatever manifest is restored.
THEOREM EntrySafe == Spec => []EntryOfWallet
<1>1. IInv => EntryOfWallet
  BY DEF IInv
<1>2. QED
  BY <1>1, Inductive, PTL

\* A file is encrypted under a key of the wallet it is uploaded for, as long as
\* the account did not change since the click that made the proof.
THEOREM KeySafe == Spec => KeyOfUpload
<1> DEFINE Keyed == \A u \in Uploads :
                up[u].pc = "idle" /\ up'[u].pc = "sending" /\ ~switched =>
                    proof = up'[u].wallet
<1>1. ASSUME IInv, [Next]_vars PROVE [Keyed]_vars
  <2> SUFFICES ASSUME NEW u \in Uploads, up[u].pc = "idle", up'[u].pc = "sending", ~switched
               PROVE  proof = up'[u].wallet
    OBVIOUS
  <2>1. TypeOK /\ RenderInv /\ ProofInv /\ up' # up
    BY <1>1 DEF IInv
  <2>2. ~(\/ SessionMoves \/ Render \/ LoadSettles \/ Reload \/ StartRestore \/ RestoreEnds
          \/ RestoreFails \/ UNCHANGED vars)
    BY <2>1, QuietStep DEF LoadSettles, InitReturns, StartRestore, Reload, NoUpload, vars
  <2>3. PICK v \in Uploads : StartUpload(v) \/ Appended(v) \/ UploadFails(v)
    BY <1>1, <2>2, StepCases
  <2>4. StartUpload(v) /\ v = u
    BY <2>1, <2>3 DEF StartUpload, Appended, UploadFails, NoUpload, TypeOK
  <2>5. up'[u].wallet = seen.wallet
    BY <2>1, <2>4 DEF StartUpload, TypeOK
  <2>6. proof = sess.wallet /\ sess.wallet = seen.wallet
    BY <2>1, <2>4, SessionsType DEF StartUpload, Ready, Gate, RenderInv, ProofInv
  <2>7. QED
    BY <2>5, <2>6
<1>2. QED
  BY <1>1, Inductive, PTL DEF Spec, KeyOfUpload
=============================================================================
