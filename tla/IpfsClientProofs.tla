--------------------------- MODULE IpfsClientProofs ---------------------------
(***************************************************************************)
(* Theorems about IpfsClient, for any number of calls and any contents:    *)
(* the inductive invariant, the single node of a page, and that the client *)
(* implements IpfsStore.                                                   *)
(***************************************************************************)
EXTENDS IpfsClient, TLAPS

USE DEF Goto, node, fetch, Awaits, Settled, Contexts

\* The initial states have the inductive invariant.
LEMMA InitInv == Init => IInv
BY DEF Init, IInv, TypeOK, BackendInv

\* A step of a call at Kubo keeps it.
LEMMA KuboStepInv ==
    ASSUME IInv, NEW c \in Calls,
           \/ Refuse(c) \/ Send(c) \/ KuboStores(c) \/ HeadersArrive(c)
           \/ BodyArrives(c) \/ KuboFails(c) \/ KuboAborts(c)
    PROVE  IInv'
<1> USE ConstAssumption DEF IInv, TypeOK, BackendInv
<1>1. CASE Refuse(c)
  BY <1>1 DEF Refuse
<1>2. CASE Send(c)
  BY <1>2 DEF Send, Refused
<1>3. CASE KuboStores(c)
  BY <1>3 DEF KuboStores
<1>4. CASE HeadersArrive(c)
  BY <1>4 DEF HeadersArrive
<1>5. CASE BodyArrives(c)
  BY <1>5 DEF BodyArrives
<1>6. CASE KuboFails(c)
  BY <1>6 DEF KuboFails
<1>7. CASE KuboAborts(c)
  BY <1>7 DEF KuboAborts
<1> QED
  BY <1>1, <1>2, <1>3, <1>4, <1>5, <1>6, <1>7

\* So does a step of a call at Helia.
LEMMA HeliaStepInv ==
    ASSUME IInv, NEW c \in Calls,
           \/ AwaitContext(c) \/ ContextRejects(c) \/ CallNode(c)
           \/ HeliaStores(c) \/ HeliaAdded(c) \/ HeliaTimesOut(c)
           \/ FetchTimerFires(c) \/ ChunkArrives(c) \/ FetchEnds(c) \/ HeliaFails(c)
    PROVE  IInv'
<1> USE ConstAssumption DEF IInv, TypeOK, BackendInv
<1>1. CASE AwaitContext(c)
  BY <1>1 DEF AwaitContext
<1>2. CASE ContextRejects(c)
  BY <1>2 DEF ContextRejects
<1>3. CASE CallNode(c)
  BY <1>3 DEF CallNode
<1>4. CASE HeliaStores(c)
  BY <1>4 DEF HeliaStores
<1>5. CASE HeliaAdded(c)
  BY <1>5 DEF HeliaAdded
<1>6. CASE HeliaTimesOut(c)
  BY <1>6 DEF HeliaTimesOut
<1>7. CASE FetchTimerFires(c)
  BY <1>7 DEF FetchTimerFires
<1>8. CASE ChunkArrives(c)
  BY <1>8 DEF ChunkArrives
<1>9. CASE FetchEnds(c)
  BY <1>9 DEF FetchEnds
<1>10. CASE HeliaFails(c)
  BY <1>10 DEF HeliaFails
<1> QED
  BY <1>1, <1>2, <1>3, <1>4, <1>5, <1>6, <1>7, <1>8, <1>9, <1>10

\* Every step keeps it.
LEMMA StepInv == IInv /\ [Next]_vars => IInv'
<1> SUFFICES ASSUME IInv, [Next]_vars PROVE IInv'
  OBVIOUS
<1>1. CASE \E c \in Calls : CallNext(c)
  BY <1>1, KuboStepInv, HeliaStepInv DEF CallNext
<1>2. CASE ContextSettles
  BY <1>2 DEF ContextSettles, IInv, TypeOK, BackendInv
<1>3. CASE Reload
  BY <1>3, ConstAssumption DEF Reload, IInv, TypeOK, BackendInv
<1>4. CASE UNCHANGED vars
  BY <1>4 DEF vars, IInv, TypeOK, BackendInv
<1> QED
  BY <1>1, <1>2, <1>3, <1>4 DEF Next

\* IInv holds in every state (client.ts, the module state of a page and its
\* calls).
THEOREM InvAlways == Spec => []IInv
BY InitInv, StepInv, PTL DEF Spec

\* The variables have their types in every state.
THEOREM TypeCorrect == Spec => []TypeOK
<1>1. IInv => TypeOK
  BY DEF IInv
<1> QED
  BY <1>1, InvAlways, PTL

\* A page creates one Helia node, however its first calls overlap
\* (getIpfsContext).
THEOREM NodeIsShared == Spec => []OneNode
<1>1. IInv => OneNode
  BY DEF IInv, OneNode
<1> QED
  BY <1>1, InvAlways, PTL

-----------------------------------------------------------------------------
(* The refinement. *)

\* The initial states are initial states of the store.
LEMMA StoreInit == Init => Store!Init
BY DEF Init, Store!Init, Phase

\* What a step of a call does to the state the store sees of it.
LEMMA PhaseStep ==
    ASSUME TypeOK, NEW c \in Calls, NEW l, pc' = [pc EXCEPT ![c] = l]
    PROVE  [d \in Calls |-> Phase(pc[d])]' =
               [[d \in Calls |-> Phase(pc[d])] EXCEPT ![c] = Phase(l)]
BY DEF TypeOK, Phase

\* A step of a call is a step of the store, or none.
LEMMA StoreCallStep ==
    ASSUME IInv, NEW c \in Calls, CallNext(c)
    PROVE  [Store!Next]_(Store!vars)
<1> DEFINE st == [d \in Calls |-> Phase(pc[d])]
<1> USE DEF Store!vars, Store!Next
<1>0. TypeOK /\ BackendInv
  BY DEF IInv
<1>1. CASE Refuse(c)
  <2>1. st[c] = "idle" /\ st' = [st EXCEPT ![c] = "failed"]
    BY <1>0, <1>1, PhaseStep DEF Refuse, Phase
  <2>2. Store!Call(c)
    BY <1>1, <2>1 DEF Refuse, Store!Call
  <2> QED
    BY <2>2
<1>2. CASE Send(c) \/ AwaitContext(c)
  <2>1. st[c] = "idle" /\ st' = [st EXCEPT ![c] = "pending"]
    BY <1>0, <1>2, PhaseStep DEF Send, AwaitContext, Phase
  <2>2. Store!Call(c)
    BY <1>2, <2>1 DEF Send, AwaitContext, Store!Call
  <2> QED
    BY <2>2
<1>3. CASE KuboStores(c) \/ HeliaStores(c)
  <2>1. c \in Adds /\ st[c] # "idle" /\ UNCHANGED st
    BY <1>3 DEF IInv, TypeOK, KuboStores, HeliaStores, Phase
  <2>2. Store!Store(c)
    BY <1>3, <2>1 DEF KuboStores, HeliaStores, Store!Store
  <2> QED
    BY <2>2
<1>4. CASE HeadersArrive(c) \/ CallNode(c)
  <2>1. UNCHANGED st
    BY <1>0, <1>4 DEF TypeOK, HeadersArrive, CallNode, Phase
  <2> QED
    BY <1>4, <2>1 DEF HeadersArrive, CallNode
<1>5. CASE /\ BodyArrives(c) \/ HeliaAdded(c) \/ FetchEnds(c)
           /\ pc'[c] = "done"
  <2>1. pc' = [pc EXCEPT ![c] = "done"] /\ pc[c] \in {"body", "helia"}
    BY <1>0, <1>5 DEF TypeOK, BodyArrives, HeliaAdded, FetchEnds
  <2>2. st[c] = "pending" /\ st' = [st EXCEPT ![c] = "done"]
    BY <1>0, <2>1, PhaseStep DEF Phase
  <2>3. Of[c] \in kubo \cup memory
    BY <1>5 DEF IInv, BodyArrives, HeliaAdded, FetchEnds
  <2>4. Store!Complete(c)
    BY <1>5, <2>2, <2>3 DEF BodyArrives, HeliaAdded, FetchEnds, Store!Complete
  <2> QED
    BY <2>4
<1>6. CASE /\ \/ KuboFails(c) \/ KuboAborts(c) \/ ContextRejects(c)
              \/ HeliaTimesOut(c) \/ HeliaFails(c) \/ BodyArrives(c)
              \/ FetchEnds(c) \/ ChunkArrives(c)
           /\ pc'[c] = "failed"
  <2>1. pc' = [pc EXCEPT ![c] = "failed"] /\ pc[c] \in Awaits
    BY <1>0, <1>6 DEF TypeOK, KuboFails, KuboAborts, ContextRejects,
                      HeliaTimesOut, HeliaFails, BodyArrives, FetchEnds, ChunkArrives
  <2>2. st[c] = "pending" /\ st' = [st EXCEPT ![c] = "failed"]
    BY <1>0, <2>1, PhaseStep DEF Phase
  <2>3. Store!Fail(c)
    BY <1>6, <2>2 DEF KuboFails, KuboAborts, ContextRejects, HeliaTimesOut,
                      HeliaFails, BodyArrives, FetchEnds, ChunkArrives, Store!Fail
  <2> QED
    BY <2>3
<1>7. CASE FetchTimerFires(c) \/ (ChunkArrives(c) /\ pc'[c] # "failed")
  <2>1. UNCHANGED <<useKubo, pc, kubo, memory>>
    BY <1>0, <1>7 DEF TypeOK, FetchTimerFires, ChunkArrives
  <2> QED
    BY <2>1
<1>8. \/ pc'[c] \in {"done", "failed"}
      \/ ~(BodyArrives(c) \/ HeliaAdded(c) \/ FetchEnds(c) \/ KuboFails(c)
           \/ KuboAborts(c) \/ ContextRejects(c) \/ HeliaTimesOut(c) \/ HeliaFails(c))
  BY <1>0 DEF TypeOK, BodyArrives, HeliaAdded, FetchEnds, KuboFails, KuboAborts,
              ContextRejects, HeliaTimesOut, HeliaFails
<1>9. HeliaAdded(c) => pc'[c] = "done"
  BY <1>0 DEF TypeOK, HeliaAdded
<1>10. KuboFails(c) \/ KuboAborts(c) \/ ContextRejects(c) \/ HeliaTimesOut(c)
         \/ HeliaFails(c) => pc'[c] = "failed"
  BY <1>0 DEF TypeOK, KuboFails, KuboAborts, ContextRejects, HeliaTimesOut, HeliaFails
<1> HIDE DEF st
<1> QED
  BY <1>1, <1>2, <1>3, <1>4, <1>5, <1>6, <1>7, <1>8, <1>9, <1>10 DEF CallNext

\* A reload is a restart of the store.
LEMMA StoreRestart ==
    ASSUME IInv, Reload
    PROVE  Store!Restart
<1> DEFINE st == [d \in Calls |-> Phase(pc[d])]
<1>1. st' = [d \in Calls |-> IF st[d] = "pending" THEN "failed" ELSE st[d]]
  BY DEF IInv, TypeOK, Reload, Phase
<1>2. kubo' = kubo /\ memory' = {} /\ UNCHANGED useKubo
  BY DEF Reload
<1>3. useKubo => memory = {}
  BY DEF IInv, BackendInv
<1> QED
  BY <1>1, <1>2, <1>3 DEF Store!Restart

\* Every step of the client is a step of the store, or none.
LEMMA StoreStep == IInv /\ [Next]_vars => [Store!Next]_(Store!vars)
<1> SUFFICES ASSUME IInv, [Next]_vars PROVE [Store!Next]_(Store!vars)
  OBVIOUS
<1>1. CASE \E c \in Calls : CallNext(c)
  BY <1>1, StoreCallStep
<1>2. CASE ContextSettles
  BY <1>2 DEF ContextSettles, Store!vars
<1>3. CASE Reload
  BY <1>3, StoreRestart DEF Store!Next
<1>4. CASE UNCHANGED vars
  BY <1>4 DEF vars, Store!vars
<1> QED
  BY <1>1, <1>2, <1>3, <1>4 DEF Next

\* addBytes and catBytes keep the promise of IpfsStore: what an acknowledged
\* add stored a fetch can find, for ever with Kubo and until a reload with
\* Helia; a success is of the object asked for; a call settles once.
THEOREM ClientImplementsStore == Spec => ImplementsStore
BY InvAlways, StoreInit, StoreStep, PTL DEF Spec, ImplementsStore, Store!Spec

-----------------------------------------------------------------------------
(* What follows from the promise. *)

\* No step of the store takes away what an acknowledged add stored.
LEMMA StoreKeeps ==
    ASSUME Store!AckedIsStored, [Store!Next]_(Store!vars)
    PROVE  Store!AckedIsStored'
<1> DEFINE st == [d \in Calls |-> Phase(pc[d])]
           stored == kubo \cup memory
<1>0. DOMAIN st = Calls /\ DOMAIN st' = Calls
  OBVIOUS
<1>1. \A c \in Calls : useKubo /\ st[c] = "done" => Of[c] \in stored
  BY DEF Store!AckedIsStored
<1> SUFFICES ASSUME NEW d \in Calls, useKubo', st'[d] = "done"
             PROVE  Of[d] \in stored'
  BY DEF Store!AckedIsStored
<1> HIDE DEF st, stored
<1>2. CASE \E c \in Calls : Store!Call(c)
  BY <1>0, <1>1, <1>2 DEF Store!Call, st, stored
<1>3. CASE \E c \in Calls : Store!Store(c)
  BY <1>0, <1>1, <1>3 DEF Store!Store, st, stored
<1>4. CASE \E c \in Calls : Store!Complete(c)
  BY <1>0, <1>1, <1>4 DEF Store!Complete, st, stored
<1>5. CASE \E c \in Calls : Store!Fail(c)
  BY <1>0, <1>1, <1>5 DEF Store!Fail, st, stored
<1>6. CASE Store!Restart
  BY <1>0, <1>1, <1>6 DEF Store!Restart, st, stored
<1>7. CASE UNCHANGED Store!vars
  BY <1>0, <1>1, <1>7 DEF Store!vars, st, stored
<1> QED
  BY <1>2, <1>3, <1>4, <1>5, <1>6, <1>7 DEF Store!Next

\* With Kubo, the object of every add that was acknowledged is there for any
\* later fetch, whatever failed or was reloaded since (addBytes).
THEOREM AckedStays == Spec => []Store!AckedIsStored
<1>1. Init => Store!AckedIsStored
  BY DEF Init, Store!AckedIsStored, Phase
<1>2. IInv /\ Store!AckedIsStored /\ [Next]_vars => Store!AckedIsStored'
  BY StoreStep, StoreKeeps
<1> QED
  BY <1>1, <1>2, InvAlways, PTL DEF Spec

=============================================================================
