------------------------ MODULE SessionManagerProofs ------------------------
(***************************************************************************)
(* Proofs about SessionManager, for every set of tabs and of wallets and   *)
(* every lifetime: the invariant IInv is inductive, so that a vault opened *)
(* without disturbance stays whole, with one tab the Verified signal is    *)
(* that of the connected wallet, and every tab implements VaultSession.    *)
(***************************************************************************)
EXTENDS SessionManager, TLAPS

\* loadVerified() returns what it was given or nothing, now or later.
LEMMA LoadType ==
    ASSUME NEW v \in Verified \cup {None}
    PROVE  Load(v) \in {v, None}
BY DEF Load

\* A time, and when what is signed at it expires, are times.
LEMMA TimesType == MaxTime \in Times /\ \A x \in 0 .. MaxTime :
    x \in Times /\ x + UnlockTTL \in Times /\ x + VerifiedTTL \in Times
BY SMT, SessionAssumption DEF Times

\* The initial state satisfies the invariant.
LEMMA InitInv == Init => IInv
<1> SUFFICES ASSUME Init PROVE IInv
    OBVIOUS
<1>1. Fresh \in Session /\ Fresh.unlocked = FALSE /\ Fresh.verified = None
  BY DEF Init, Fresh, Load, Session, MaybeWallet
<1>2. NoCall \in Call /\ NoCall.pc = "idle"
  BY SessionAssumption DEF NoCall, Call, Phases, MaybeWallet
<1>3. TypeOK
  BY <1>1, <1>2, SessionAssumption DEF Init, TypeOK, MaybeWallet, Disturbances
<1>4. QED
  BY <1>1, <1>2, <1>3 DEF Init, IInv, OpenVaultIsWhole, VerifiedOfWallet, CallInv,
     RootInv, View, ClosedInv, MirrorInv, ForOther

\* What a handler that publishes a locked session needs to keep the invariant:
\* the handlers that reconnect, lock, disconnect.
LEMMA LockingStep ==
    ASSUME IInv, NEW t \in Tabs, NEW s \in Session, NEW v \in Verified \cup {None},
           Publish(t, s, v), Disturbed(t, "locked"),
           ~s.unlocked,
           s.unlock # None => /\ s.unlock = sess[t].unlock
                              /\ sess[t].wallet \in {s.wallet, None},
           s.wallet # None => ~(SingleTab /\ ForOther(v, s.wallet)),
           now' = now, call' = call,
           adapter' = adapter, pending' \in [Tabs -> BOOLEAN]
    PROVE  IInv'
<1> DEFINE s2 == [s EXCEPT !.verified = Load(v)]
<1>1. /\ s2 \in Session /\ ~s2.unlocked /\ s2.wallet = s.wallet
      /\ s2.unlock = s.unlock
      /\ s2.verified = Load(v) /\ Load(v) \in Verified \cup {None}
      /\ Load(v) \in {v, None}
  BY LoadType DEF Session
<1>2. /\ sess' = [sess EXCEPT ![t] = s2]
      /\ stored' = Load(v)
  BY DEF Publish
<1> HIDE DEF s2
<1>3. TypeOK'
  BY <1>1, <1>2 DEF IInv, TypeOK, Disturbed, Disturbances
<1>4. sess'[t] = s2 /\ \A u \in Tabs \ {t} : sess'[u] = sess[u]
  BY <1>2 DEF IInv, TypeOK
<1>5. \A u \in Tabs : during'[u] # "locked" =>
          during'[u] = during[u] /\ (u = t => call[u].pc = "idle")
  BY DEF IInv, TypeOK, Disturbed
<1>6. OpenVaultIsWhole'
  BY <1>1, <1>4, <1>5 DEF IInv, OpenVaultIsWhole, Whole
<1>7. VerifiedOfWallet'
  BY <1>1, <1>4 DEF VerifiedOfWallet, SingleTab, ForOther
<1>8. CallInv'
  BY <1>4, <1>5 DEF IInv, CallInv
<1>9. ClosedInv'
  BY <1>1, <1>4 DEF IInv, ClosedInv
<1>10. MirrorInv'
  BY <1>1, <1>2, <1>4 DEF MirrorInv, SingleTab
<1>11. RootInv'
  BY <1>1, <1>4 DEF IInv, RootInv, View
<1>12. QED
  BY <1>3, <1>6, <1>7, <1>8, <1>9, <1>10, <1>11 DEF IInv

\* A published session where the vault was locked stays within the types.
LEMMA LockedType ==
    ASSUME TypeOK, NEW t \in Tabs
    PROVE  /\ Locked(sess[t]) \in Session
           /\ ~Locked(sess[t]).unlocked
           /\ Locked(sess[t]).unlock = None
           /\ Locked(sess[t]).wallet = sess[t].wallet
BY DEF TypeOK, Session, Locked

\* connectWallet(w) keeps the invariant.
LEMMA ConnectStep ==
    ASSUME IInv, NEW t \in Tabs, NEW w \in Wallets, Connect(t, w)
    PROVE  IInv'
<1> DEFINE s == Connected(sess[t], w)
           v == Kept(sess[t], w)
<1>1. sess[t] \in Session /\ stored \in Verified \cup {None} /\ w \in MaybeWallet
  BY DEF IInv, TypeOK, MaybeWallet
<1>2. /\ s \in Session /\ ~s.unlocked /\ s.wallet = w
      /\ s.unlock # None => s.unlock = sess[t].unlock /\ sess[t].wallet \in {w, None}
  BY <1>1 DEF Connected, Session
<1>3. v \in Verified \cup {None}
  BY <1>1 DEF Kept
<1>4. SingleTab => ~ForOther(v, w)
  BY DEF IInv, MirrorInv, Kept, ForOther
<1>5. pending' \in [Tabs -> BOOLEAN]
  BY DEF IInv, TypeOK, Connect
<1>6. Publish(t, s, v) /\ Disturbed(t, "locked") /\ now' = now /\ call' = call
      /\ adapter' = adapter
  BY DEF Connect
<1> HIDE DEF s, v
<1>7. QED
  BY <1>2, <1>3, <1>4, <1>5, <1>6, LockingStep

\* lockVault() keeps the invariant.
LEMMA LockStep ==
    ASSUME IInv, NEW t \in Tabs, Lock(t)
    PROVE  IInv'
<1>1. stored \in Verified \cup {None} /\ pending \in [Tabs -> BOOLEAN] /\ TypeOK
  BY DEF IInv, TypeOK
<1>2. sess[t].wallet # None => ~(SingleTab /\ ForOther(stored, sess[t].wallet))
  BY DEF IInv, VerifiedOfWallet, MirrorInv
<1>3. QED
  BY <1>1, <1>2, LockedType, LockingStep DEF Lock

\* disconnectWallet() keeps the invariant.
LEMMA DisconnectStep ==
    ASSUME IInv, NEW t \in Tabs, Disconnect(t)
    PROVE  IInv'
<1> DEFINE s == [Locked(sess[t]) EXCEPT !.wallet = None]
<1>1. pending' \in [Tabs -> BOOLEAN] /\ TypeOK
  BY DEF IInv, TypeOK, Disconnect
<1>2. s \in Session /\ ~s.unlocked /\ s.wallet = None /\ s.unlock = None
  BY <1>1, LockedType DEF Session, MaybeWallet
<1>3. Publish(t, s, None) /\ Disturbed(t, "locked") /\ now' = now /\ call' = call
      /\ adapter' = adapter
  BY DEF Disconnect
<1> HIDE DEF s
<1>4. QED
  BY <1>1, <1>2, <1>3, LockingStep

\* refresh() keeps the invariant: only the signal in memory may change.
LEMMA RefreshStep ==
    ASSUME IInv, NEW t \in Tabs, Refresh(t)
    PROVE  IInv'
<1> DEFINE s2 == [sess[t] EXCEPT !.verified = Load(stored)]
<1>1. sess[t] \in Session /\ stored \in Verified \cup {None}
  BY DEF IInv, TypeOK
<1>2. Load(stored) \in {stored, None} /\ Load(stored) \in Verified \cup {None}
  BY <1>1, LoadType
<1>3. /\ s2 \in Session /\ s2.verified = Load(stored)
      /\ s2.wallet = sess[t].wallet /\ s2.unlocked = sess[t].unlocked
      /\ s2.unlock = sess[t].unlock /\ s2.root = sess[t].root
  BY <1>1, <1>2 DEF Session
<1>4. sess' = [sess EXCEPT ![t] = s2] /\ stored' = Load(stored)
  BY DEF Refresh, Publish
<1> HIDE DEF s2
<1>5. sess'[t] = s2 /\ \A u \in Tabs \ {t} : sess'[u] = sess[u]
  BY <1>4 DEF IInv, TypeOK
<1>6. TypeOK'
  BY <1>2, <1>3, <1>4 DEF IInv, TypeOK, Refresh
<1>7. OpenVaultIsWhole'
  BY <1>3, <1>5 DEF IInv, OpenVaultIsWhole, Whole, Refresh
<1>8. VerifiedOfWallet'
  BY <1>2, <1>3, <1>5 DEF IInv, VerifiedOfWallet, MirrorInv, SingleTab, ForOther
<1>9. CallInv'
  BY <1>3, <1>5 DEF IInv, CallInv, Refresh
<1>10. ClosedInv'
  BY <1>3, <1>5 DEF IInv, ClosedInv, Refresh
<1>11. MirrorInv'
  BY <1>3, <1>4, <1>5 DEF MirrorInv, SingleTab
<1>12. RootInv'
  BY <1>3, <1>5 DEF IInv, RootInv, View, Refresh
<1>13. QED
  BY <1>6, <1>7, <1>8, <1>9, <1>10, <1>11, <1>12 DEF IInv

\* The adapter moving keeps the invariant: a pending call is disturbed by it.
LEMMA AdapterStep ==
    ASSUME IInv, NEW t \in Tabs, NEW w \in MaybeWallet, AdapterChange(t, w)
    PROVE  IInv'
<1>1. TypeOK'
  BY DEF IInv, TypeOK, AdapterChange, Disturbed, Disturbances
<1>2. \A u \in Tabs :
         /\ during'[u] # "locked" => during[u] # "locked"
         /\ during'[u] = "nothing" =>
              during[u] = "nothing" /\ (u = t => call[u].pc = "idle")
  BY DEF IInv, TypeOK, AdapterChange, Disturbed
<1>3. OpenVaultIsWhole'
  BY <1>2 DEF IInv, OpenVaultIsWhole, Whole, AdapterChange
<1>4. CallInv'
  BY <1>2 DEF IInv, TypeOK, CallInv, AdapterChange
<1>5. VerifiedOfWallet' /\ RootInv' /\ ClosedInv' /\ MirrorInv'
  BY DEF IInv, VerifiedOfWallet, RootInv, View, ClosedInv, MirrorInv, SingleTab, ForOther,
     AdapterChange
<1>6. QED
  BY <1>1, <1>3, <1>4, <1>5 DEF IInv

\* The beginning of unlockVault() keeps the invariant.
LEMMA StartStep ==
    ASSUME IInv, NEW t \in Tabs, StartUnlock(t)
    PROVE  IInv'
<1> DEFINE c == [pc |-> "unlockSig", wallet |-> sess[t].wallet, at |-> now]
<1>1. sess[t] \in Session /\ now \in 0 .. MaxTime
  BY DEF IInv, TypeOK
<1>2. c \in Call
  BY <1>1 DEF Call, Session, Phases
<1>3. /\ call' = [call EXCEPT ![t] = c]
      /\ during' \in [Tabs -> Disturbances]
      /\ during'[t] = "nothing" => adapter[t] = sess[t].wallet
      /\ \A u \in Tabs \ {t} : during'[u] = during[u]
  BY DEF IInv, TypeOK, StartUnlock, Disturbances
<1>4. TypeOK'
  BY <1>2, <1>3 DEF IInv, TypeOK, StartUnlock
<1>5. call'[t] = c /\ \A u \in Tabs \ {t} : call'[u] = call[u]
  BY <1>3 DEF IInv, TypeOK
<1>6. OpenVaultIsWhole'
  BY <1>3 DEF IInv, OpenVaultIsWhole, Whole, StartUnlock
<1>7. CallInv'
  BY <1>3, <1>5 DEF IInv, CallInv, StartUnlock
<1>8. ClosedInv'
  BY <1>5 DEF IInv, ClosedInv, StartUnlock
<1>9. VerifiedOfWallet' /\ MirrorInv'
  BY DEF IInv, VerifiedOfWallet, MirrorInv, SingleTab, ForOther, StartUnlock
<1>10. RootInv'
  BY <1>5 DEF IInv, RootInv, View, StartUnlock
<1>11. QED
  BY <1>4, <1>6, <1>7, <1>8, <1>9, <1>10 DEF IInv

\* The first signature keeps the invariant.
LEMMA UnlockSignedStep ==
    ASSUME IInv, NEW t \in Tabs, UnlockSigned(t)
    PROVE  IInv'
<1> DEFINE m == [wallet |-> call[t].wallet, by |-> adapter[t],
                 expires |-> call[t].at + UnlockTTL]
           s2 == [sess[t] EXCEPT !.unlock = m]
           c2 == [call[t] EXCEPT !.pc = "kek"]
<1>1. sess[t] \in Session /\ call[t] \in Call /\ adapter[t] \in Wallets
  BY DEF IInv, TypeOK, UnlockSigned, MaybeWallet
<1>2. /\ m \in UnlockSig /\ m # None
      /\ m.wallet = call[t].wallet /\ m.by = adapter[t]
  BY <1>1, TimesType, NullAssumption DEF UnlockSig, Call
<1> HIDE DEF m
<1>3. /\ s2 \in Session /\ s2.unlock = m /\ s2.wallet = sess[t].wallet
      /\ s2.unlocked = sess[t].unlocked /\ s2.verified = sess[t].verified
  BY <1>1, <1>2 DEF Session
<1>4. c2 \in Call /\ c2.pc = "kek" /\ c2.wallet = call[t].wallet
  BY <1>1 DEF Call, Phases
<1>5. sess' = [sess EXCEPT ![t] = s2] /\ call' = [call EXCEPT ![t] = c2]
  BY DEF IInv, TypeOK, UnlockSigned, m
<1>6. ~sess[t].unlocked /\ call[t].pc = "unlockSig"
  BY DEF IInv, ClosedInv, UnlockSigned
<1> HIDE DEF s2, c2
<1>7. /\ sess'[t] = s2 /\ \A u \in Tabs \ {t} : sess'[u] = sess[u]
      /\ call'[t] = c2 /\ \A u \in Tabs \ {t} : call'[u] = call[u]
  BY <1>5 DEF IInv, TypeOK
<1>8. TypeOK'
  BY <1>3, <1>4, <1>5 DEF IInv, TypeOK, UnlockSigned
<1>9. OpenVaultIsWhole'
  BY <1>3, <1>6, <1>7 DEF IInv, OpenVaultIsWhole, Whole, UnlockSigned
<1>10. CallInv'
  <2>1. adapter' = adapter /\ during' = during
    BY DEF UnlockSigned
  <2>2. during[t] # "locked" =>
          /\ sess[t].wallet # None /\ call[t].wallet = sess[t].wallet
          /\ during[t] = "nothing" => adapter[t] = sess[t].wallet
    BY <1>6 DEF IInv, CallInv
  <2>3. QED
    BY <1>2, <1>3, <1>4, <1>7, <2>1, <2>2 DEF IInv, CallInv
<1>11. ClosedInv'
  BY <1>3, <1>6, <1>7 DEF IInv, ClosedInv
<1>12. VerifiedOfWallet' /\ MirrorInv'
  BY <1>3, <1>7 DEF IInv, VerifiedOfWallet, MirrorInv, SingleTab, ForOther, UnlockSigned
<1>13. RootInv'
  BY <1>3, <1>4, <1>6, <1>7 DEF IInv, RootInv, View
<1>14. QED
  BY <1>8, <1>9, <1>10, <1>11, <1>12, <1>13 DEF IInv

\* The KEK derivation keeps the invariant: in a call nothing disturbed the
\* wallet read again is the wallet the call began with.
LEMMA KekStep ==
    ASSUME IInv, NEW t \in Tabs, KekDerived(t)
    PROVE  IInv'
<1> DEFINE c2 == [call[t] EXCEPT !.pc = "rootSig", !.wallet = sess[t].wallet]
<1>1. sess[t] \in Session /\ call[t] \in Call
  BY DEF IInv, TypeOK
<1>2. c2 \in Call /\ c2.pc = "rootSig" /\ c2.wallet = sess[t].wallet
  BY <1>1 DEF Call, Phases, Session
<1>3. call' = [call EXCEPT ![t] = c2]
  BY DEF IInv, TypeOK, KekDerived
<1>4. ~sess[t].unlocked /\ call[t].pc = "kek"
  BY DEF IInv, ClosedInv, KekDerived
<1> HIDE DEF c2
<1>5. call'[t] = c2 /\ \A u \in Tabs \ {t} : call'[u] = call[u]
  BY <1>3 DEF IInv, TypeOK
<1>6. TypeOK'
  BY <1>2, <1>3 DEF IInv, TypeOK, KekDerived
<1>7. CallInv' /\ ClosedInv'
  BY <1>2, <1>4, <1>5 DEF IInv, CallInv, ClosedInv, KekDerived
<1>8. OpenVaultIsWhole' /\ VerifiedOfWallet' /\ MirrorInv'
  BY DEF IInv, OpenVaultIsWhole, Whole, VerifiedOfWallet, MirrorInv, SingleTab,
     ForOther, KekDerived
<1>9. RootInv'
  BY <1>2, <1>5 DEF IInv, RootInv, View, KekDerived
<1>10. QED
  BY <1>6, <1>7, <1>8, <1>9 DEF IInv

\* The second signature keeps the invariant: it opens the vault.
LEMMA RootSignedStep ==
    ASSUME IInv, NEW t \in Tabs, RootSigned(t)
    PROVE  IInv'
<1> DEFINE r == [wallet |-> call[t].wallet, by |-> adapter[t]]
           v == [wallet |-> sess[t].wallet, expires |-> now + VerifiedTTL]
           s2 == [sess[t] EXCEPT !.root = r, !.unlocked = TRUE, !.verified = Load(v)]
<1>1. /\ sess[t] \in Session /\ call[t] \in Call /\ adapter[t] \in Wallets
      /\ now \in 0 .. MaxTime
  BY DEF IInv, TypeOK, RootSigned, MaybeWallet
<1>2. r \in RootSig /\ r # None
  BY <1>1, NullAssumption DEF RootSig, Call
<1>3. v \in Verified /\ v.wallet = sess[t].wallet
  BY <1>1, TimesType DEF Verified, Session
<1>4. Load(v) \in {v, None} /\ Load(v) \in Verified \cup {None}
  BY <1>3, LoadType
<1>5. /\ sess' = [sess EXCEPT ![t] = s2]
      /\ stored' = Load(v)
      /\ call' = [call EXCEPT ![t] = NoCall]
  BY <1>1 DEF RootSigned, Publish, Session
<1> HIDE DEF v
<1>6. /\ s2 \in Session /\ s2.root = r /\ s2.wallet = sess[t].wallet
      /\ s2.unlock = sess[t].unlock /\ s2.unlocked /\ s2.verified = Load(v)
  BY <1>1, <1>2, <1>4 DEF Session
<1>7. NoCall \in Call /\ NoCall.pc = "idle"
  BY SessionAssumption DEF NoCall, Call, Phases, MaybeWallet
<1>8. during[t] = "nothing" => Whole(s2)
  BY <1>2, <1>6 DEF IInv, CallInv, Whole, RootSigned
<1> HIDE DEF s2, r
<1>9. /\ sess'[t] = s2 /\ \A u \in Tabs \ {t} : sess'[u] = sess[u]
      /\ call'[t] = NoCall /\ \A u \in Tabs \ {t} : call'[u] = call[u]
  BY <1>5 DEF IInv, TypeOK
<1>10. TypeOK'
  BY <1>4, <1>5, <1>6, <1>7 DEF IInv, TypeOK, RootSigned
<1>11. OpenVaultIsWhole'
  BY <1>8, <1>9 DEF IInv, OpenVaultIsWhole, RootSigned
<1>12. VerifiedOfWallet'
  BY <1>3, <1>4, <1>6, <1>9 DEF VerifiedOfWallet, SingleTab, ForOther
<1>13. CallInv'
  BY <1>7, <1>9 DEF IInv, CallInv, RootSigned
<1>14. ClosedInv'
  BY <1>7, <1>9 DEF IInv, ClosedInv
<1>15. MirrorInv'
  BY <1>5, <1>6, <1>9 DEF MirrorInv, SingleTab
<1>16. RootInv'
  <2>1. s2.unlock # None => s2.root.wallet \in {s2.wallet, None}
    BY <1>6 DEF IInv, RootInv, RootSigned, r
  <2>2. QED
    BY <1>7, <1>9, <2>1 DEF IInv, RootInv, View
<1>17. QED
  BY <1>10, <1>11, <1>12, <1>13, <1>14, <1>15, <1>16 DEF IInv

\* A refusal keeps the invariant: the call only disappears.
LEMMA RefusedStep ==
    ASSUME IInv, NEW t \in Tabs, Refused(t)
    PROVE  IInv'
<1>1. NoCall \in Call /\ NoCall.pc = "idle"
  BY SessionAssumption DEF NoCall, Call, Phases, MaybeWallet
<1>2. call'[t] = NoCall /\ \A u \in Tabs \ {t} : call'[u] = call[u]
  BY DEF IInv, TypeOK, Refused
<1>3. TypeOK'
  BY <1>1 DEF IInv, TypeOK, Refused
<1>4. CallInv' /\ RootInv' /\ ClosedInv'
  BY <1>1, <1>2 DEF IInv, CallInv, RootInv, View, ClosedInv, Refused
<1>5. OpenVaultIsWhole' /\ VerifiedOfWallet' /\ MirrorInv'
  BY DEF IInv, OpenVaultIsWhole, Whole, VerifiedOfWallet, MirrorInv, SingleTab,
     ForOther, Refused
<1>6. QED
  BY <1>3, <1>4, <1>5 DEF IInv

\* A reload keeps the invariant: the new session is locked and has no call.
LEMMA ReloadStep ==
    ASSUME IInv, NEW t \in Tabs, Reload(t)
    PROVE  IInv'
<1>1. stored \in Verified \cup {None}
  BY DEF IInv, TypeOK
<1>2. Load(stored) \in Verified \cup {None}
  BY <1>1, LoadType
<1>3. /\ Fresh \in Session /\ ~Fresh.unlocked /\ Fresh.wallet = None
      /\ Fresh.verified = Load(stored)
  BY <1>2 DEF Fresh, Session, MaybeWallet
<1>4. NoCall \in Call /\ NoCall.pc = "idle"
  BY SessionAssumption DEF NoCall, Call, Phases, MaybeWallet
<1>5. /\ sess'[t] = Fresh /\ \A u \in Tabs \ {t} : sess'[u] = sess[u]
      /\ call'[t] = NoCall /\ \A u \in Tabs \ {t} : call'[u] = call[u]
      /\ \A u \in Tabs \ {t} : during'[u] = during[u] /\ adapter'[u] = adapter[u]
  BY DEF IInv, TypeOK, Reload
<1>6. TypeOK'
  BY <1>2, <1>3, <1>4 DEF IInv, TypeOK, Reload, MaybeWallet, Disturbances
<1>7. OpenVaultIsWhole'
  BY <1>3, <1>5 DEF IInv, OpenVaultIsWhole, Whole
<1>8. VerifiedOfWallet' /\ MirrorInv'
  BY <1>3, <1>5 DEF VerifiedOfWallet, MirrorInv, SingleTab, Reload
<1>9. CallInv' /\ ClosedInv'
  BY <1>4, <1>5 DEF IInv, CallInv, ClosedInv
<1>10. RootInv'
  BY <1>3, <1>4, <1>5 DEF IInv, RootInv, View
<1>11. QED
  BY <1>6, <1>7, <1>8, <1>9, <1>10 DEF IInv

\* A tick of the clock keeps the invariant: no clause of it reads the clock.
LEMMA TickStep == IInv /\ Tick => IInv'
<1> SUFFICES ASSUME IInv, Tick PROVE IInv'
    OBVIOUS
<1>1. TypeOK'
  BY SessionAssumption DEF IInv, TypeOK, Tick
<1>2. QED
  BY <1>1 DEF IInv, Tick, OpenVaultIsWhole, Whole, VerifiedOfWallet, MirrorInv,
     CallInv, RootInv, View, ClosedInv, SingleTab, ForOther

\* Every step keeps the invariant.
LEMMA NextInv == IInv /\ [Next]_vars => IInv'
<1> SUFFICES ASSUME IInv, [Next]_vars PROVE IInv'
    OBVIOUS
<1>1. CASE Tick
  BY <1>1, TickStep
<1>2. ASSUME NEW t \in Tabs, Sync(t) PROVE IInv'
  <2>1. CASE adapter[t] # None /\ Connect(t, adapter[t])
    <3>1. adapter[t] \in Wallets
      BY <2>1 DEF IInv, TypeOK, MaybeWallet
    <3>2. QED
      BY <2>1, <3>1, ConnectStep
  <2>2. CASE /\ pending' = [pending EXCEPT ![t] = FALSE]
             /\ UNCHANGED <<now, stored, sess, adapter, call, during>>
    <3>1. TypeOK'
      BY <2>2 DEF IInv, TypeOK
    <3>2. QED
      BY <2>2, <3>1 DEF IInv, OpenVaultIsWhole, Whole, VerifiedOfWallet, MirrorInv,
         CallInv, RootInv, View, ClosedInv, SingleTab, ForOther
  <2>3. QED
    BY <1>2, <2>1, <2>2 DEF Sync
<1>3. ASSUME NEW t \in Tabs, NEW w \in MaybeWallet, AdapterChange(t, w) PROVE IInv'
  BY <1>3, AdapterStep
<1>4. ASSUME NEW t \in Tabs, Lock(t) PROVE IInv'
  BY <1>4, LockStep
<1>5. ASSUME NEW t \in Tabs, Refresh(t) PROVE IInv'
  BY <1>5, RefreshStep
<1>6. ASSUME NEW t \in Tabs, Disconnect(t) PROVE IInv'
  BY <1>6, DisconnectStep
<1>7. ASSUME NEW t \in Tabs, StartUnlock(t) PROVE IInv'
  BY <1>7, StartStep
<1>8. ASSUME NEW t \in Tabs, UnlockSigned(t) PROVE IInv'
  BY <1>8, UnlockSignedStep
<1>9. ASSUME NEW t \in Tabs, KekDerived(t) PROVE IInv'
  BY <1>9, KekStep
<1>10. ASSUME NEW t \in Tabs, RootSigned(t) PROVE IInv'
  BY <1>10, RootSignedStep
<1>11. ASSUME NEW t \in Tabs, Refused(t) PROVE IInv'
  BY <1>11, RefusedStep
<1>12. ASSUME NEW t \in Tabs, Reload(t) PROVE IInv'
  BY <1>12, ReloadStep
<1>13. CASE UNCHANGED vars
  BY <1>13 DEF IInv, TypeOK, vars, OpenVaultIsWhole, Whole, VerifiedOfWallet, MirrorInv,
     CallInv, RootInv, View, ClosedInv, SingleTab, ForOther
<1>14. QED
  BY <1>1, <1>2, <1>3, <1>4, <1>5, <1>6, <1>7, <1>8, <1>9, <1>10, <1>11, <1>12, <1>13
     DEF Next

-----------------------------------------------------------------------------
(* The session implements VaultSession, tab by tab. *)

\* A tab starts with a closed vault of no wallet and no unlock.
LEMMA VaultInit ==
    ASSUME Init, NEW t \in Tabs
    PROVE  Vault(t)!Init
<1>1. View(t) = [wallet |-> None, open |-> FALSE, verified |-> FALSE, ready |-> FALSE]
  BY DEF View, Init, Fresh, Load
<1>2. UnlockState(t) = "none"
  BY DEF UnlockState, Init, NoCall
<1>3. QED
  BY <1>1, <1>2 DEF Vault!Init, Vault!Closed

\* A handler that publishes a locked session closes the vault, on the wallet of
\* that session, and crosses the call that runs: connectWallet, lockVault and
\* disconnectWallet.
LEMMA VaultCloses ==
    ASSUME IInv, NEW t \in Tabs, NEW s \in Session, NEW v,
           Publish(t, s, v), ~s.unlocked, Disturbed(t, "locked"), call' = call
    PROVE  Vault(t)!Becomes(s.wallet) /\ Vault(t)!Crosses
<1>1. sess'[t] = [s EXCEPT !.verified = Load(v)]
  BY DEF IInv, TypeOK, Publish
<1>2. View(t)' = [wallet |-> s.wallet, open |-> FALSE, verified |-> Load(v) # None,
                  ready |-> FALSE]
  BY <1>1 DEF View, Session
<1>3. Vault(t)!Becomes(s.wallet)
  <2>1. (Load(v) # None) \in BOOLEAN
    OBVIOUS
  <2>2. QED
    BY <1>2, <2>1 DEF Vault!Becomes, Vault!Closed
<1>4. UnlockState(t)' = IF UnlockState(t) = "none" THEN "none" ELSE "crossed"
  BY DEF IInv, TypeOK, Disturbed, UnlockState
<1>5. QED
  BY <1>3, <1>4 DEF Vault!Crosses

\* The other tabs see nothing of a step that keeps their session, their call and
\* what happened to it.
LEMMA VaultStays ==
    ASSUME NEW t \in Tabs, sess'[t] = sess[t], call'[t] = call[t], during'[t] = during[t]
    PROVE  UNCHANGED Vault(t)!vars
BY DEF Vault!vars, View, UnlockState

\* unlockVault() and the reload of the page are steps of VaultSession.
LEMMA VaultUnlocks ==
    ASSUME IInv, NEW t \in Tabs,
           StartUnlock(t) \/ RootSigned(t) \/ Refused(t) \/ Reload(t)
    PROVE  Vault(t)!Next
<1> USE DEF IInv, TypeOK
<1>1. CASE StartUnlock(t)
  <2>1. View(t)' = View(t) /\ View(t).wallet # None /\ ~View(t).open
    BY <1>1 DEF StartUnlock, View
  <2>2. UnlockState(t) = "none" /\ UnlockState(t)' = "alone"
    BY <1>1 DEF StartUnlock, UnlockState
  <2>3. Vault(t)!Begin
    BY <2>1, <2>2 DEF Vault!Begin
  <2>4. QED
    BY <2>3 DEF Vault!Next
<1>2. CASE RootSigned(t)
  <2> DEFINE v == [wallet |-> sess[t].wallet, expires |-> now + VerifiedTTL]
             r == [wallet |-> call[t].wallet, by |-> adapter[t]]
  <2>1. sess[t] \in Session /\ ~sess[t].unlocked /\ call[t] \in Call /\ call[t].pc = "rootSig"
    BY <1>2 DEF ClosedInv, RootSigned
  <2>2. Load(v) = v /\ v # None
    <3>1. v \in Verified /\ now \in 0 .. MaxTime
      BY <2>1, TimesType DEF Verified, Session
    <3>2. v.expires > now
      BY <3>1, SessionAssumption
    <3>3. QED
      BY <3>1, <3>2, NullAssumption DEF Load
  <2>3. r # None
    <3>1. r \in RootSig
      BY <1>2, <2>1 DEF RootSigned, RootSig, Call, MaybeWallet
    <3>2. QED
      BY <3>1, NullAssumption
  <2>4. sess'[t] = [[sess[t] EXCEPT !.root = r, !.unlocked = TRUE] EXCEPT !.verified = Load(v)]
    BY <1>2 DEF RootSigned, Publish
  <2> DEFINE ready == sess[t].unlock # None
  <2>5. View(t)' = [wallet |-> View(t).wallet, open |-> TRUE, verified |-> TRUE,
                    ready |-> ready]
    <3> HIDE DEF v, r
    <3>1. /\ sess'[t].wallet = sess[t].wallet /\ sess'[t].unlocked = TRUE
          /\ sess'[t].unlock = sess[t].unlock /\ sess'[t].root = r
          /\ sess'[t].verified = v
      BY <2>1, <2>2, <2>4 DEF Session
    <3>2. QED
      BY <2>2, <2>3, <3>1 DEF View
  <2>6. UnlockState(t) # "none" /\ UnlockState(t)' = "none"
    BY <1>2 DEF RootSigned, UnlockState, NoCall
  <2>7. UnlockState(t) = "alone" => ready
    BY <2>1 DEF UnlockState, CallInv
  <2>8. Vault(t)!Open
    <3>1. ready \in BOOLEAN
      OBVIOUS
    <3>2. QED
      BY <2>5, <2>6, <2>7, <3>1 DEF Vault!Open
  <2>9. QED
    BY <2>8 DEF Vault!Next
<1>3. CASE Refused(t)
  <2>1. View(t)' = View(t)
    BY <1>3 DEF Refused, View
  <2>2. UnlockState(t) # "none" /\ UnlockState(t)' = "none"
    BY <1>3 DEF Refused, UnlockState, NoCall
  <2>3. QED
    BY <2>1, <2>2 DEF Vault!Refuse, Vault!Next
<1>4. CASE Reload(t)
  <2>1. sess'[t] = Fresh /\ call'[t] = NoCall
    BY <1>4 DEF Reload
  <2>2. View(t)' = [wallet |-> None, open |-> FALSE, verified |-> Load(stored) # None,
                    ready |-> FALSE]
    <3>1. /\ sess'[t].wallet = None /\ sess'[t].unlocked = FALSE
          /\ sess'[t].verified = Load(stored)
      BY <2>1 DEF Fresh
    <3>2. QED
      BY <3>1 DEF View
  <2>3. UnlockState(t)' = "none"
    BY <2>1 DEF UnlockState, NoCall
  <2>4. (Load(stored) # None) \in BOOLEAN
    OBVIOUS
  <2>5. Vault(t)!Reload
    BY <2>2, <2>3, <2>4 DEF Vault!Reload, Vault!Becomes, Vault!Closed
  <2>6. QED
    BY <2>5 DEF Vault!Next
<1>5. QED
  BY <1>1, <1>2, <1>3, <1>4

\* The steps that move the session without opening or closing it: an event of
\* the session, the adapter, the two signatures before the last.
LEMMA VaultMoves ==
    ASSUME IInv, NEW t \in Tabs,
           \/ Refresh(t)
           \/ \E w \in MaybeWallet : AdapterChange(t, w)
           \/ UnlockSigned(t)
           \/ KekDerived(t)
    PROVE  [Vault(t)!Next]_(Vault(t)!vars)
<1> USE DEF IInv, TypeOK
<1>1. CASE Refresh(t)
  <2>1. sess[t] \in Session /\ sess'[t] = [sess[t] EXCEPT !.verified = Load(stored)]
    BY <1>1 DEF Refresh, Publish
  <2>2. View(t)' = [View(t) EXCEPT !.verified = (Load(stored) # None)]
    BY <2>1 DEF View, Session
  <2>3. UnlockState(t)' = UnlockState(t)
    BY <1>1 DEF Refresh, UnlockState
  <2>4. (Load(stored) # None) \in BOOLEAN
    OBVIOUS
  <2>5. Vault(t)!Announce
    BY <2>2, <2>3, <2>4 DEF Vault!Announce
  <2>6. QED
    BY <2>5 DEF Vault!Next
<1>2. ASSUME NEW w \in MaybeWallet, AdapterChange(t, w) PROVE UNCHANGED Vault(t)!vars
  <2>1. UnlockState(t)' = UnlockState(t)
    BY <1>2 DEF AdapterChange, Disturbed, UnlockState
  <2>2. View(t)' = View(t)
    BY <1>2 DEF AdapterChange, View
  <2>3. QED
    BY <2>1, <2>2 DEF Vault!vars
<1>3. CASE UnlockSigned(t)
  <2>1. ~sess[t].unlocked /\ sess[t] \in Session /\ call[t] \in Call /\ call[t].pc = "unlockSig"
    BY <1>3 DEF ClosedInv, UnlockSigned
  <2>2. /\ ~sess'[t].unlocked /\ sess'[t].wallet = sess[t].wallet
        /\ sess'[t].verified = sess[t].verified
        /\ sess'[t].unlocked = sess[t].unlocked
    BY <1>3, <2>1 DEF UnlockSigned, Session
  <2>3. View(t)' = View(t)
    BY <2>1, <2>2 DEF View
  <2>4. call'[t].pc = "kek" /\ during' = during
    BY <1>3, <2>1 DEF UnlockSigned, Call
  <2>5. UnlockState(t)' = UnlockState(t)
    BY <2>1, <2>4 DEF UnlockState
  <2>6. QED
    BY <2>3, <2>5 DEF Vault!vars
<1>4. CASE KekDerived(t)
  <2>1. View(t)' = View(t)
    BY <1>4 DEF KekDerived, View
  <2>2. call[t] \in Call /\ call[t].pc = "kek" /\ call'[t].pc = "rootSig" /\ during' = during
    BY <1>4 DEF KekDerived, Call
  <2>3. UnlockState(t)' = UnlockState(t)
    BY <2>2 DEF UnlockState
  <2>4. QED
    BY <2>1, <2>3 DEF Vault!vars
<1>5. QED
  BY <1>1, <1>2, <1>3, <1>4

\* What a step of one tab leaves alone of the others.
LEMMA VaultOthers ==
    ASSUME IInv, NEW u \in Tabs, NEW t \in Tabs \ {u},
           \/ Sync(u)
           \/ \E w \in MaybeWallet : AdapterChange(u, w)
           \/ Lock(u) \/ Refresh(u) \/ Disconnect(u)
           \/ StartUnlock(u) \/ UnlockSigned(u) \/ KekDerived(u) \/ RootSigned(u)
           \/ Refused(u) \/ Reload(u)
    PROVE  UNCHANGED Vault(t)!vars
<1>1. sess'[t] = sess[t] /\ call'[t] = call[t] /\ during'[t] = during[t]
  BY DEF IInv, TypeOK, Sync, Connect, AdapterChange, Lock, Refresh, Disconnect, StartUnlock,
         UnlockSigned, KekDerived, RootSigned, Refused, Reload, Publish, Disturbed
<1>2. QED
  BY <1>1, VaultStays

\* Every step of the session is a step of VaultSession for its tab, and none for
\* the others.
LEMMA VaultStep ==
    ASSUME IInv, [Next]_vars, NEW t \in Tabs
    PROVE  [Vault(t)!Next]_(Vault(t)!vars)
<1>1. CASE Tick \/ UNCHANGED vars
  BY <1>1, VaultStays DEF Tick, vars
<1>2. CASE Sync(t)
  <2>1. CASE adapter[t] # None /\ Connect(t, adapter[t])
    <3>1. adapter[t] \in Wallets
      BY <2>1 DEF IInv, TypeOK, MaybeWallet
    <3>2. /\ Connected(sess[t], adapter[t]) \in Session
          /\ ~Connected(sess[t], adapter[t]).unlocked
          /\ Connected(sess[t], adapter[t]).wallet = adapter[t]
      BY <3>1 DEF IInv, TypeOK, Connected, Session, MaybeWallet
    <3>3. Vault(t)!Becomes(adapter[t]) /\ Vault(t)!Crosses
      BY <2>1, <3>2, VaultCloses DEF Connect
    <3>4. QED
      BY <3>1, <3>3 DEF Vault!Connect, Vault!Next
  <2>2. CASE UNCHANGED <<now, stored, sess, adapter, call, during>>
    BY <2>2, VaultStays
  <2>3. QED
    BY <1>2, <2>1, <2>2 DEF Sync
<1>3. CASE Lock(t)
  <2>1. Vault(t)!Becomes(sess[t].wallet) /\ Vault(t)!Crosses
    BY <1>3, LockedType, VaultCloses DEF Lock, IInv
  <2>2. View(t).wallet = sess[t].wallet
    BY DEF View
  <2>3. Vault(t)!Lock
    BY <2>1, <2>2 DEF Vault!Lock
  <2>4. QED
    BY <2>3 DEF Vault!Next
<1>4. CASE Disconnect(t)
  <2> DEFINE s == [Locked(sess[t]) EXCEPT !.wallet = None]
  <2>1. s \in Session /\ ~s.unlocked /\ s.wallet = None
    BY LockedType DEF IInv, Session, MaybeWallet
  <2>2. Publish(t, s, None) /\ Disturbed(t, "locked") /\ call' = call
    BY <1>4 DEF Disconnect
  <2> HIDE DEF s
  <2>3. Vault(t)!Disconnect
    BY <2>1, <2>2, VaultCloses DEF Vault!Disconnect
  <2>4. QED
    BY <2>3 DEF Vault!Next
<1>5. CASE StartUnlock(t) \/ RootSigned(t) \/ Refused(t) \/ Reload(t)
  BY <1>5, VaultUnlocks
<1>6. CASE \/ Refresh(t) \/ (\E w \in MaybeWallet : AdapterChange(t, w))
           \/ UnlockSigned(t) \/ KekDerived(t)
  BY <1>6, VaultMoves
<1>7. ASSUME NEW u \in Tabs, u # t,
             \/ Sync(u)
             \/ \E w \in MaybeWallet : AdapterChange(u, w)
             \/ Lock(u) \/ Refresh(u) \/ Disconnect(u)
             \/ StartUnlock(u) \/ UnlockSigned(u) \/ KekDerived(u) \/ RootSigned(u)
             \/ Refused(u) \/ Reload(u)
      PROVE  UNCHANGED Vault(t)!vars
  BY <1>7, VaultOthers
<1>8. QED
  BY <1>1, <1>2, <1>3, <1>4, <1>5, <1>6, <1>7 DEF Next

-----------------------------------------------------------------------------
\* The inductive invariant holds in every reachable state of the session.
THEOREM Inductive == Spec => []IInv
<1>1. QED
  BY InitInv, NextInv, PTL DEF Spec

\* Every field of the session keeps its type.
THEOREM TypeCorrect == Spec => []TypeOK
<1>1. IInv => TypeOK
  BY DEF IInv
<1>2. QED
  BY <1>1, Inductive, PTL

\* A vault opened by an unlockVault() nothing disturbed holds both signatures
\* of its own wallet for as long as it stays open.
THEOREM OpenVaultSafe == Spec => []OpenVaultIsWhole
<1>1. IInv => OpenVaultIsWhole
  BY DEF IInv
<1>2. QED
  BY <1>1, Inductive, PTL

\* With one tab the Verified signal in memory is never that of another wallet
\* than the connected one, whatever was pending when the wallet changed.
THEOREM VerifiedSafe == Spec => []VerifiedOfWallet
<1>1. IInv => VerifiedOfWallet
  BY DEF IInv
<1>2. QED
  BY <1>1, Inductive, PTL

\* Each tab implements the session MyFiles is built on: unlockVault() with its
\* three awaits is one opening, whatever reconnects, locks, disconnects or moves
\* the adapter meanwhile, and lacks a signature only if a lock crossed it.
THEOREM SessionImplementsVault == Spec => ImplementsVault
<1>1. Init => \A t \in Tabs : Vault(t)!Init
  BY VaultInit
<1>2. IInv /\ [Next]_vars =>
        [\A t \in Tabs : [Vault(t)!Next]_(Vault(t)!vars)]_vars
  BY VaultStep
<1>3. QED
  BY <1>1, <1>2, Inductive, PTL DEF Spec, ImplementsVault

\* With both signatures, the root message is that of the wallet of the session
\* or of no wallet: the list a page opens is never keyed with another wallet's.
THEOREM RootSafe == Spec => []RootInv
<1>1. IInv => RootInv
  BY DEF IInv
<1>2. QED
  BY <1>1, Inductive, PTL
=============================================================================
