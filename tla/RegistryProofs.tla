--------------------------- MODULE RegistryProofs ---------------------------
(***************************************************************************)
(* Proofs about Registry, for every set of wallets and of calls, every     *)
(* assignment of CIDs to calls and every capacity: IInv is inductive, the  *)
(* history of an account only grows, a recorded publication becomes the    *)
(* head unless that is of the same second, and Registry implements         *)
(* RegistryLog.                                                            *)
(***************************************************************************)
EXTENDS Registry, WellFoundedInduction, TLAPS

\* The initial state satisfies the invariant.
LEMMA InitInv == Init => IInv
<1> SUFFICES ASSUME Init PROVE IInv
    OBVIOUS
<1>1. 0 \in Times
  BY RegistryAssumption DEF Times
<1>2. NoAccount \in Account /\ ~NoAccount.exists /\ NoAccount.entries = <<>>
  BY <1>1 DEF NoAccount, Account
<1>3. \A w \in Wallets : account[w] = NoAccount
  BY DEF Init
<1>4. TypeOK
  BY <1>1, <1>2 DEF Init, TypeOK
<1>5. NoDuplicateCid /\ WithinCapacity /\ TimesOrdered /\ ClockInv
  BY <1>2, <1>3, RegistryAssumption
  DEF NoDuplicateCid, WithinCapacity, TimesOrdered, ClockInv
<1>6. RecordedOnce /\ ReportedIsListed /\ FlyingInv
  BY <1>2, <1>3 DEF Init, RecordedOnce, ReportedIsListed, FlyingInv
<1>7. QED
  BY <1>4, <1>5, <1>6 DEF IInv

\* The account a transaction works on once its init_registry ran.
Start(c) == IF init[c] THEN InitRegistry ELSE account[WalletOf[c]]

\* What an accepted transaction finds: an account with room and without the
\* CID; nothing was lost if it is a new one.
LEMMA StartFacts ==
    ASSUME IInv, NEW c \in Publishes, Accepts(c)
    PROVE  /\ Start(c) \in Account /\ Start(c).exists
           /\ Start(c).entries = account[WalletOf[c]].entries
           /\ Len(Start(c).entries) < MaxEntries
           /\ ~Listed(account[WalletOf[c]], CidOf[c])
           /\ account[WalletOf[c]].exists => Start(c) = account[WalletOf[c]]
<1>1. WalletOf[c] \in Wallets /\ account[WalletOf[c]] \in Account /\ clock \in Times
  BY RegistryAssumption DEF IInv, TypeOK
<1>2. CASE init[c]
  <2>1. ~account[WalletOf[c]].exists /\ account[WalletOf[c]].entries = <<>>
    BY <1>1, <1>2 DEF Accepts, IInv, ClockInv
  <2>2. Start(c) = InitRegistry
    BY <1>2 DEF Start
  <2>3. InitRegistry \in Account /\ InitRegistry.exists /\ InitRegistry.entries = <<>>
    BY <1>1 DEF InitRegistry, Account
  <2>4. QED
    BY <2>1, <2>2, <2>3, RegistryAssumption DEF Listed
<1>3. CASE ~init[c]
  BY <1>1, <1>3 DEF Start, Accepts
<1>4. QED
  BY <1>2, <1>3

\* What the transaction makes of it: the same entries, and one more.
LEMMA AfterFacts ==
    ASSUME IInv, NEW c \in Publishes, Accepts(c)
    PROVE  LET s == account[WalletOf[c]].entries
               r == After(c).entries
           IN  /\ After(c) \in Account /\ After(c).exists
               /\ account[WalletOf[c]].exists =>
                    After(c).created = account[WalletOf[c]].created
               /\ s \in Seq(Entry) /\ r \in Seq(Entry)
               /\ Len(r) = Len(s) + 1 /\ Len(r) <= MaxEntries
               /\ DOMAIN s = 1 .. Len(s) /\ DOMAIN r = 1 .. Len(s) + 1
               /\ \A i \in 1 .. Len(s) : r[i] = s[i]
               /\ r[Len(s) + 1] = [cid |-> CidOf[c], at |-> clock]
<1> DEFINE e == [cid |-> CidOf[c], at |-> clock]
<1>1. e \in Entry /\ clock \in Times
  BY RegistryAssumption DEF IInv, TypeOK, Entry
<1>2. /\ After(c) = [Start(c) EXCEPT !.entries = Append(@, e), !.updated = clock]
  BY DEF After, Start, AppendManifest
<1>3. /\ Start(c) \in Account /\ Start(c).exists
      /\ Start(c).entries = account[WalletOf[c]].entries
      /\ Len(Start(c).entries) < MaxEntries
      /\ account[WalletOf[c]].exists => Start(c) = account[WalletOf[c]]
  BY StartFacts
<1>4. Start(c).entries \in Seq(Entry)
  BY <1>3 DEF Account
<1> HIDE DEF e
<1>5. /\ After(c).entries = Append(Start(c).entries, e)
      /\ After(c).created = Start(c).created /\ After(c).exists
      /\ After(c) \in Account
  <2>1. Append(Start(c).entries, e) \in Seq(Entry)
    BY <1>1, <1>4
  <2>2. QED
    BY <1>1, <1>2, <1>3, <2>1 DEF Account
<1>6. DEFINE s == Start(c).entries
<1>7. /\ Append(s, e) \in Seq(Entry) /\ Len(Append(s, e)) = Len(s) + 1
      /\ DOMAIN s = 1 .. Len(s) /\ DOMAIN Append(s, e) = 1 .. Len(s) + 1
      /\ \A i \in 1 .. Len(s) : Append(s, e)[i] = s[i]
      /\ Append(s, e)[Len(s) + 1] = e
  BY <1>1, <1>4
<1>8. Len(s) \in Nat
  BY <1>4
<1>9. QED
  BY <1>3, <1>4, <1>5, <1>7, <1>8, RegistryAssumption DEF e

\* An accepted transaction keeps the invariant.
LEMMA ExecuteStep ==
    ASSUME IInv, NEW c \in Publishes, tx[c] = "flying", Accepts(c),
           account' = [account EXCEPT ![WalletOf[c]] = After(c)],
           tx' = [tx EXCEPT ![c] = "ok"],
           crossed' = [d \in Publishes |->
               crossed[d] \/ (d # c /\ WalletOf[d] = WalletOf[c] /\ tx[d] = "flying")],
           UNCHANGED <<clock, pc, init>>
    PROVE  IInv'
<1> DEFINE w0 == WalletOf[c]
           s == account[w0].entries
           r == After(c).entries
           n == Len(s)
<1>1. w0 \in Wallets /\ TypeOK
  BY RegistryAssumption DEF IInv
<1>2. /\ After(c) \in Account /\ After(c).exists
      /\ s \in Seq(Entry) /\ r \in Seq(Entry)
      /\ Len(r) = n + 1 /\ Len(r) <= MaxEntries
      /\ DOMAIN s = 1 .. n /\ DOMAIN r = 1 .. n + 1
      /\ \A i \in 1 .. n : r[i] = s[i]
      /\ r[n + 1] = [cid |-> CidOf[c], at |-> clock]
  BY AfterFacts
<1>3. ~Listed(account[w0], CidOf[c])
  BY StartFacts
<1>4. n \in Nat
  BY <1>2
<1>5. account'[w0] = After(c) /\ \A w \in Wallets \ {w0} : account'[w] = account[w]
  BY <1>1 DEF TypeOK
<1>6. tx'[c] = "ok" /\ \A d \in Publishes \ {c} : tx'[d] = tx[d]
  BY <1>1 DEF TypeOK
<1>7. \A d \in Publishes : /\ crossed[d] => crossed'[d]
                           /\ ~crossed'[d] /\ d # c /\ WalletOf[d] = w0 => tx[d] # "flying"
  BY <1>1 DEF TypeOK
<1>8. \A cid : Listed(account[w0], cid) => Listed(account'[w0], cid)
  BY <1>2, <1>4, <1>5 DEF Listed
<1>9. Listed(account'[w0], CidOf[c])
  BY <1>2, <1>4, <1>5 DEF Listed
<1>10. TypeOK'
  BY <1>1, <1>2 DEF TypeOK
<1>11. \A i \in 1 .. n : s[i].cid # CidOf[c] /\ s[i].at <= clock
  BY <1>1, <1>2, <1>3 DEF Listed, IInv, ClockInv
<1>21. /\ \A k \in 1 .. n + 1 : k \in 1 .. n \/ k = n + 1
       /\ r[n + 1].cid = CidOf[c] /\ r[n + 1].at = clock
       /\ \A k \in 1 .. n : r[k].cid # CidOf[c] /\ r[k].at <= clock
  <2>1. \A k \in 1 .. n + 1 : k \in 1 .. n \/ k = n + 1
    BY <1>4
  <2>2. \A k \in 1 .. n : r[k].cid # CidOf[c] /\ r[k].at <= clock
    BY <1>2, <1>11
  <2>3. r[n + 1].cid = CidOf[c] /\ r[n + 1].at = clock
    BY <1>2
  <2>4. QED
    BY <2>1, <2>2, <2>3
<1> HIDE DEF w0, s, r, n
<1>12. NoDuplicateCid'
  <2> SUFFICES ASSUME NEW w \in Wallets,
                      NEW i \in DOMAIN account'[w].entries,
                      NEW j \in DOMAIN account'[w].entries,
                      account'[w].entries[i].cid = account'[w].entries[j].cid
               PROVE  i = j
    BY DEF NoDuplicateCid
  <2>1. CASE w # w0
    BY <1>5, <2>1 DEF IInv, NoDuplicateCid
  <2>2. CASE w = w0
    <3>1. i \in 1 .. n + 1 /\ j \in 1 .. n + 1 /\ r[i].cid = r[j].cid
      BY <1>2, <1>5, <2>2 DEF r
    <3>2. CASE i \in 1 .. n /\ j \in 1 .. n
      <4>1. i \in DOMAIN s /\ j \in DOMAIN s /\ s[i].cid = s[j].cid
        BY <1>2, <3>1, <3>2
      <4>2. QED
        BY <1>1, <4>1 DEF IInv, NoDuplicateCid, s
    <3>3. CASE i = n + 1 \/ j = n + 1
      BY <1>21, <3>1, <3>3
    <3>4. QED
      BY <1>21, <3>1, <3>2, <3>3
  <2>3. QED
    BY <2>1, <2>2
<1>13. WithinCapacity'
  BY <1>2, <1>5 DEF IInv, WithinCapacity, r
<1>14. TimesOrdered'
  <2> SUFFICES ASSUME NEW w \in Wallets,
                      NEW i \in DOMAIN account'[w].entries,
                      NEW j \in DOMAIN account'[w].entries, i <= j
               PROVE  account'[w].entries[i].at <= account'[w].entries[j].at
    BY DEF TimesOrdered
  <2>1. CASE w # w0
    BY <1>5, <2>1 DEF IInv, TimesOrdered
  <2>2. CASE w = w0
    <3>1. i \in 1 .. n + 1 /\ j \in 1 .. n + 1 /\ account'[w].entries = r
      BY <1>2, <1>5, <2>2 DEF r
    <3>2. CASE j \in 1 .. n
      <4>1. i \in 1 .. n
        BY <1>4, <3>1, <3>2
      <4>2. s[i].at <= s[j].at
        BY <1>1, <1>2, <3>2, <4>1 DEF IInv, TimesOrdered, s
      <4>3. QED
        BY <1>2, <3>1, <3>2, <4>1, <4>2
    <3>3. CASE j = n + 1
      <4>1. clock \in Int
        BY <1>1 DEF TypeOK, Times
      <4>2. r[i].at <= clock
        BY <1>21, <3>1, <4>1
      <4>3. QED
        BY <1>21, <3>1, <3>3, <4>2
    <3>4. QED
      BY <1>4, <3>1, <3>2, <3>3
  <2>3. QED
    BY <2>1, <2>2
<1>15. RecordedOnce'
  <2>1. ASSUME NEW d \in Publishes, tx'[d] = "ok"
        PROVE  Listed(account'[WalletOf[d]], CidOf[d])
    <3>1. CASE d = c
      BY <1>9, <3>1 DEF w0
    <3>2. CASE d # c
      <4>1. Listed(account[WalletOf[d]], CidOf[d]) /\ WalletOf[d] \in Wallets
        BY <1>6, <2>1, <3>2, RegistryAssumption DEF IInv, RecordedOnce
      <4>2. QED
        BY <1>5, <1>8, <4>1
    <3>3. QED
      BY <3>1, <3>2
  <2>2. ASSUME NEW d \in Publishes, NEW e \in Publishes, tx'[d] = "ok", tx'[e] = "ok",
               WalletOf[d] = WalletOf[e], CidOf[d] = CidOf[e]
        PROVE  d = e
    <3>1. ASSUME NEW x \in Publishes, x # c, tx'[x] = "ok", WalletOf[x] = w0, CidOf[x] = CidOf[c]
          PROVE  FALSE
      BY <1>3, <1>6, <3>1 DEF IInv, RecordedOnce, w0
    <3>2. CASE d # c /\ e # c
      BY <1>6, <2>2, <3>2 DEF IInv, RecordedOnce
    <3>3. QED
      BY <2>2, <3>1, <3>2 DEF w0
  <2>3. ASSUME NEW w \in Wallets, NEW i \in DOMAIN account'[w].entries
        PROVE  \E d \in Publishes :
                  tx'[d] = "ok" /\ WalletOf[d] = w /\ CidOf[d] = account'[w].entries[i].cid
    <3>1. ASSUME i \in DOMAIN account[w].entries,
                 account'[w].entries[i] = account[w].entries[i]
          PROVE  \E d \in Publishes :
                  tx'[d] = "ok" /\ WalletOf[d] = w /\ CidOf[d] = account'[w].entries[i].cid
      <4>1. PICK d \in Publishes : tx[d] = "ok" /\ WalletOf[d] = w
                                   /\ CidOf[d] = account[w].entries[i].cid
        BY <3>1 DEF IInv, RecordedOnce
      <4>2. tx'[d] = "ok"
        BY <1>6, <4>1
      <4>3. QED
        BY <3>1, <4>1, <4>2
    <3>2. CASE w # w0
      BY <1>5, <2>3, <3>1, <3>2
    <3>3. CASE w = w0 /\ i \in 1 .. n
      <4>1. i \in DOMAIN s /\ r[i] = s[i]
        BY <1>2, <3>3
      <4>2. i \in DOMAIN account[w].entries /\ account'[w].entries[i] = account[w].entries[i]
        BY <1>5, <3>3, <4>1 DEF r, s
      <4>3. QED
        BY <3>1, <4>2
    <3>4. CASE w = w0 /\ i = n + 1
      BY <1>5, <1>6, <1>21, <3>4 DEF r, w0
    <3>5. w = w0 => i \in 1 .. n + 1
      BY <1>2, <1>5, <2>3 DEF r
    <3>6. QED
      BY <1>21, <3>2, <3>3, <3>4, <3>5
  <2>4. QED
    BY <2>1, <2>2, <2>3 DEF RecordedOnce
<1>16. ReportedIsListed'
  <2> SUFFICES ASSUME NEW d \in Publishes, pc[d] = "published", ~crossed'[d]
               PROVE  Listed(account'[WalletOf[d]], CidOf[d])
    BY DEF ReportedIsListed
  <2>1. Listed(account[WalletOf[d]], CidOf[d]) /\ WalletOf[d] \in Wallets
    BY <1>7, RegistryAssumption DEF IInv, ReportedIsListed
  <2>2. QED
    BY <1>5, <1>8, <2>1
<1>17. ClockInv'
  <2>1. \A i \in DOMAIN r : r[i].at <= clock
    <3>1. clock \in Int
      BY <1>1 DEF TypeOK, Times
    <3>2. QED
      BY <1>2, <1>21, <3>1
  <2>2. QED
    BY <1>2, <1>5, <2>1 DEF IInv, ClockInv, r
<1>18. FlyingInv'
  <2> SUFFICES ASSUME NEW d \in Publishes
               PROVE  /\ tx'[d] = "flying" /\ ~crossed'[d] => Accepts(d)'
                      /\ tx'[d] = "rejected" => crossed'[d]
                      /\ pc[d] = "published" => tx'[d] \in {"ok", "rejected"}
                      /\ pc[d] \in {"idle", "built"} => tx'[d] = "none" /\ ~crossed'[d]
    BY DEF FlyingInv
  <2>1. CASE d = c
    BY <1>6, <2>1 DEF IInv, FlyingInv
  <2>2. CASE d # c
    <3>1. tx'[d] = tx[d] /\ (crossed[d] => crossed'[d])
      BY <1>6, <1>7, <2>2
    <3>2. tx[d] = "flying" /\ ~crossed'[d] => Accepts(d)'
      <4> SUFFICES ASSUME tx[d] = "flying", ~crossed'[d] PROVE Accepts(d)'
        OBVIOUS
      <4>1. WalletOf[d] # w0 /\ WalletOf[d] \in Wallets
        BY <1>7, <2>2, RegistryAssumption
      <4>2. Accepts(d)
        BY <1>7 DEF IInv, FlyingInv
      <4>3. account'[WalletOf[d]] = account[WalletOf[d]]
        BY <1>5, <4>1
      <4>4. QED
        BY <4>2, <4>3 DEF Accepts, Listed
    <3>3. pc[d] \in {"idle", "built"} => ~crossed'[d]
      BY <1>1 DEF TypeOK, IInv, FlyingInv
    <3>4. QED
      BY <3>1, <3>2, <3>3 DEF IInv, FlyingInv
  <2>3. QED
    BY <2>1, <2>2
<1>19. QED
  BY <1>10, <1>12, <1>13, <1>14, <1>15, <1>16, <1>17, <1>18 DEF IInv

-----------------------------------------------------------------------------
\* The steps that leave the accounts alone keep what is said of them only.
LEMMA QuietStep ==
    ASSUME IInv, UNCHANGED <<account>>
    PROVE  NoDuplicateCid' /\ WithinCapacity' /\ TimesOrdered'
BY DEF IInv, NoDuplicateCid, WithinCapacity, TimesOrdered

\* Whether a transaction is accepted depends on its account and its shape.
LEMMA AcceptsStable ==
    ASSUME NEW c \in Publishes, UNCHANGED account, init'[c] = init[c]
    PROVE  Accepts(c)' <=> Accepts(c)
BY DEF Accepts, Listed

\* The answer of getRegistry keeps the invariant.
LEMMA FetchStep ==
    ASSUME IInv, NEW c \in Publishes, Fetch(c)
    PROVE  IInv'
<1>1. TypeOK' /\ UNCHANGED account
  BY DEF IInv, TypeOK, Fetch
<1>2. RecordedOnce' /\ ClockInv'
  BY DEF IInv, RecordedOnce, ClockInv, Listed, Fetch
<1>3. ReportedIsListed'
  BY DEF IInv, TypeOK, ReportedIsListed, Listed, Fetch
<1>4. FlyingInv'
  <2> SUFFICES ASSUME NEW d \in Publishes
               PROVE  /\ tx[d] = "flying" /\ ~crossed[d] => Accepts(d)'
                      /\ tx[d] = "rejected" => crossed[d]
                      /\ pc'[d] = "published" => tx[d] \in {"ok", "rejected"}
                      /\ pc'[d] \in {"idle", "built"} => tx[d] = "none" /\ ~crossed[d]
    BY DEF FlyingInv, Fetch
  <2>1. CASE d = c
    BY <2>1 DEF IInv, TypeOK, FlyingInv, Fetch
  <2>2. CASE d # c
    <3>1. pc'[d] = pc[d] /\ init'[d] = init[d]
      BY <2>2 DEF IInv, TypeOK, Fetch
    <3>2. Accepts(d)' <=> Accepts(d)
      BY <1>1, <3>1, AcceptsStable
    <3>3. QED
      BY <3>1, <3>2 DEF IInv, FlyingInv
  <2>3. QED
    BY <2>1, <2>2
<1>5. QED
  BY <1>1, <1>2, <1>3, <1>4, QuietStep DEF IInv

\* A call that ends before it sent anything keeps the invariant, and so does
\* one whose confirmation throws.
LEMMA FailStep ==
    ASSUME IInv, NEW c \in Publishes, GiveUp(c) \/ TimeOut(c)
    PROVE  IInv'
<1>1. /\ TypeOK' /\ UNCHANGED <<clock, account, init, tx, crossed>>
      /\ pc'[c] = "failed" /\ \A d \in Publishes \ {c} : pc'[d] = pc[d]
  BY DEF IInv, TypeOK, GiveUp, TimeOut
<1>2. RecordedOnce' /\ ClockInv'
  BY <1>1 DEF IInv, RecordedOnce, ClockInv, Listed
<1>3. ReportedIsListed'
  BY <1>1 DEF IInv, ReportedIsListed, Listed
<1>4. \A d \in Publishes : Accepts(d)' <=> Accepts(d)
  BY <1>1, AcceptsStable
<1>5. FlyingInv'
  BY <1>1, <1>4 DEF IInv, FlyingInv
<1>6. QED
  BY <1>1, <1>2, <1>3, <1>5, QuietStep DEF IInv

\* Sending keeps the invariant: the simulation just accepted the transaction.
LEMMA SendStep ==
    ASSUME IInv, NEW c \in Publishes, Send(c)
    PROVE  IInv'
<1>1. /\ TypeOK' /\ UNCHANGED <<clock, account, init, crossed>>
      /\ pc'[c] = "sent" /\ \A d \in Publishes \ {c} : pc'[d] = pc[d]
      /\ tx'[c] = "flying" /\ \A d \in Publishes \ {c} : tx'[d] = tx[d]
  BY DEF IInv, TypeOK, Send
<1>2. tx[c] = "none" /\ Accepts(c)
  BY DEF IInv, FlyingInv, Send
<1>3. RecordedOnce'
  BY <1>1, <1>2 DEF IInv, RecordedOnce, Listed
<1>4. ReportedIsListed' /\ ClockInv'
  BY <1>1 DEF IInv, ReportedIsListed, ClockInv, Listed
<1>5. \A d \in Publishes : Accepts(d)' <=> Accepts(d)
  BY <1>1, AcceptsStable
<1>6. FlyingInv'
  BY <1>1, <1>2, <1>5 DEF IInv, FlyingInv
<1>7. QED
  BY <1>1, <1>3, <1>4, <1>6, QuietStep DEF IInv

\* A transaction that ends without effect keeps the invariant: it was crossed
\* if it was rejected, since otherwise it would have been accepted.
LEMMA LostStep ==
    ASSUME IInv, NEW c \in Publishes, tx[c] = "flying",
           NEW out \in {"rejected", "dropped"},
           out = "rejected" => ~Accepts(c),
           tx' = [tx EXCEPT ![c] = out],
           UNCHANGED <<clock, account, pc, init, crossed>>
    PROVE  IInv'
<1>1. /\ TypeOK'
      /\ tx'[c] = out /\ \A d \in Publishes \ {c} : tx'[d] = tx[d]
  BY DEF IInv, TypeOK
<1>2. RecordedOnce'
  BY <1>1 DEF IInv, RecordedOnce, Listed
<1>3. ReportedIsListed' /\ ClockInv'
  BY DEF IInv, ReportedIsListed, ClockInv, Listed
<1>4. \A d \in Publishes : Accepts(d)' <=> Accepts(d)
  BY AcceptsStable
<1>5. FlyingInv'
  BY <1>1, <1>4 DEF IInv, FlyingInv
<1>6. QED
  BY <1>1, <1>2, <1>3, <1>5, QuietStep DEF IInv

\* A confirmation keeps the invariant: what is not crossed was accepted.
LEMMA ConfirmStep ==
    ASSUME IInv, NEW c \in Publishes, Confirm(c)
    PROVE  IInv'
<1>1. /\ TypeOK' /\ UNCHANGED <<clock, account, init, tx, crossed>>
      /\ pc'[c] = "published" /\ \A d \in Publishes \ {c} : pc'[d] = pc[d]
      /\ tx[c] \in {"ok", "rejected"}
  BY DEF IInv, TypeOK, Confirm
<1>2. RecordedOnce' /\ ClockInv'
  BY <1>1 DEF IInv, RecordedOnce, ClockInv, Listed
<1>3. ~crossed[c] => Listed(account[WalletOf[c]], CidOf[c])
  BY <1>1 DEF IInv, FlyingInv, RecordedOnce
<1>4. ReportedIsListed'
  BY <1>1, <1>3 DEF IInv, ReportedIsListed, Listed
<1>5. \A d \in Publishes : Accepts(d)' <=> Accepts(d)
  BY <1>1, AcceptsStable
<1>6. FlyingInv'
  BY <1>1, <1>5 DEF IInv, FlyingInv
<1>7. QED
  BY <1>1, <1>2, <1>4, <1>6, QuietStep DEF IInv

\* The times in an account are numbers.
LEMMA EntryTimes ==
    ASSUME TypeOK, NEW w \in Wallets, NEW i \in DOMAIN account[w].entries
    PROVE  account[w].entries[i].at \in Int
<1>1. account[w].entries \in Seq(Entry)
  BY DEF TypeOK, Account
<1>2. account[w].entries[i] \in Entry
  BY <1>1
<1>3. account[w].entries[i].at \in Times
  BY <1>2 DEF Entry
<1>4. QED
  BY <1>3 DEF Times

\* The clock only moves forward, so no entry gets later than it.
LEMMA TickStep == IInv /\ Tick => IInv'
<1> SUFFICES ASSUME IInv, Tick PROVE IInv'
    OBVIOUS
<1>1. /\ TypeOK' /\ UNCHANGED <<account, pc, init, tx, crossed>>
      /\ clock \in Nat /\ clock' = clock + 1
  BY RegistryAssumption DEF IInv, TypeOK, Tick, Times
<1>2. ClockInv'
  <2> SUFFICES ASSUME NEW w \in Wallets
               PROVE  /\ \A i \in DOMAIN account[w].entries : account[w].entries[i].at <= clock'
                      /\ ~account[w].exists => account[w].entries = <<>>
    BY <1>1 DEF ClockInv
  <2>1. \A i \in DOMAIN account[w].entries : account[w].entries[i].at \in Int
    BY EntryTimes DEF IInv
  <2>2. QED
    BY <1>1, <2>1 DEF IInv, ClockInv
<1>3. RecordedOnce' /\ ReportedIsListed'
  BY <1>1 DEF IInv, RecordedOnce, ReportedIsListed, Listed
<1>4. \A d \in Publishes : Accepts(d)' <=> Accepts(d)
  BY <1>1, AcceptsStable
<1>5. FlyingInv'
  BY <1>1, <1>4 DEF IInv, FlyingInv
<1>6. QED
  BY <1>1, <1>2, <1>3, <1>5, QuietStep DEF IInv

\* Every step keeps the invariant.
LEMMA NextInv == IInv /\ [Next]_vars => IInv'
<1> SUFFICES ASSUME IInv, [Next]_vars PROVE IInv'
    OBVIOUS
<1>1. CASE Tick
  BY <1>1, TickStep
<1>2. ASSUME NEW c \in Publishes, Fetch(c) PROVE IInv'
  BY <1>2, FetchStep
<1>3. ASSUME NEW c \in Publishes, GiveUp(c) \/ TimeOut(c) PROVE IInv'
  BY <1>3, FailStep
<1>4. ASSUME NEW c \in Publishes, Send(c) PROVE IInv'
  BY <1>4, SendStep
<1>5. ASSUME NEW c \in Publishes, Execute(c) PROVE IInv'
  <2>1. CASE Accepts(c)
    BY <1>5, <2>1, ExecuteStep DEF Execute
  <2>2. CASE ~Accepts(c)
    BY <1>5, <2>2, LostStep DEF Execute
  <2>3. QED
    BY <2>1, <2>2
<1>6. ASSUME NEW c \in Publishes, Drop(c) PROVE IInv'
  BY <1>6, LostStep DEF Drop
<1>7. ASSUME NEW c \in Publishes, Confirm(c) PROVE IInv'
  BY <1>7, ConfirmStep
<1>8. CASE UNCHANGED vars
  <2>1. UNCHANGED <<clock, account, pc, init, tx, crossed>>
    BY <1>8 DEF vars
  <2>2. \A d \in Publishes : Accepts(d)' <=> Accepts(d)
    BY <2>1, AcceptsStable
  <2>3. TypeOK' /\ RecordedOnce' /\ ReportedIsListed' /\ ClockInv'
    BY <2>1 DEF IInv, TypeOK, RecordedOnce, ReportedIsListed, ClockInv, Listed
  <2>4. FlyingInv'
    BY <2>1, <2>2 DEF IInv, FlyingInv
  <2>5. QED
    BY <2>1, <2>3, <2>4, QuietStep DEF IInv
<1>9. QED
  BY <1>1, <1>2, <1>3, <1>4, <1>5, <1>6, <1>7, <1>8 DEF Next

-----------------------------------------------------------------------------
\* The inductive invariant holds in every reachable state of the registry.
THEOREM Inductive == Spec => []IInv
<1>1. QED
  BY InitInv, NextInv, PTL DEF Spec

\* Every account is well formed and every call is at a place it knows.
THEOREM TypeCorrect == Spec => []TypeOK
<1>1. IInv => TypeOK
  BY DEF IInv
<1>2. QED
  BY <1>1, Inductive, PTL

\* An account never lists a CID twice, whatever races, retries and late
\* transactions: the check of append_manifest is atomic with its push.
THEOREM DuplicateFree == Spec => []NoDuplicateCid
<1>1. IInv => NoDuplicateCid
  BY DEF IInv
<1>2. QED
  BY <1>1, Inductive, PTL

\* An account never exceeds MAX_ENTRIES, for which its space was allocated.
THEOREM Bounded == Spec => []WithinCapacity
<1>1. IInv => WithinCapacity
  BY DEF IInv
<1>2. QED
  BY <1>1, Inductive, PTL

\* Entries are in the order of their publication times.
THEOREM Ordered == Spec => []TimesOrdered
<1>1. IInv => TimesOrdered
  BY DEF IInv
<1>2. QED
  BY <1>1, Inductive, PTL

\* Executed transactions and entries correspond one to one, for good.
THEOREM Recorded == Spec => []RecordedOnce
<1>1. IInv => RecordedOnce
  BY DEF IInv
<1>2. QED
  BY <1>1, Inductive, PTL

\* A publication reported as done and not crossed by another is listed.
THEOREM ReportSound == Spec => []ReportedIsListed
<1>1. IInv => ReportedIsListed
  BY DEF IInv
<1>2. QED
  BY <1>1, Inductive, PTL

\* A set of natural numbers that is not empty has a least element.
LEMMA LeastNumber ==
    ASSUME NEW T, T \subseteq Nat, T # {}
    PROVE  \E m \in T : \A i \in T : m <= i
<1> DEFINE R == {p \in Nat \X Nat : p[1] < p[2]}
<1>1. IsWellFoundedOn(R, Nat)
  BY NatLessThanWellFounded DEF OpToRel
<1> HIDE DEF R
<1>2. PICK m \in T : \A i \in T : <<i, m>> \notin R
  BY <1>1, WFMin
<1>3. \A i \in T : ~(i < m)
  BY <1>2 DEF R
<1>4. QED
  BY <1>2, <1>3

\* Entries in time order: the last one has the latest time, so the first entry
\* of that time precedes every other in the sort of selectHead, and it alone.
LEMMA HeadOfOrdered ==
    ASSUME IInv, NEW w \in Wallets, account[w].entries # <<>>
    PROVE  LET es == account[w].entries
               h  == SelectHead(es)
           IN  /\ h \in DOMAIN es
               /\ es[h].at = es[Len(es)].at
               /\ \A i \in DOMAIN es : i # h => Before(es, h, i) /\ ~Before(es, i, h)
<1> DEFINE es == account[w].entries
           n == Len(es)
           Latest == {i \in 1 .. n : es[i].at = es[n].at}
<1>1. es \in Seq(Entry) /\ es # <<>>
  BY DEF IInv, TypeOK, Account
<1>2. n \in Nat /\ n > 0 /\ DOMAIN es = 1 .. n
  BY <1>1
<1>3. \A i \in 1 .. n : es[i].at \in Int
  BY <1>2, EntryTimes DEF IInv
<1>4. \A i \in 1 .. n : es[i].at <= es[n].at
  BY <1>2 DEF IInv, TimesOrdered
<1>5. n \in Latest /\ Latest \subseteq Nat
  BY <1>2
<1> HIDE DEF es, n
<1>6. PICK h \in Latest : \A i \in Latest : h <= i
  BY <1>5, LeastNumber
<1>7. h \in 1 .. n /\ es[h].at = es[n].at
  BY <1>6
<1>8. \A i \in 1 .. n : i < h => es[i].at < es[h].at
  <2> SUFFICES ASSUME NEW i \in 1 .. n, i < h PROVE es[i].at < es[h].at
      OBVIOUS
  <2>1. i \notin Latest
    BY <1>6, <1>7
  <2>2. es[i].at # es[n].at /\ es[i].at <= es[n].at
    BY <1>4, <2>1
  <2>3. QED
    BY <1>2, <1>3, <1>7, <2>2
<1>9. \A i \in 1 .. n : i # h => Before(es, h, i)
  BY <1>3, <1>4, <1>7, <1>8 DEF Before
<1>10. \A i \in 1 .. n : Before(es, i, h) => i = h
  BY <1>3, <1>4, <1>7, <1>8 DEF Before
<1>11. h = SelectHead(es)
  BY <1>2, <1>7, <1>9, <1>10 DEF SelectHead
<1>12. QED
  BY <1>2, <1>7, <1>9, <1>10, <1>11 DEF es, n

\* The index that is before every other, and no other before it, is the head.
LEMMA HeadUnique ==
    ASSUME NEW es, NEW h \in DOMAIN es,
           \A i \in DOMAIN es : i # h => Before(es, h, i) /\ ~Before(es, i, h)
    PROVE  SelectHead(es) = h
BY DEF SelectHead

\* An entry later than all of a list, added at its end, is the head.
LEMMA LaterLeads ==
    ASSUME NEW s, NEW r, NEW n \in Nat, NEW t \in Int,
           DOMAIN r = 1 .. n + 1, r[n + 1].at = t,
           \A i \in 1 .. n : r[i] = s[i] /\ s[i].at \in Int /\ s[i].at < t
    PROVE  SelectHead(r) = n + 1
<1>1. n + 1 \in DOMAIN r
  OBVIOUS
<1>2. ASSUME NEW i \in DOMAIN r, i # n + 1
      PROVE  Before(r, n + 1, i) /\ ~Before(r, i, n + 1)
  <2>1. i \in 1 .. n
    BY <1>2
  <2>2. r[i].at \in Int /\ r[i].at < t
    BY <2>1
  <2>3. QED
    BY <2>2 DEF Before
<1>3. QED
  BY <1>1, <1>2, HeadUnique

\* An entry of the second of the head, added at the end, leaves the head.
LEMMA TieStays ==
    ASSUME NEW s, NEW r, NEW n \in Nat, NEW t \in Int, NEW h \in 1 .. n,
           DOMAIN r = 1 .. n + 1, r[n + 1].at = t, s[h].at = t,
           \A i \in 1 .. n : r[i] = s[i],
           \A i \in 1 .. n : i # h => Before(s, h, i) /\ ~Before(s, i, h)
    PROVE  SelectHead(r) = h
<1>1. h \in DOMAIN r /\ r[h].at = t
  OBVIOUS
<1>2. ASSUME NEW i \in DOMAIN r, i # h
      PROVE  Before(r, h, i) /\ ~Before(r, i, h)
  <2>1. CASE i \in 1 .. n
    BY <1>2, <2>1 DEF Before
  <2>2. CASE i = n + 1
    <3>1. r[i].at = t /\ h < i /\ ~(i < h)
      BY <2>2
    <3>2. QED
      BY <1>1, <3>1 DEF Before
  <2>3. QED
    BY <1>2, <2>1, <2>2
<1>3. QED
  BY <1>1, <1>2, HeadUnique

\* The transaction that records a publication makes it the head, or finds a head
\* of the same second.
LEMMA HeadAfter ==
    ASSUME IInv, NEW c \in Publishes, Accepts(c)
    PROVE  LET s == account[WalletOf[c]].entries
               r == After(c).entries
               h == r[SelectHead(r)]
           IN  \/ h.cid = CidOf[c]
               \/ s # <<>> /\ h = s[SelectHead(s)] /\ h.at = clock
<1> DEFINE w == WalletOf[c]
           s == account[w].entries
           r == After(c).entries
           n == Len(s)
<1>1. w \in Wallets /\ TypeOK /\ clock \in Int
  BY RegistryAssumption DEF IInv, TypeOK, Times
<1>2. /\ s \in Seq(Entry) /\ DOMAIN s = 1 .. n /\ DOMAIN r = 1 .. n + 1
      /\ \A i \in 1 .. n : r[i] = s[i]
      /\ r[n + 1] = [cid |-> CidOf[c], at |-> clock]
  BY AfterFacts
<1>3. n \in Nat
  BY <1>2
<1>4. \A i \in 1 .. n : s[i].at \in Int /\ s[i].at <= clock
  BY <1>1, <1>2, EntryTimes DEF IInv, ClockInv
<1>5. CASE \A i \in 1 .. n : s[i].at # clock
  <2>1. \A i \in 1 .. n : r[i] = s[i] /\ s[i].at \in Int /\ s[i].at < clock
    <3> HIDE DEF s, r, n
    <3>1. QED
      BY <1>1, <1>2, <1>4, <1>5
  <2>2. DOMAIN r = 1 .. n + 1 /\ r[n + 1].at = clock
    BY <1>2
  <2>3. SelectHead(r) = n + 1
    <3> HIDE DEF s, r, n
    <3>1. QED
      BY <1>1, <1>3, <2>1, <2>2, LaterLeads
  <2>4. QED
    BY <1>2, <2>3
<1>6. CASE \E i \in 1 .. n : s[i].at = clock
  <2> DEFINE h == SelectHead(s)
  <2>1. s # <<>> /\ n \in 1 .. n
    BY <1>2, <1>3, <1>6
  <2>2. s[n].at = clock
    <3>1. PICK i \in 1 .. n : s[i].at = clock
      BY <1>6
    <3>2. s[i].at <= s[n].at
      BY <1>1, <1>2, <1>3, <2>1, <3>1 DEF IInv, TimesOrdered
    <3>3. QED
      BY <1>1, <1>4, <2>1, <3>1, <3>2
  <2>3. /\ h \in 1 .. n /\ s[h].at = clock
        /\ \A i \in 1 .. n : i # h => Before(s, h, i) /\ ~Before(s, i, h)
    BY <1>1, <1>2, <2>1, <2>2, HeadOfOrdered
  <2> HIDE DEF h
  <2>4. DOMAIN r = 1 .. n + 1 /\ r[n + 1].at = clock /\ \A i \in 1 .. n : r[i] = s[i]
    BY <1>2
  <2>5. SelectHead(r) = h
    <3> HIDE DEF s, r, n
    <3>1. QED
      BY <1>1, <1>3, <2>3, <2>4, TieStays
  <2>6. QED
    BY <1>2, <2>1, <2>3, <2>5 DEF h
<1>7. QED
  BY <1>5, <1>6

\* Whatever calls race, a publication that is recorded becomes the head clients
\* restore from, unless the head is of the same second.
THEOREM HeadSafe == Spec => PublishedIsHead
<1> DEFINE Led(c) ==
             LET s == account[WalletOf[c]].entries
                 r == account'[WalletOf[c]].entries
                 h == r[SelectHead(r)]
             IN  \/ h.cid = CidOf[c]
                 \/ s # <<>> /\ h = s[SelectHead(s)] /\ h.at = clock
           AllLed == \A c \in Publishes : tx[c] = "flying" /\ tx'[c] = "ok" => Led(c)
<1>1. ASSUME IInv, [Next]_vars PROVE [AllLed]_vars
  <2> SUFFICES ASSUME NEW c \in Publishes, tx[c] = "flying", tx'[c] = "ok" PROVE Led(c)
      OBVIOUS
  <2>1. tx'[c] # tx[c]
    OBVIOUS
  <2>2. PICK d \in Publishes : Send(d) \/ Execute(d) \/ Drop(d)
    BY <1>1, <2>1 DEF Next, vars, Tick, Fetch, GiveUp, Confirm, TimeOut
  <2>3. tx' = [tx EXCEPT ![d] = tx'[d]] /\ d = c
    BY <1>1, <2>1, <2>2 DEF Send, Execute, Drop, IInv, TypeOK
  <2>4. Execute(c) /\ Accepts(c)
    BY <1>1, <2>2, <2>3 DEF Send, Execute, Drop, IInv, TypeOK
  <2>5. account' = [account EXCEPT ![WalletOf[c]] = After(c)] /\ WalletOf[c] \in Wallets
    BY <2>4, RegistryAssumption DEF Execute
  <2>6. account'[WalletOf[c]] = After(c)
    BY <1>1, <2>5 DEF IInv, TypeOK
  <2>7. QED
    BY <1>1, <2>4, <2>6, HeadAfter
<1>2. QED
  BY <1>1, Inductive, PTL DEF Spec, PublishedIsHead

\* What a transaction does to the account of its wallet, and to no other.
LEMMA StepGrows ==
    IInv /\ [Next]_vars =>
        \A w \in Wallets :
          /\ Grows(account[w].entries, account'[w].entries)
          /\ account[w].exists =>
               account'[w].exists /\ account'[w].created = account[w].created
<1> SUFFICES ASSUME IInv, [Next]_vars, NEW w \in Wallets
             PROVE  /\ Grows(account[w].entries, account'[w].entries)
                    /\ account[w].exists =>
                         account'[w].exists /\ account'[w].created = account[w].created
    OBVIOUS
<1>1. account[w].entries \in Seq(Entry)
  BY DEF IInv, TypeOK, Account
<1>2. CASE account'[w] = account[w]
  BY <1>1, <1>2 DEF Grows
<1>3. ASSUME NEW c \in Publishes, WalletOf[c] = w, Accepts(c),
             account' = [account EXCEPT ![w] = After(c)]
      PROVE  /\ Grows(account[w].entries, account'[w].entries)
             /\ account[w].exists =>
                  account'[w].exists /\ account'[w].created = account[w].created
  <2>1. account'[w] = After(c)
    BY <1>3 DEF IInv, TypeOK
  <2> DEFINE s == account[w].entries
             r == After(c).entries
  <2>2. /\ After(c).exists
        /\ account[w].exists => After(c).created = account[w].created
        /\ s \in Seq(Entry) /\ Len(r) = Len(s) + 1
        /\ DOMAIN s = 1 .. Len(s)
        /\ \A i \in 1 .. Len(s) : r[i] = s[i]
    BY <1>3, AfterFacts
  <2>3. Len(s) \in Nat
    BY <2>2
  <2>4. Grows(s, r)
    BY <2>2, <2>3 DEF Grows
  <2>5. QED
    BY <2>1, <2>2, <2>4
<1>4. \/ account'[w] = account[w]
      \/ \E c \in Publishes : /\ WalletOf[c] = w /\ Accepts(c)
                              /\ account' = [account EXCEPT ![w] = After(c)]
  <2>1. ASSUME NEW c \in Publishes, Execute(c)
        PROVE  \/ account'[w] = account[w]
               \/ /\ WalletOf[c] = w /\ Accepts(c)
                  /\ account' = [account EXCEPT ![w] = After(c)]
    BY <2>1 DEF Execute, IInv, TypeOK
  <2>2. QED
    BY <2>1 DEF Next, vars, Tick, Fetch, GiveUp, Send, Drop, Confirm, TimeOut
<1>5. QED
  BY <1>2, <1>3, <1>4

\* The history of a wallet only grows: once listed, listed for good.
THEOREM GrowsOnly == Spec => HistoryGrows
<1>1. QED
  BY Inductive, StepGrows, PTL DEF Spec, HistoryGrows
-----------------------------------------------------------------------------
(* Registry implements RegistryLog.                                          *)

\* The CIDs of a list of entries, as the log shows them.
CidsOf(es) == [i \in 1 .. Len(es) |-> es[i].cid]

\* One more entry is one more CID at the end of the log.
LEMMA CidsOfAppended ==
    ASSUME NEW s \in Seq(Entry), NEW r \in Seq(Entry), NEW k \in Nat,
           Len(r) = Len(s) + 1,
           \A i \in 1 .. Len(s) : r[i] = s[i],
           r[Len(s) + 1].cid = k
    PROVE  CidsOf(r) = Append(CidsOf(s), k) /\ Len(CidsOf(s)) = Len(s)
<1>1. \A i \in 1 .. Len(s) : s[i].cid \in Nat
  <2> SUFFICES ASSUME NEW i \in 1 .. Len(s) PROVE s[i].cid \in Nat
      OBVIOUS
  <2>1. s[i] \in Entry
    OBVIOUS
  <2>2. QED
    BY <2>1 DEF Entry
<1>2. Len(s) \in Nat
  OBVIOUS
<1>3. CidsOf(s) \in Seq(Nat) /\ Len(CidsOf(s)) = Len(s)
  BY <1>1, <1>2 DEF CidsOf
<1>4. /\ Append(CidsOf(s), k) = [i \in 1 .. Len(s) + 1 |->
                                   IF i = Len(s) + 1 THEN k ELSE s[i].cid]
  BY <1>2, <1>3 DEF CidsOf
<1>5. CidsOf(r) = [i \in 1 .. Len(s) + 1 |-> IF i = Len(s) + 1 THEN k ELSE s[i].cid]
  BY <1>2 DEF CidsOf
<1>6. QED
  BY <1>3, <1>4, <1>5

\* An account that does not list a CID shows a log without it.
LEMMA CidsOfListed ==
    ASSUME NEW a \in Account, NEW k, ~Listed(a, k)
    PROVE  k \notin Log!Range(CidsOf(a.entries))
<1>1. DOMAIN a.entries = 1 .. Len(a.entries) /\ Len(a.entries) \in Nat
  BY DEF Account
<1>2. QED
  BY <1>1 DEF Listed, CidsOf, Log!Range

\* No transaction is under way at the start, and no log has an entry.
LEMMA LogInit == Init => Log!Init
<1> SUFFICES ASSUME Init PROVE Log!Init
    OBVIOUS
<1>1. \A w \in Wallets : account[w].entries = <<>>
  BY DEF Init, NoAccount
<1>2. CidsOf(<<>>) = <<>>
  <2>1. CidsOf(<<>>) \in Seq(Nat) /\ Len(CidsOf(<<>>)) = 0
    BY DEF CidsOf
  <2>2. QED
    BY <2>1
<1>3. \A c \in Publishes : TxState(c) = "idle"
  BY DEF Init, TxState
<1>4. QED
  BY <1>1, <1>2, <1>3 DEF Log!Init, CidsOf

\* Each step is a step of the log, for one publication, or none.
LEMMA LogStep == IInv /\ [Next]_vars => [Log!Next]_(Log!vars)
<1> SUFFICES ASSUME IInv, [Next]_vars PROVE [Log!Next]_(Log!vars)
    OBVIOUS
<1> DEFINE log == [w \in Wallets |-> CidsOf(account[w].entries)]
           st  == [c \in Publishes |-> TxState(c)]
<1>0. /\ TypeOK
      /\ tx \in [Publishes -> {"none", "flying", "ok", "rejected", "dropped"}]
  BY DEF IInv, TypeOK
<1>1. ASSUME NEW c \in Publishes, NEW x, tx' = [tx EXCEPT ![c] = x]
      PROVE  st' = [st EXCEPT ![c] = TxState(c)']
  BY <1>0, <1>1 DEF TxState
<1>2. UNCHANGED account => log' = log
  OBVIOUS
<1>3. UNCHANGED tx => st' = st
  BY DEF TxState
<1>a. CidOf \in [Publishes -> Nat]
  BY RegistryAssumption
<1>4. CASE \E c \in Publishes : Send(c)
  <2>1. PICK c \in Publishes : Send(c)
    BY <1>4
  <2>2. tx[c] = "none" /\ tx'[c] = "flying"
    BY <1>0, <2>1 DEF Send, IInv, FlyingInv
  <2>3. st[c] = "idle" /\ st' = [st EXCEPT ![c] = "sent"]
    BY <1>1, <2>1, <2>2 DEF Send, TxState
  <2>4. log' = log
    BY <2>1 DEF Send
  <2>5. Log!Send(c)
    BY <1>a, <2>3, <2>4 DEF Log!Send, CidsOf
  <2>6. QED
    BY <2>5 DEF Log!Next
<1>5. CASE \E c \in Publishes : Execute(c) /\ Accepts(c)
  <2>1. PICK c \in Publishes : Execute(c) /\ Accepts(c)
    BY <1>5
  <2> DEFINE w == WalletOf[c]
             s == account[w].entries
             r == After(c).entries
  <2>2. /\ w \in Wallets /\ account[w] \in Account /\ CidOf[c] \in Nat
        /\ account' = [account EXCEPT ![w] = After(c)]
        /\ tx[c] = "flying" /\ tx'[c] = "ok"
    BY <1>0, <2>1, RegistryAssumption DEF Execute, TypeOK
  <2>3. /\ s \in Seq(Entry) /\ r \in Seq(Entry) /\ Len(r) = Len(s) + 1
        /\ \A i \in 1 .. Len(s) : r[i] = s[i]
        /\ r[Len(s) + 1].cid = CidOf[c]
    <3>1. /\ s \in Seq(Entry) /\ r \in Seq(Entry) /\ Len(r) = Len(s) + 1
          /\ \A i \in 1 .. Len(s) : r[i] = s[i]
          /\ r[Len(s) + 1] = [cid |-> CidOf[c], at |-> clock]
      BY <2>1, AfterFacts
    <3>2. QED
      BY <3>1
  <2>4. CidsOf(r) = Append(CidsOf(s), CidOf[c]) /\ Len(CidsOf(s)) = Len(s)
    BY <2>2, <2>3, CidsOfAppended
  <2>5. ~Listed(account[w], CidOf[c]) /\ Len(s) < MaxEntries
    BY <2>1, StartFacts
  <2>6. CidOf[c] \notin Log!Range(log[w])
    BY <2>2, <2>5, CidsOfListed
  <2>7. log' = [log EXCEPT ![w] = Append(@, CidOf[c])]
    BY <1>0, <2>2, <2>4 DEF TypeOK
  <2>8. st[c] = "sent" /\ st' = [st EXCEPT ![c] = "recorded"]
    BY <1>1, <2>1, <2>2 DEF Execute, TxState
  <2>9. Log!Record(c)
    BY <2>2, <2>4, <2>5, <2>6, <2>7, <2>8 DEF Log!Record, CidsOf
  <2>10. QED
    BY <2>9 DEF Log!Next
<1>6. CASE \E c \in Publishes : Drop(c) \/ (Execute(c) /\ ~Accepts(c))
  <2>1. PICK c \in Publishes : Drop(c) \/ (Execute(c) /\ ~Accepts(c))
    BY <1>6
  <2>2. /\ tx[c] = "flying" /\ UNCHANGED account
        /\ tx' = [tx EXCEPT ![c] = "dropped"] \/ tx' = [tx EXCEPT ![c] = "rejected"]
    BY <2>1 DEF Drop, Execute
  <2>3. st[c] = "sent" /\ st' = [st EXCEPT ![c] = "lost"]
    BY <1>0, <1>1, <2>2 DEF TxState
  <2>4. Log!Lose(c)
    BY <1>2, <2>2, <2>3 DEF Log!Lose, CidsOf
  <2>5. QED
    BY <2>4 DEF Log!Next
<1>7. CASE UNCHANGED <<account, tx>>
  BY <1>2, <1>3, <1>7 DEF Log!vars, CidsOf
<1>8. QED
  BY <1>4, <1>5, <1>6, <1>7 DEF Next, vars, Tick, Fetch, GiveUp, Confirm, TimeOut

\* The program and its client implement the log of CIDs of RegistryLog: each
\* transaction is recorded once, whole and at the end, or lost, for any calls,
\* CIDs and capacity, whatever the client made of its answer.
THEOREM ImplementsRegistryLog == Spec => ImplementsLog
<1>1. QED
  BY Inductive, LogInit, LogStep, PTL DEF Spec, ImplementsLog, Log!Spec
=============================================================================
