------------------------------ MODULE Registry ------------------------------
(***************************************************************************)
(* The registry of published manifests: the account the Solana program     *)
(* keeps for a wallet (programs/sj_registry_program/src/lib.rs, vault      *)
(* "local-default"), and the clients that publish to it                    *)
(* (apps/web/src/lib/solana/RegistryService.ts).                           *)
(*                                                                         *)
(* A call of publishManifest is cut at its awaits: reading the account,    *)
(* sending the transaction, waiting for its confirmation.  Meanwhile other *)
(* calls for the same wallet run, in other tabs or on other devices.  The  *)
(* network executes a transaction at most once, whole, or never.           *)
(***************************************************************************)
EXTENDS Integers, Sequences

CONSTANTS
    Wallets,
    Publishes,   \* calls of publishManifest, each made at most once
    WalletOf,    \* [Publishes -> Wallets]
    CidOf,       \* [Publishes -> Nat]: the CID, by its rank in the CID order
    MaxEntries,  \* capacity of an account (MAX_ENTRIES, 32 in the program)
    MaxTime      \* bound on the clock, for TLC

ASSUME RegistryAssumption ==
    /\ WalletOf \in [Publishes -> Wallets]
    /\ CidOf \in [Publishes -> Nat]
    /\ MaxEntries \in Nat \ {0}
    /\ MaxTime \in Nat

VARIABLES
    clock,    \* unix_timestamp of the cluster, in seconds
    account,  \* account[w]: the RegistryAccount of wallet w
    pc,       \* pc[c]: where call c is
    init,     \* init[c]: its transaction starts with init_registry
    tx,       \* tx[c]: what became of its transaction
    crossed   \* crossed[c] (history): another transaction for the wallet was
              \* executed after that of c was simulated

vars == <<clock, account, pc, init, tx, crossed>>

Times   == 0 .. MaxTime
Entry   == [cid : Nat, at : Times]
Account == [exists : BOOLEAN, entries : Seq(Entry), created : Times, updated : Times]

NoAccount == [exists |-> FALSE, entries |-> <<>>, created |-> 0, updated |-> 0]

Init ==
    /\ clock = 0
    /\ account = [w \in Wallets |-> NoAccount]
    /\ pc = [c \in Publishes |-> "idle"]
    /\ init = [c \in Publishes |-> FALSE]
    /\ tx = [c \in Publishes |-> "none"]
    /\ crossed = [c \in Publishes |-> FALSE]

-----------------------------------------------------------------------------
(* The program. *)

\* init_registry on an account that does not exist.
InitRegistry ==
    [exists |-> TRUE, entries |-> <<>>, created |-> clock, updated |-> clock]

\* Mutant form of AppendManifest: the newest entry comes first.
PrependManifest(a, cid) ==
    [a EXCEPT !.entries = <<[cid |-> cid, at |-> clock]>> \o @, !.updated = clock]

\* append_manifest on an account that passed its checks.
AppendManifest(a, cid) ==
    [a EXCEPT !.entries = Append(@, [cid |-> cid, at |-> clock]), !.updated = clock]

Listed(a, cid) == \E i \in DOMAIN a.entries : a.entries[i].cid = cid

\* Mutant forms of Accepts: init_if_needed in place of init; no uniqueness
\* check; one entry too many.
AcceptsAgain(c) ==
    LET a == account[WalletOf[c]]
    IN  IF init[c] THEN TRUE
        ELSE a.exists /\ Len(a.entries) < MaxEntries /\ ~Listed(a, CidOf[c])

AcceptsDuplicate(c) ==
    LET a == account[WalletOf[c]]
    IN  IF init[c] THEN ~a.exists
        ELSE a.exists /\ Len(a.entries) < MaxEntries

AcceptsOneMore(c) ==
    LET a == account[WalletOf[c]]
    IN  IF init[c] THEN ~a.exists
        ELSE a.exists /\ Len(a.entries) <= MaxEntries /\ ~Listed(a, CidOf[c])

\* The constraints and the checks every instruction of the transaction of c
\* passes: the account is created once, and before anything is appended.
Accepts(c) ==
    LET a == account[WalletOf[c]]
    IN  IF init[c] THEN ~a.exists
        ELSE a.exists /\ Len(a.entries) < MaxEntries /\ ~Listed(a, CidOf[c])

\* The account after the transaction of c.
After(c) ==
    AppendManifest(IF init[c] THEN InitRegistry ELSE account[WalletOf[c]], CidOf[c])

-----------------------------------------------------------------------------
(* A call of publishManifest. *)

\* getRegistry answers: null if the account does not exist.
Fetch(c) ==
    /\ pc[c] = "idle"
    /\ pc' = [pc EXCEPT ![c] = "built"]
    /\ init' = [init EXCEPT ![c] = ~account[WalletOf[c]].exists]
    /\ UNCHANGED <<clock, account, tx, crossed>>

\* Every retry of getRegistry failed, the user refused to sign, or the
\* simulation that precedes the sending rejected the transaction.
GiveUp(c) ==
    /\ pc[c] \in {"idle", "built"}
    /\ pc' = [pc EXCEPT ![c] = "failed"]
    /\ UNCHANGED <<clock, account, init, tx, crossed>>

\* Mutant form of Send: the transaction is sent without a simulation.
SendUnchecked(c) ==
    /\ pc[c] = "built"
    /\ pc' = [pc EXCEPT ![c] = "sent"]
    /\ tx' = [tx EXCEPT ![c] = "flying"]
    /\ UNCHANGED <<clock, account, init, crossed>>

\* sendTransaction: simulated on the account of the moment, signed, sent.
Send(c) ==
    /\ pc[c] = "built"
    /\ Accepts(c)
    /\ pc' = [pc EXCEPT ![c] = "sent"]
    /\ tx' = [tx EXCEPT ![c] = "flying"]
    /\ UNCHANGED <<clock, account, init, crossed>>

\* The cluster executes the transaction: all of it, or nothing of it.
Execute(c) ==
    /\ tx[c] = "flying"
    /\ IF Accepts(c)
       THEN /\ account' = [account EXCEPT ![WalletOf[c]] = After(c)]
            /\ tx' = [tx EXCEPT ![c] = "ok"]
            /\ crossed' = [d \in Publishes |->
                  crossed[d] \/ (d # c /\ WalletOf[d] = WalletOf[c] /\ tx[d] = "flying")]
       ELSE /\ tx' = [tx EXCEPT ![c] = "rejected"]
            /\ UNCHANGED <<account, crossed>>
    /\ UNCHANGED <<clock, pc, init>>

\* The transaction is lost, or its blockhash expires.
Drop(c) ==
    /\ tx[c] = "flying"
    /\ tx' = [tx EXCEPT ![c] = "dropped"]
    /\ UNCHANGED <<clock, account, pc, init, crossed>>

\* Mutant form of Confirm: the call returns without waiting.
ConfirmAtOnce(c) ==
    /\ pc[c] = "sent"
    /\ pc' = [pc EXCEPT ![c] = "published"]
    /\ UNCHANGED <<clock, account, init, tx, crossed>>

\* confirmTransaction resolves once the transaction was executed, whatever the
\* outcome: publishManifest returns the signature.
Confirm(c) ==
    /\ pc[c] = "sent"
    /\ tx[c] \in {"ok", "rejected"}
    /\ pc' = [pc EXCEPT ![c] = "published"]
    /\ UNCHANGED <<clock, account, init, tx, crossed>>

\* confirmTransaction throws: the transaction may still be executed later.
TimeOut(c) ==
    /\ pc[c] = "sent"
    /\ pc' = [pc EXCEPT ![c] = "failed"]
    /\ UNCHANGED <<clock, account, init, tx, crossed>>

Tick ==
    /\ clock < MaxTime
    /\ clock' = clock + 1
    /\ UNCHANGED <<account, pc, init, tx, crossed>>

Next ==
    \/ Tick
    \/ \E c \in Publishes :
         Fetch(c) \/ GiveUp(c) \/ Send(c) \/ Execute(c) \/ Drop(c) \/ Confirm(c) \/ TimeOut(c)

Spec == Init /\ [][Next]_vars

-----------------------------------------------------------------------------
(* selectHead: the entry a client shows as published and restores from.     *)

\* Mutant form of Before: the sort is ascending.
BeforeAscending(entries, i, j) ==
    \/ entries[i].at < entries[j].at
    \/ entries[i].at = entries[j].at /\ i < j

\* Entry i is sorted before entry j: a later publishedAt first.  The two
\* publishedAt are distinct BN objects, which !== never finds equal, so their
\* difference decides: 0 for equal times, and the stable sort keeps the order.
Before(entries, i, j) ==
    \/ entries[i].at > entries[j].at
    \/ entries[i].at = entries[j].at /\ i < j

SelectHead(entries) ==
    CHOOSE i \in DOMAIN entries :
        \A j \in DOMAIN entries \ {i} : Before(entries, i, j)

-----------------------------------------------------------------------------
\* Type invariant.
TypeOK ==
    /\ clock \in Times
    /\ account \in [Wallets -> Account]
    /\ pc \in [Publishes -> {"idle", "built", "sent", "published", "failed"}]
    /\ init \in [Publishes -> BOOLEAN]
    /\ tx \in [Publishes -> {"none", "flying", "ok", "rejected", "dropped"}]
    /\ crossed \in [Publishes -> BOOLEAN]

\* An account never lists a CID twice and never outgrows its allocated space,
\* however many calls, retries and late transactions race for it.
NoDuplicateCid ==
    \A w \in Wallets : \A i, j \in DOMAIN account[w].entries :
        account[w].entries[i].cid = account[w].entries[j].cid => i = j

WithinCapacity == \A w \in Wallets : Len(account[w].entries) <= MaxEntries

\* The order of the entries is the order of their times: the position of an
\* entry and its publishedAt, on which clients rely in turn, never disagree.
TimesOrdered ==
    \A w \in Wallets : \A i, j \in DOMAIN account[w].entries :
        i <= j => account[w].entries[i].at <= account[w].entries[j].at

\* An executed transaction is recorded for good, and exactly one of them
\* recorded each entry: a retry of a call that seemed lost adds nothing.
RecordedOnce ==
    /\ \A c \in Publishes :
         tx[c] = "ok" => Listed(account[WalletOf[c]], CidOf[c])
    /\ \A c, d \in Publishes :
         tx[c] = "ok" /\ tx[d] = "ok" /\ WalletOf[c] = WalletOf[d] /\ CidOf[c] = CidOf[d]
            => c = d
    /\ \A w \in Wallets : \A i \in DOMAIN account[w].entries :
         \E c \in Publishes :
            tx[c] = "ok" /\ WalletOf[c] = w /\ CidOf[c] = account[w].entries[i].cid

\* A publication reported as done is in the registry, unless another
\* transaction for the same wallet was executed while its own was under way.
ReportedIsListed ==
    \A c \in Publishes :
        pc[c] = "published" /\ ~crossed[c] => Listed(account[WalletOf[c]], CidOf[c])

\* A publication that is recorded becomes the head, which every client then shows
\* and restores from, however late it was executed and whatever was recorded
\* since it was sent.  Only a head of the same second may stand instead: which of
\* the two does is left open here, for the code decides it by their order
\* (Before) where RegistryService.ts:81, 93 promises the higher CID.
PublishedIsHead ==
    [][\A c \in Publishes :
          tx[c] = "flying" /\ tx'[c] = "ok" =>
              LET s == account[WalletOf[c]].entries
                  r == account'[WalletOf[c]].entries
                  h == r[SelectHead(r)]
              IN  \/ h.cid = CidOf[c]
                  \/ s # <<>> /\ h = s[SelectHead(s)] /\ h.at = clock]_vars

\* The history of a wallet only grows: no step resets an account, reorders it
\* or changes an entry.
Grows(s, r) == Len(s) <= Len(r) /\ \A i \in DOMAIN s : s[i] = r[i]

HistoryGrows ==
    [][\A w \in Wallets :
          /\ Grows(account[w].entries, account'[w].entries)
          /\ account[w].exists =>
               account'[w].exists /\ account'[w].created = account[w].created]_vars

-----------------------------------------------------------------------------
\* The program and its client implement the log of CIDs the rest of the program
\* relies on: what clients see of an account is a log that grows by transactions
\* that are each executed at most once.
TxState(c) ==
    IF tx[c] = "none" THEN "idle"
    ELSE IF tx[c] = "flying" THEN "sent"
    ELSE IF tx[c] = "ok" THEN "recorded" ELSE "lost"

Log == INSTANCE RegistryLog WITH
    Calls <- Publishes, Capacity <- MaxEntries, cid <- CidOf,
    log <- [w \in Wallets |->
               [i \in 1 .. Len(account[w].entries) |-> account[w].entries[i].cid]],
    state <- [c \in Publishes |-> TxState(c)]

ImplementsLog == Log!Spec

-----------------------------------------------------------------------------
\* The inductive invariant behind them.
\* No entry is later than the clock, and a missing account is empty.
ClockInv ==
    \A w \in Wallets :
        /\ \A i \in DOMAIN account[w].entries : account[w].entries[i].at <= clock
        /\ ~account[w].exists => account[w].entries = <<>>

\* A transaction nothing crossed will be accepted.
FlyingInv ==
    \A c \in Publishes :
        /\ tx[c] = "flying" /\ ~crossed[c] => Accepts(c)
        /\ tx[c] = "rejected" => crossed[c]
        /\ pc[c] = "published" => tx[c] \in {"ok", "rejected"}
        /\ pc[c] \in {"idle", "built"} => tx[c] = "none" /\ ~crossed[c]

IInv ==
    /\ TypeOK
    /\ NoDuplicateCid
    /\ WithinCapacity
    /\ TimesOrdered
    /\ RecordedOnce
    /\ ReportedIsListed
    /\ ClockInv
    /\ FlyingInv
=============================================================================
