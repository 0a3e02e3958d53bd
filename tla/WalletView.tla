----------------------------- MODULE WalletView -----------------------------
(***************************************************************************)
(* The graphical interface's copies of the wallet: the list of transaction *)
(* rows and the table of addresses (qt/transactiontablemodel.cpp,          *)
(* transactionrecord.cpp, addresstablemodel.cpp, walletmodel.cpp).  They   *)
(* are read once and then follow the notifications of the wallet, which    *)
(* wait in the event queue of the interface's thread while the node's      *)
(* threads go on.                                                          *)
(*                                                                         *)
(* A transaction is a constant record of inputs and outputs.  A coin base  *)
(* is in the list only while its block is in the main chain; the interface *)
(* looks at the chain without holding cs_main.                             *)
(***************************************************************************)
EXTENDS Integers, Sequences, FiniteSets, SequencesExt

CONSTANTS
    Txs,         \* names of transactions
    Tx,          \* [Txs -> [coinbase, vin, vout]]; inputs [value, mine],
                 \* outputs [value, mine, change]
    Addresses,
    OwnAddresses,\* those the wallet has the key of
    Labels,
    MaxChanges   \* bound on the changes of the wallet

(* The names stand for things of two kinds. *)
ViewAssumption == Txs \intersect Addresses = {}

VARIABLES
    wallet,      \* mapWallet
    inMain,      \* coin bases whose block is in the main chain
    prevBest,    \* hashPrevBestCoinBase, or "none"
    book,        \* mapAddressBook
    events,      \* queued calls of updateTransaction and updateAddressBook
    rows,        \* cachedWallet: the parts listed for each transaction
    table,       \* cachedAddressTable
    stage,       \* "start", "addresses", "transactions", "subscribed"
    missed,      \* changed while nobody listened to the notifications
    announced,   \* coin bases in the main chain that had an update since
    changes

viewVars == <<wallet, inMain, prevBest, book, events, rows, table, stage, missed, announced, changes>>

CoinBases == {t \in Txs : Tx[t].coinbase}
NoFunction == [x \in {} |-> 0]
Without(f, x) == [y \in DOMAIN f \ {x} |-> f[y]]
With(f, x, v) == [y \in DOMAIN f \union {x} |-> IF y = x THEN v ELSE f[y]]

ViewInit ==
    /\ wallet = {} /\ inMain = {} /\ prevBest = "none" /\ book = NoFunction
    /\ events = <<>> /\ rows = NoFunction /\ table = NoFunction
    /\ stage = "start" /\ missed = {} /\ announced = {} /\ changes = 0

----------------------------------------------------------------------------
(* The rows of a transaction (decomposeTransaction). *)

SumOf(s) == FoldLeft(LAMBDA a, b : a + b, 0, s)
Mine(s) == SelectSeq(s, LAMBDA x : x.mine)
ValueOf(s) == SumOf([i \in DOMAIN s |-> s[i].value])
Row(debit, credit) == [debit |-> debit, credit |-> credit]

(* The fee is added to the first output that is listed. *)
Paid(t) ==
    LET outs == SelectSeq(t.vout, LAMBDA o : ~o.mine)
        fee  == ValueOf(t.vin) - ValueOf(t.vout)
    IN  [i \in DOMAIN outs |-> Row(-outs[i].value - (IF i = 1 /\ fee > 0 THEN fee ELSE 0), 0)]

decomposeTransaction(t) ==
    LET credit == ValueOf(Mine(t.vout))
        debit  == ValueOf(Mine(t.vin))
        change == ValueOf(SelectSeq(t.vout, LAMBDA o : o.mine /\ o.change))
        allFromMe == \A i \in DOMAIN t.vin : t.vin[i].mine
        allToMe   == \A i \in DOMAIN t.vout : t.vout[i].mine
    IN  IF credit > debit \/ t.coinbase
        THEN [i \in DOMAIN Mine(t.vout) |-> Row(0, Mine(t.vout)[i].value)]
        ELSE IF allFromMe /\ allToMe THEN <<Row(-(debit - change), credit - change)>>
        ELSE IF allFromMe THEN Paid(t)
        ELSE <<Row(credit - debit, 0)>>

showTransaction(t) == t \in CoinBases => t \in inMain

----------------------------------------------------------------------------
(* Notifications of the wallet; nobody hears them before the interface has   *)
(* subscribed. *)

Tell(es, what) ==
    IF stage = "subscribed" THEN events' = events \o es /\ UNCHANGED missed
    ELSE missed' = missed \union what /\ UNCHANGED events

TxEvent(t, status) == [kind |-> "tx", of |-> t, status |-> status]
AddressEvent(a, label, status) == [kind |-> "address", of |-> a, label |-> label, status |-> status]

Counted == changes < MaxChanges /\ changes' = changes + 1
ViewUnchanged == UNCHANGED <<rows, table, stage>>

(* AddToWallet, for a transaction of a peer, of a block or of our own. *)
AddToWallet(t) ==
    /\ Counted
    /\ wallet' = wallet \union {t}
    /\ Tell(<<TxEvent(t, IF t \in wallet THEN "CT_UPDATED" ELSE "CT_NEW")>>, {t})
    /\ UNCHANGED <<inMain, prevBest, book, announced>> /\ ViewUnchanged

ZapWalletTransaction(t) ==
    /\ Counted
    /\ t \in wallet \ CoinBases /\ wallet' = wallet \ {t}
    /\ Tell(<<TxEvent(t, "CT_DELETED")>>, {t})
    /\ UNCHANGED <<inMain, prevBest, book, announced>> /\ ViewUnchanged

(* A new best chain, with the coin bases of its blocks among those of the    *)
(* wallet; ConnectBlock has added them before.  Then the coin base of the    *)
(* block that was best before is announced. *)
SetBestChain(main, best) ==
    /\ Counted
    /\ inMain' = main
    /\ prevBest' = best
    /\ announced' = (announced \union ({prevBest} \intersect inMain)) \intersect main
    /\ IF prevBest \in wallet THEN Tell(<<TxEvent(prevBest, "CT_UPDATED")>>, {prevBest})
       ELSE UNCHANGED <<events, missed>>
    /\ UNCHANGED <<wallet, book>> /\ ViewUnchanged

SetAddressBookName(a, label) ==
    /\ book' = With(book, a, label)
    /\ Tell(<<AddressEvent(a, label, IF a \in DOMAIN book THEN "CT_UPDATED" ELSE "CT_NEW")>>, {a})

DelAddressBookName(a) ==
    /\ book' = Without(book, a)
    /\ Tell(<<AddressEvent(a, "", "CT_DELETED")>>, {a})

(* From a remote call or the node: a label, a new default key, an import. *)
CoreLabel(a, label) ==
    /\ Counted /\ SetAddressBookName(a, label)
    /\ UNCHANGED <<wallet, inMain, prevBest, announced>> /\ ViewUnchanged

----------------------------------------------------------------------------
(* The interface's thread. *)

refreshAddressTable ==
    /\ stage = "start" /\ stage' = "addresses"
    /\ table' = book
    /\ missed' = missed \ Addresses
    /\ UNCHANGED <<wallet, inMain, prevBest, book, events, rows, announced, changes>>

refreshWallet ==
    /\ stage = "addresses" /\ stage' = "transactions"
    /\ rows' = [t \in {t \in wallet : showTransaction(t)} |-> decomposeTransaction(Tx[t])]
    /\ missed' = missed \ Txs
    /\ UNCHANGED <<wallet, inMain, prevBest, book, events, table, announced, changes>>

subscribeToCoreSignals ==
    /\ stage = "transactions" /\ stage' = "subscribed"
    /\ UNCHANGED <<wallet, inMain, prevBest, book, events, rows, table, missed, announced, changes>>

(* Mutant: an update is only an update. *)
DerivedStatusPlain(e, show, inModel) == e.status

(* What an update means depends on what is listed and on what should be. *)
DerivedStatus(e, show, inModel) ==
    IF e.status = "CT_UPDATED" /\ show /\ ~inModel THEN "CT_NEW"
    ELSE IF e.status = "CT_UPDATED" /\ ~show /\ inModel THEN "CT_DELETED"
    ELSE e.status

updateWallet(e) ==
    LET inModel == e.of \in DOMAIN rows
        show    == e.of \in wallet /\ showTransaction(e.of)
        status  == DerivedStatus(e, show, inModel)
    IN  CASE status = "CT_NEW" /\ ~inModel /\ show ->
               With(rows, e.of, decomposeTransaction(Tx[e.of]))
          [] status = "CT_DELETED" /\ inModel -> Without(rows, e.of)
          [] OTHER -> rows

updateEntry(e) ==
    LET inModel == e.of \in DOMAIN table
    IN  CASE e.status = "CT_NEW" /\ ~inModel -> With(table, e.of, e.label)
          [] e.status = "CT_UPDATED" /\ inModel -> With(table, e.of, e.label)
          [] e.status = "CT_DELETED" /\ inModel -> Without(table, e.of)
          [] OTHER -> table

HandleEvent ==
    /\ events # <<>> /\ events' = Tail(events)
    /\ rows' = IF Head(events).kind = "tx" THEN updateWallet(Head(events)) ELSE rows
    /\ table' = IF Head(events).kind = "address" THEN updateEntry(Head(events)) ELSE table
    /\ UNCHANGED <<wallet, inMain, prevBest, book, stage, missed, announced, changes>>

(* The user's edits go through the wallet and come back as events.  They     *)
(* start from the row on the screen. *)
setDataLabel(a, label) ==
    /\ Counted /\ a \in DOMAIN table /\ table[a] # label
    /\ SetAddressBookName(a, label)
    /\ UNCHANGED <<wallet, inMain, prevBest, announced>> /\ ViewUnchanged

setDataAddress(a, b) ==
    /\ Counted /\ a \in DOMAIN table /\ a \notin OwnAddresses /\ b \notin DOMAIN book /\ a # b
    /\ book' = With(Without(book, a), b, table[a])
    /\ Tell(<<AddressEvent(a, "", "CT_DELETED"), AddressEvent(b, table[a], "CT_NEW")>>, {a, b})
    /\ UNCHANGED <<wallet, inMain, prevBest, announced>> /\ ViewUnchanged

addRow(a, label) ==
    /\ Counted /\ a \notin DOMAIN book
    /\ SetAddressBookName(a, label)
    /\ UNCHANGED <<wallet, inMain, prevBest, announced>> /\ ViewUnchanged

removeRow(a) ==
    /\ Counted /\ a \in DOMAIN table \ OwnAddresses
    /\ DelAddressBookName(a)
    /\ UNCHANGED <<wallet, inMain, prevBest, announced>> /\ ViewUnchanged

ViewNext ==
    \/ refreshAddressTable \/ refreshWallet \/ subscribeToCoreSignals \/ HandleEvent
    \/ \E t \in Txs : AddToWallet(t) \/ ZapWalletTransaction(t)
    \/ \E main \in SUBSET (CoinBases \intersect wallet) : \E best \in main \union {"none"} :
         SetBestChain(main, best)
    \/ \E a \in Addresses, label \in Labels : CoreLabel(a, label)
    \/ stage = "subscribed" /\ \E a \in Addresses :
         \/ removeRow(a)
         \/ \E label \in Labels : setDataLabel(a, label) \/ addRow(a, label)
         \/ \E b \in Addresses : setDataAddress(a, b)

ViewSpec == ViewInit /\ [][ViewNext]_viewVars

----------------------------------------------------------------------------
(* When no notification waits, the interface shows what the wallet has,      *)
(* except what changed before it had subscribed: every transaction and every *)
(* address with its label, and a coin base of the main chain at the latest   *)
(* when the next best block has come (transactiontablemodel.cpp:81,          *)
(* main.cpp:2385). *)
ViewFollows ==
    stage = "subscribed" /\ events = <<>> =>
      /\ \A t \in Txs \ (CoinBases \union missed) : t \in DOMAIN rows <=> t \in wallet
      /\ (announced \intersect wallet) \ missed \subseteq DOMAIN rows
      /\ \A a \in Addresses \ missed :
           /\ a \in DOMAIN table <=> a \in DOMAIN book
           /\ a \in DOMAIN table => table[a] = book[a]

(* The rows of a transaction whose inputs are all ours, or none of them, add *)
(* up to what it changes in the wallet (transactionrecord.cpp:30-136). *)
RowsAddUp ==
    \A t \in DOMAIN rows :
      Len(Mine(Tx[t].vin)) \in {0, Len(Tx[t].vin)} =>
        SumOf([i \in DOMAIN rows[t] |-> rows[t][i].debit + rows[t][i].credit])
          = ValueOf(Mine(Tx[t].vout)) - ValueOf(Mine(Tx[t].vin))
=============================================================================
