---------------------------- MODULE MCWallet -----------------------------
(***************************************************************************)
(* The wallet and what the user sees of it, for TLC: the wallet's          *)
(* transactions (WalletTx) and keys (WalletKeys), the accounts (Accounts), *)
(* the groupings of addresses (Groupings), what the user interface shows   *)
(* (WalletView).  Each part is examined by itself: part says which one     *)
(* moves in a behaviour, the others stay as they start.                    *)
(***************************************************************************)
EXTENDS Integers, TLC

CONSTANTS
    MaxTips,
    AccountNames, MaxAddresses, MaxTxs, MaxMoves, Maturity, MaxTime,
    Addrs, MaxLinks,
    Tx, ShownAddresses, OwnAddresses, Labels, MaxChanges,
    fund, pay, copy, spend, MaxChain, MaxZaps, MaxOrphans,
    Users, Passphrases, PoolSize, RefillSize, HybridTarget, HybridLow, HybridGrow, MaxWalletKeys,
    MaxFaults

VARIABLES
    part,
    book, used, current, wallet, entries, nextPos, diskNext, adjusted,
    links, lone, todo, unique, setmap,
    chain, pool, orphans, mapWallet, records, bestblock, fUp, made, relayed, refused, zapped, trouble,
    pc, keyStore, keyRecords, next, faults, handedOut,
    shownWallet, inMain, prevBest, addressBook, events, rows, table, stage, missed, announced,
    changes

-----------------------------------------------------------------------------
(* The transactions shown: a coin base, a payment with change, one to        *)
(* ourselves, a receipt and one with inputs of others.                       *)

In(v, m) == [value |-> v, mine |-> m]
Out(v, m, c) == [value |-> v, mine |-> m, change |-> c]
TxExamples ==
      [c |-> [coinbase |-> TRUE, vin |-> <<>>, vout |-> <<Out(5, TRUE, FALSE)>>],
       p |-> [coinbase |-> FALSE, vin |-> <<In(6, TRUE), In(2, TRUE)>>,
              vout |-> <<Out(3, TRUE, TRUE), Out(2, FALSE, FALSE), Out(2, FALSE, FALSE)>>],
       s |-> [coinbase |-> FALSE, vin |-> <<In(6, TRUE)>>,
              vout |-> <<Out(3, TRUE, TRUE), Out(2, TRUE, FALSE)>>],
       r |-> [coinbase |-> FALSE, vin |-> <<In(6, FALSE)>>,
              vout |-> <<Out(3, TRUE, FALSE), Out(2, FALSE, FALSE), Out(1, TRUE, FALSE)>>],
       m |-> [coinbase |-> FALSE, vin |-> <<In(6, TRUE), In(3, FALSE)>>,
              vout |-> <<Out(4, TRUE, FALSE), Out(4, FALSE, FALSE)>>]]

(* fund pays the wallet; pay is a payment from it with change, and spend a    *)
(* payment of that change; copy spends the same coin as pay and was made by a *)
(* copy of the wallet.  By txid the children come before their parents.       *)

Payments == INSTANCE WalletTx WITH
    Order <- <<fund, pay, copy, spend>>, HashOrder <- <<copy, spend, pay, fund>>,
    Ins <- fund :> {<<"elsewhere", 0>>} @@ pay :> {<<fund, 0>>}
           @@ copy :> {<<fund, 0>>} @@ spend :> {<<pay, 1>>},
    Mine <- {<<fund, 0>>, <<pay, 1>>, <<copy, 1>>}, Own <- {pay, spend},
    MaxHeight <- MaxChain, wallet <- records, hist <- trouble
Keys == INSTANCE WalletKeys WITH
    mem <- keyStore, disk <- keyRecords, hist <- handedOut, MaxKeys <- MaxWalletKeys
Books == INSTANCE Accounts
Groups == INSTANCE Groupings
View == INSTANCE WalletView WITH Txs <- DOMAIN Tx, wallet <- shownWallet, book <- addressBook,
    Addresses <- ShownAddresses

\* The constants are such as the modules expect.
ASSUME WalletAssumption ==
    /\ Books!AccountsAssumption /\ Payments!WalletTxAssumption
    /\ Keys!KeysAssumption /\ View!ViewAssumption

-----------------------------------------------------------------------------

txVars == <<chain, pool, orphans, mapWallet, records, bestblock, fUp, made, relayed, refused, zapped,
            trouble>>
keyVars == <<pc, keyStore, keyRecords, next, faults, handedOut>>
accountVars == <<book, used, current, wallet, entries, nextPos, diskNext, adjusted>>
groupVars == <<links, lone, todo, unique, setmap>>
viewVars == <<shownWallet, inMain, prevBest, addressBook, events, rows, table, stage, missed,
              announced, changes>>

\* A part that does not move is in one of its initial states.
Init ==
    /\ part \in {"payments", "keys", "accounts", "groups", "view"}
    /\ Payments!Init /\ Books!AccountsInit /\ View!ViewInit
    /\ Keys!Init /\ (part # "keys" => keyRecords = Keys!NewDisk)
    /\ IF part = "groups" THEN Groups!GroupInit
       ELSE links = <<>> /\ lone = {} /\ todo = {} /\ unique = {} /\ setmap = <<>>

PaymentsStep ==
    /\ part = "payments" /\ Payments!Next
    /\ UNCHANGED <<part, keyVars, accountVars, groupVars, viewVars>>
KeysStep ==
    /\ part = "keys" /\ Keys!Next
    /\ UNCHANGED <<part, txVars, accountVars, groupVars, viewVars>>
AccountsStep ==
    /\ part = "accounts" /\ Books!AccountsNext
    /\ UNCHANGED <<part, txVars, keyVars, groupVars, viewVars>>
GroupStep ==
    /\ part = "groups" /\ Groups!Merge
    /\ UNCHANGED <<part, txVars, keyVars, accountVars, viewVars>>
ViewStep ==
    /\ part = "view" /\ View!ViewNext
    /\ UNCHANGED <<part, txVars, keyVars, accountVars, groupVars>>

Next ==
    PaymentsStep \/ KeysStep \/ AccountsStep \/ GroupStep \/ ViewStep

Spec ==
    Init /\ [][Next]_<<part, txVars, keyVars, accountVars, groupVars, viewVars>>

\* Any passphrase is as good as another.
PassphrasesAlike == Permutations(Passphrases)

-----------------------------------------------------------------------------
(* Properties *)

(* Pool, wallet and chain agree: the pool's two maps, a relayed payment and   *)
(* its record, the wallet in memory and on disk, and a block of ours and the  *)
(* wallet that was told of it, through failed batches, crashes and            *)
(* reorganisations (wallet.cpp:2062, main.cpp:1700).                          *)
PaymentsAgree ==
    part = "payments" =>
        /\ Payments!PoolAgrees /\ Payments!RelayedIsRecorded
        /\ Payments!MemoryIsDisk /\ Payments!WalletKnowsBlock

(* A coin that is spent is marked so, and one marked spent has a spender: the *)
(* wallet neither pays with a coin twice nor loses one (wallet.cpp:1334,      *)
(* zapwallettxes).                                                            *)
CoinsMarked == part = "payments" => Payments!CoinsMarked /\ Payments!NoStrandedCoin

(* Every key that was handed out can be recovered from the disk at every      *)
(* instant (wallet.cpp:448, 2584).                                            *)
KeysRecoverable == part = "keys" => Keys!KeysRecoverable

(* What is on disk always loads, and memory agrees with it on the hybrid keys *)
(* (wallet.cpp:448, wallethybrid.cpp:340).                                    *)
WalletLoads ==
    part = "keys" => Keys!WalletLoads /\ Keys!HybridConsistent /\ Keys!LegacyIndexFresh

(* A hybrid address is given out once (wallethybrid.cpp:1604).                *)
IssuedOnce == part = "keys" => Keys!IssuedOnce

(* The RPC calls that show the accounts agree with each other, no two entries *)
(* share a position, the groupings shown are the components of the graph that *)
(* the wallet's transactions draw, and the rows of a transaction add up to    *)
(* what it changes (rpcwallet.cpp:523-576, 974, 1118; wallet.cpp:582, 2726;   *)
(* transactionrecord.cpp:30-136).                                             *)
AccountsAddUp ==
    /\ part = "accounts" => Books!AccountsAddUp /\ Books!OrderDistinct /\ Books!BalancesAgree
    /\ part = "groups" => Groups!GroupsAreComponents
    /\ part = "view" => View!RowsAddUp

(* When no notification waits the interface shows what the wallet has         *)
(* (transactiontablemodel.cpp:81).                                            *)
ViewFollows == part = "view" => View!ViewFollows
=============================================================================
