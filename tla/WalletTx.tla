------------------------------ MODULE WalletTx ------------------------------
(***************************************************************************)
(* The transactions of the wallet, of the memory pool and of the orphan    *)
(* map: wallet.cpp (AddToWallet, CommitTransaction,                        *)
(* ReacceptWalletTransactions, ZapWalletTransactions), main.cpp            *)
(* (CTxMemPool, the "tx" message, what SetBestChain and Reorganize do to   *)
(* the pool and to the wallet) and init.cpp (the rescan at start).         *)
(*                                                                         *)
(* Every handler runs under cs_main and cs_wallet, so it is one step; what *)
(* interrupts it is a failed database write or a crash.  A wallet batch    *)
(* commits alone, one per transaction, and the chain commits after the     *)
(* wallet has been told of a block: the crash actions stop a handler       *)
(* between any two of its commits.                                         *)
(*                                                                         *)
(* A block is named by the chain that ends in it, as a block hash commits  *)
(* to all its ancestors; the empty chain stands for hashBlock = 0.         *)
(***************************************************************************)
EXTENDS Naturals, Sequences, FiniteSets, TLC

CONSTANTS
    Order,      \* the transactions, parents first: the order inside a block
    HashOrder,  \* the transactions by txid: the order of std::map
    Ins,        \* Ins[t]: the outpoints <<transaction, n>> that t spends
    Mine,       \* the outpoints that pay this wallet
    Own,        \* the payments that CreateTransaction may build here
    MaxHeight,  \* bound: blocks above the genesis block
    MaxFaults,  \* bound: failed writes, blocks not connected and crashes
    MaxTips,    \* bound: changes of the best chain, also attempted
    MaxZaps,    \* bound: calls of zapwallettxes
    MaxOrphans  \* MAX_ORPHAN_TRANSACTIONS

Txs == {Order[i] : i \in DOMAIN Order}

\* What the constants are expected to be; the model that uses them asserts it.
WalletTxAssumption ==
    /\ {HashOrder[i] : i \in DOMAIN HashOrder} = Txs
    /\ Own \subseteq Txs
    /\ \A o \in Mine : o[1] \in Txs
    /\ {MaxHeight, MaxFaults, MaxTips, MaxZaps, MaxOrphans} \subseteq Nat

VARIABLES
    chain,      \* the best chain, on disk: one set of transactions per block
    pool,       \* mempool: [mapTx, mapNextTx]
    orphans,    \* the keys of mapOrphanTransactions
    mapWallet,  \* the wallet's transactions in memory
    wallet,     \* the "tx" records of wallet.dat
    bestblock,  \* the "bestblock" record of wallet.dat
    fUp,        \* the process is running
    made,       \* payments that have been signed and recorded
    relayed,    \* own payments that have been sent to peers
    refused,    \* own payments that were recorded and not accepted
    zapped,     \* transactions that zapwallettxes has removed
    hist        \* what went wrong so far, see NoTrouble

vars == <<chain, pool, orphans, mapWallet, wallet, bestblock, fUp,
          made, relayed, refused, zapped, hist>>

(***************************************************************************)
(* lost:  transactions whose batch failed, that were told of a block that  *)
(*        then was not connected, or that a zap cut short has removed, and *)
(*        that were not told of a block since;                             *)
(* doubt: lost, now or at the last start: a start repairs the spent flags  *)
(*        of what is in wallet.dat when it begins;                         *)
(* stale: transactions of which an unchecked write failed;                 *)
(* faults, tips, zaps: how many there were, for the bounds.                *)
(***************************************************************************)
NoTrouble == [lost |-> {}, doubt |-> {}, stale |-> {}, faults |-> 0,
              tips |-> 0, zaps |-> 0]

-----------------------------------------------------------------------------
(* The chain *)

Confirmed(c) == UNION {c[h] : h \in DOMAIN c}
SpentIn(c) == UNION {Ins[t] : t \in Confirmed(c)}
Block(c, h) == SubSeq(c, 1, h)

\* IsInMainChain
InMain(b, c) == b # << >> /\ Len(b) <= Len(c) /\ Block(c, Len(b)) = b

\* The block of c that holds t
BlockOf(t, c) == Block(c, CHOOSE h \in DOMAIN c : t \in c[h])

Parents(t) == {o[1] : o \in Ins[t]} \cap Txs

\* A payment of ours exists once it is recorded, the others' once their
\* parents exist.
Exists(t) == IF t \in Own THEN t \in made
                          ELSE Parents(t) \cap Own \subseteq made

\* ConnectBlock: inputs known, not spent, no transaction twice
ValidChain(c) ==
    \A h \in DOMAIN c : \A t \in c[h] :
        /\ t \notin Confirmed(Block(c, h - 1))
        /\ Parents(t) \subseteq Confirmed(Block(c, h))
        /\ \A u \in Confirmed(Block(c, h)) \ {t} : Ins[t] \cap Ins[u] = {}

\* The transactions of blocks from..Len(c), in order, with their block
Events(c, from) ==
    LET Of(h) == LET s == SelectSeq(Order, LAMBDA t : t \in c[h])
                 IN  [i \in DOMAIN s |-> <<s[i], Block(c, h)>>]
        upto[h \in (from - 1)..Len(c)] ==
            IF h < from THEN << >> ELSE upto[h - 1] \o Of(h)
    IN  upto[Len(c)]

-----------------------------------------------------------------------------
(* The memory pool *)

EmptyPool == [mapTx |-> {}, mapNextTx |-> << >>]

\* FetchInputs: an input is neither in the chain nor in the pool
Missing(p, c, t) == ~ Parents(t) \subseteq Confirmed(c) \cup p.mapTx

\* CTxMemPool::accept up to FetchInputs: not known, no conflict in the pool
Fresh(p, c, t, fCheckInputs) ==
    /\ t \notin p.mapTx
    /\ fCheckInputs => t \notin Confirmed(c)
    /\ Ins[t] \cap DOMAIN p.mapNextTx = {}

Accepts(p, c, t, fCheckInputs) ==
    /\ Fresh(p, c, t, fCheckInputs)
    /\ fCheckInputs => /\ ~ Missing(p, c, t)
                       /\ Ins[t] \cap SpentIn(c) = {}

addUnchecked(p, t) == [mapTx |-> p.mapTx \cup {t},
                       mapNextTx |-> [o \in Ins[t] |-> t] @@ p.mapNextTx]

accept(p, c, t, fCheckInputs) ==
    IF Accepts(p, c, t, fCheckInputs) THEN addUnchecked(p, t) ELSE p

remove(p, t) ==
    IF t \notin p.mapTx THEN p
    ELSE [mapTx |-> p.mapTx \ {t},
          mapNextTx |-> [o \in DOMAIN p.mapNextTx \ Ins[t] |-> p.mapNextTx[o]]]

\* Fold of Op(p, t) over the transactions of s
Each(Op(_, _), p, s) ==
    LET f[i \in 0..Len(s)] == IF i = 0 THEN p ELSE Op(f[i - 1], s[i])
    IN  f[Len(s)]

\* Reorganize: resurrect what was disconnected, then delete what was connected
PoolAfter(p, old, new, keep) ==
    LET Gone == Events(old, keep + 1)
        Come == Events(new, keep + 1)
        Back(q, e) == accept(q, new, e[1], FALSE)
        Del(q, e) == remove(q, e[1])
    IN  Each(Del, Each(Back, p, Gone), Come)

-----------------------------------------------------------------------------
(* The wallet: w is [mem, disk, hist], what a handler works on *)

Outs(t) == {o \in Mine : o[1] = t}
IsMine(t) == Outs(t) # {}
IsFromMe(mem, t) == \E o \in Ins[t] : o \in Mine /\ o[1] \in DOMAIN mem

\* PrepareAddToWallet and the spent coins: mem with t of block b in it
Prepared(mem, t, b, prev) ==
    LET with == IF t \in DOMAIN mem
                THEN [mem EXCEPT ![t].hashBlock = IF b = << >> THEN @ ELSE b]
                ELSE (t :> [hashBlock |-> b, vfSpent |-> {}, vtxPrev |-> prev])
                         @@ mem
    IN  [u \in DOMAIN with |->
            [with[u] EXCEPT !.vfSpent = @ \cup (Ins[t] \cap Outs(u))]]

\* The records that differ between two states of the memory
Changed(old, new) == {u \in DOMAIN new : u \notin DOMAIN old \/ old[u] # new[u]}

\* WriteToDisk of the records us
Written(disk, mem, us) == [u \in us |-> mem[u]] @@ disk

AddToWallet(w, t, b, prev, bad) ==
    LET mem == Prepared(w.mem, t, b, prev)
        us == Changed(w.mem, mem)
        told == IF b = << >> THEN {} ELSE {t}
    IN  IF us # {} /\ t \in bad
        THEN [w EXCEPT !.hist = [@ EXCEPT !.lost = @ \cup {t},
                                          !.doubt = @ \cup {t},
                                          !.faults = @ + 1]]
        ELSE [mem |-> mem, disk |-> Written(w.disk, mem, us),
              hist |-> [w.hist EXCEPT !.lost = @ \ told]]

AddToWalletIfInvolvingMe(w, t, b, fUpdate, bad) ==
    IF /\ t \in DOMAIN w.mem => fUpdate
       /\ t \in DOMAIN w.mem \/ IsMine(t) \/ IsFromMe(w.mem, t)
    THEN AddToWallet(w, t, b, << >>, bad)
    ELSE w

\* SyncWithWallets for each of the events
Sync(w, events, bad) ==
    LET Tell(v, e) == AddToWalletIfInvolvingMe(v, e[1], e[2], TRUE, bad)
    IN  Each(Tell, w, events)

Now == [mem |-> mapWallet, disk |-> wallet, hist |-> hist]

\* The writes that may fail in one handler
Bad == {{}} \cup {{t} : t \in {u \in Txs : hist.faults < MaxFaults}}

SetWallet(w) == /\ mapWallet' = w.mem
                /\ wallet' = w.disk
                /\ hist' = w.hist

\* The transactions ts have been told of a block that is not connected
Misled(w, ts) ==
    [w EXCEPT !.hist = [@ EXCEPT !.lost = @ \cup ts, !.doubt = @ \cup ts]]

Fault == hist.faults < MaxFaults
Counted(w) == [w EXCEPT !.hist.faults = @ + 1]

\* What a crash leaves
Stop(w) == /\ Fault
           /\ SetWallet(Counted([w EXCEPT !.mem = << >>]))
           /\ pool' = EmptyPool
           /\ orphans' = {}
           /\ fUp' = FALSE

Init ==
    /\ chain = << >>
    /\ pool = EmptyPool
    /\ orphans = {}
    /\ mapWallet = << >>
    /\ wallet = << >>
    /\ bestblock = << >>
    /\ fUp = TRUE
    /\ made = {}
    /\ relayed = {}
    /\ refused = {}
    /\ zapped = {}
    /\ hist = NoTrouble

-----------------------------------------------------------------------------
(* The "tx" message *)

\* The orphans that wait for t, by txid
Waiting(os, t) == SelectSeq(HashOrder, LAMBDA u : u \in os /\ t \in Parents(u))

\* One accepted transaction: pool, wallet, relay, work queue and erase queue
Take(s, t, bad) ==
    [s EXCEPT !.pool = addUnchecked(@, t),
              !.w = AddToWalletIfInvolvingMe(@, t, << >>, TRUE, bad),
              !.relay = @ \cup ({t} \cap Own),
              !.work = Append(@, t),
              !.erase = @ \cup {t}]

\* The work queue: every orphan is tried once for each parent that arrives
Recursed(s0, bad) ==
    LET Try(s, u) ==
            IF Accepts(s.pool, chain, u, TRUE) THEN Take(s, u, bad)
            ELSE IF Fresh(s.pool, chain, u, TRUE) /\ Missing(s.pool, chain, u)
                 THEN s
                 ELSE [s EXCEPT !.erase = @ \cup {u}]
        upto[i \in 0..Cardinality(Txs)] ==
            IF i = 0 THEN s0
            ELSE LET s == upto[i - 1]
                 IN  IF i > Len(s.work) THEN s
                     ELSE Each(Try, s, Waiting(orphans, s.work[i]))
    IN  upto[Cardinality(Txs)]

\* The sets of orphans that evictions at random may leave
LimitOrphanTxSize(os) ==
    IF Cardinality(os) <= MaxOrphans THEN {os}
    ELSE {kept \in SUBSET os : Cardinality(kept) = MaxOrphans}

TxMessage(t, bad) ==
    /\ fUp
    /\ Exists(t)
    /\ IF Accepts(pool, chain, t, TRUE)
       THEN LET s0 == [pool |-> pool, w |-> Now, relay |-> relayed,
                       work |-> << >>, erase |-> {}]
                s == Recursed(Take(s0, t, bad), bad)
            IN  /\ pool' = s.pool
                /\ SetWallet(s.w)
                /\ relayed' = s.relay
                /\ orphans' = orphans \ s.erase
       ELSE /\ Fresh(pool, chain, t, TRUE) /\ Missing(pool, chain, t)
            /\ orphans' \in LimitOrphanTxSize(orphans \cup {t})
            /\ UNCHANGED <<pool, mapWallet, wallet, hist, relayed>>
    /\ UNCHANGED <<chain, bestblock, fUp, made, refused, zapped>>

-----------------------------------------------------------------------------
(* CreateTransaction and CommitTransaction *)

\* CWalletTx::IsConfirmed: in a block, or ours with all it needs in vtxPrev
IsConfirmed(t) ==
    LET prev == mapWallet[t].vtxPrev
        Depth(u) == InMain(IF u = t THEN mapWallet[t].hashBlock ELSE prev[u],
                           chain)
        ok[u \in Txs] ==
            \/ Depth(u)
            \/ /\ IsFromMe(mapWallet, u)
               /\ \A v \in Parents(u) : v \in DOMAIN prev /\ ok[v]
    IN  ok[t]

\* AvailableCoins with fOnlyConfirmed
AvailableCoins ==
    {o \in Mine : /\ o[1] \in DOMAIN mapWallet
                  /\ o \notin mapWallet[o[1]].vfSpent
                  /\ IsConfirmed(o[1])}

\* AddSupportingTransactions: the ancestors, each with the block it is in
Ancestors(t) ==
    LET up[u \in Txs] == Parents(u) \cup UNION {up[v] : v \in Parents(u)}
    IN  up[t]

AddSupportingTransactions(t) ==
    [u \in {v \in Ancestors(t) : v \in DOMAIN mapWallet \cup Confirmed(chain)} |->
        IF u \in Confirmed(chain) THEN BlockOf(u, chain)
                                  ELSE mapWallet[u].hashBlock]

CommitTransaction(t) ==
    /\ fUp
    /\ t \in Own \ made
    /\ Ins[t] \subseteq AvailableCoins
    /\ SetWallet(AddToWallet(Now, t, << >>, AddSupportingTransactions(t), {}))
    /\ made' = made \cup {t}
    /\ IF Accepts(pool, chain, t, TRUE)
       THEN /\ pool' = addUnchecked(pool, t)
            /\ relayed' = relayed \cup {t}
            /\ UNCHANGED refused
       ELSE /\ refused' = refused \cup {t}
            /\ UNCHANGED <<pool, relayed>>
    /\ UNCHANGED <<chain, orphans, bestblock, fUp, zapped>>

\* Mutant: CommitFails as it would be without RollbackSpentCoins
CommitFailsMarked(t) ==
    /\ fUp
    /\ t \in Own \ made
    /\ Ins[t] \subseteq AvailableCoins
    /\ Fault
    /\ mapWallet' = [u \in DOMAIN mapWallet |->
           [mapWallet[u] EXCEPT !.vfSpent = @ \cup (Ins[t] \cap Outs(u))]]
    /\ hist' = [hist EXCEPT !.faults = @ + 1]
    /\ UNCHANGED <<chain, pool, orphans, wallet, bestblock, fUp, made, relayed,
                   refused, zapped>>

\* The batch fails: RollbackAddToWallet and RollbackSpentCoins
CommitFails(t) ==
    /\ fUp
    /\ t \in Own \ made
    /\ Ins[t] \subseteq AvailableCoins
    /\ Fault
    /\ SetWallet(Counted(Now))
    /\ UNCHANGED <<chain, pool, orphans, bestblock, fUp, made, relayed,
                   refused, zapped>>

\* The wallet transactions that are not in a block are sent again
ResendWalletTransactions ==
    /\ fUp
    /\ LET loose == UNION {{t} \cup DOMAIN mapWallet[t].vtxPrev :
                               t \in DOMAIN mapWallet} \ Confirmed(chain)
       IN  relayed' = relayed \cup (loose \cap Own)
    /\ relayed' # relayed
    /\ UNCHANGED <<chain, pool, orphans, mapWallet, wallet, bestblock, fUp,
                   made, refused, zapped, hist>>

-----------------------------------------------------------------------------
(* Blocks *)

\* The chains that SetBestChain may be asked for: one more block, or a
\* heavier branch of one or two blocks in place of the last block
Onto(c) ==
    {Append(c, b) : b \in SUBSET {t \in Txs : Exists(t) /\ t \notin Confirmed(c)}}

NextChains ==
    LET n == Len(chain)
        fork == IF n = 0 THEN {} ELSE Onto(Block(chain, n - 1)) \ {chain}
        all == Onto(chain) \cup fork \cup UNION {Onto(c) : c \in fork}
    IN  IF hist.tips = MaxTips THEN {}
        ELSE {c \in all : Len(c) <= MaxHeight /\ ValidChain(c)}

Tip(w) == [w EXCEPT !.hist.tips = @ + 1]

\* How many blocks of the best chain stay
Keep(c) == IF InMain(chain, c) \/ chain = << >> THEN Len(chain)
                                                ELSE Len(chain) - 1

SetBestChain(c, bad, locator) ==
    /\ fUp
    /\ SetWallet(Sync(Tip(Now), Events(c, Keep(c) + 1), bad))
    /\ chain' = c
    /\ pool' = PoolAfter(pool, chain, c, Keep(c))
    /\ bestblock' = locator
    /\ UNCHANGED <<orphans, fUp, made, relayed, refused, zapped>>

\* The wallet has been told of the first new block and the chain does not
\* change: the commit fails, or a later block of the branch is not valid
SetBestChainFails(c) ==
    /\ fUp
    /\ Fault
    /\ LET w == Sync(Counted(Tip(Now)), Events(Block(c, Keep(c) + 1), Keep(c) + 1), {})
       IN  SetWallet(Misled(w, c[Keep(c) + 1] \cap DOMAIN w.mem))
    /\ UNCHANGED <<chain, pool, orphans, bestblock, fUp, made, relayed,
                   refused, zapped>>

\* A crash after n batches of the wallet
SetBestChainStops(c, n) ==
    /\ fUp
    /\ LET events == Events(c, Keep(c) + 1)
           told == {events[i][1] : i \in 1..n}
           w == Sync(Tip(Now), SubSeq(events, 1, n), {})
       IN  /\ n <= Len(events)
           /\ Stop(Misled(w, told \cap DOMAIN w.mem))
    /\ UNCHANGED <<chain, bestblock, made, relayed, refused, zapped>>

\* A crash between the commit of the chain and the write of bestblock
SetBestChainCommits(c) ==
    /\ fUp
    /\ Stop(Sync(Tip(Now), Events(c, Keep(c) + 1), {}))
    /\ chain' = c
    /\ UNCHANGED <<bestblock, made, relayed, refused, zapped>>

-----------------------------------------------------------------------------
(* zapwallettxes *)

setZap == {t \in DOMAIN mapWallet : ~ InMain(mapWallet[t].hashBlock, chain)}

\* The coins whose only spenders in the wallet are being removed
Restored ==
    {o \in Mine : /\ o[1] \in DOMAIN mapWallet
                  /\ \E t \in setZap : o \in Ins[t]
                  /\ \A t \in DOMAIN mapWallet \ setZap : o \notin Ins[t]}

Unspent(mem) == [u \in DOMAIN mem |-> [mem[u] EXCEPT !.vfSpent = @ \ Restored]]

Erased(f, ts) == [u \in DOMAIN f \ ts |-> f[u]]

\* us and ts: the records that are rewritten and the records that are erased
Zapped(us, ts) ==
    Erased(Written(wallet, Unspent(mapWallet), us), ts)

Rewrites == {o[1] : o \in Restored}

ZapWalletTransactions(bad) ==
    /\ fUp
    /\ setZap # {}
    /\ hist.zaps < MaxZaps
    /\ mapWallet' = Erased(Unspent(mapWallet), setZap)
    /\ wallet' = Zapped(Rewrites \ bad, setZap \ bad)
    /\ LET failed == bad \cap (Rewrites \cup setZap)
       IN  hist' = [hist EXCEPT !.stale = @ \cup failed,
                                !.faults = @ + Cardinality(failed),
                                !.zaps = @ + 1]
    /\ pool' = Each(remove, pool, SelectSeq(HashOrder, LAMBDA t : t \in setZap))
    /\ zapped' = zapped \cup setZap
    /\ UNCHANGED <<chain, orphans, bestblock, fUp, made, relayed, refused>>

\* A crash: some of the rewrites are done, or all and some of the erasures
ZapStops(us, ts) ==
    /\ fUp
    /\ hist.zaps < MaxZaps
    /\ ts # {} => us = Rewrites
    /\ LET w == [Now EXCEPT !.disk = Zapped(us, ts), !.hist.zaps = @ + 1]
       IN  Stop(IF ts = setZap THEN w ELSE Misled(w, ts))
    /\ zapped' = zapped \cup ts
    /\ UNCHANGED <<chain, bestblock, made, relayed, refused>>

-----------------------------------------------------------------------------
(* Start: LoadWallet, the rescan from bestblock, ReacceptWalletTransactions *)

\* CBlockLocator::GetBlockIndex
ForkHeight(b, c) ==
    LET n == IF Len(b) < Len(c) THEN Len(b) ELSE Len(c)
        common == {h \in 0..n : Block(b, h) = Block(c, h)}
    IN  CHOOSE h \in common : \A g \in common : g <= h

Rescanned(w, bad) ==
    LET h == ForkHeight(bestblock, chain)
    IN  IF bestblock = chain THEN w
        ELSE Sync(w, Events(chain, IF h = 0 THEN 1 ELSE h), bad)

\* WriteToDisk of us without a look at its result
Unchecked(w, mem, us, bad) ==
    LET failed == us \cap bad
    IN  [mem |-> mem, disk |-> Written(w.disk, mem, us \ failed),
         hist |-> [w.hist EXCEPT !.stale = @ \cup failed,
                                 !.faults = @ + Cardinality(failed)]]

MarkedSpent(mem, os) ==
    [u \in DOMAIN mem |-> [mem[u] EXCEPT !.vfSpent = @ \cup (os \cap Outs(u))]]

\* Mutant: RepairedFromWallet as it would be without the loop over the inputs
RepairedFromWalletNothing(w, bad) == w

\* The spent flags from the wallet's own transactions
RepairedFromWallet(w, bad) ==
    LET mem == MarkedSpent(w.mem, UNION {Ins[t] : t \in DOMAIN w.mem})
    IN  Unchecked(w, mem, Changed(w.mem, mem), bad)

\* One pass over mapWallet: the spent flags from the transaction index, then
\* the blocks of the spenders that were found
RepairedFromChain(w, bad) ==
    LET known == DOMAIN w.mem \cap Confirmed(chain)
        mem == MarkedSpent(w.mem, SpentIn(chain) \cap UNION {Outs(t) : t \in known})
        found == UNION {mem[u].vfSpent \ w.mem[u].vfSpent : u \in DOMAIN mem}
        hit == {h \in DOMAIN chain : \E t \in chain[h] : Ins[t] \cap found # {}}
        scan == SelectSeq(Events(chain, 1), LAMBDA e : Len(e[2]) \in hit)
        Tell(v, e) == AddToWalletIfInvolvingMe(v, e[1], e[2], FALSE, bad)
    IN  Each(Tell, Unchecked(w, mem, Changed(w.mem, mem), bad), scan)

RepairedSpent(w, bad) ==
    LET pass[i \in 0..Cardinality(Txs)] ==
            IF i = 0 THEN RepairedFromWallet(w, bad)
            ELSE RepairedFromChain(pass[i - 1], bad)
    IN  pass[Cardinality(Txs)]

\* AcceptWalletTransaction for what is not in a block, vtxPrev first
Reaccepted(mem) ==
    LET Loose(p, t) == IF t \in Confirmed(chain) THEN p
                       ELSE accept(p, chain, t, FALSE)
        One(p, t) == IF t \in DOMAIN mem /\ t \notin Confirmed(chain)
                     THEN Loose(Each(Loose, p,
                             SelectSeq(Order, LAMBDA u : u \in DOMAIN mem[t].vtxPrev)), t)
                     ELSE p
    IN  Each(One, EmptyPool, HashOrder)

Start(bad) ==
    /\ ~ fUp
    /\ fUp' = TRUE
    /\ LET loaded == [mem |-> wallet, disk |-> wallet, hist |-> hist]
           w == RepairedSpent(Rescanned(loaded, bad), bad)
       IN  /\ SetWallet([w EXCEPT !.hist.doubt = hist.lost \cup w.hist.lost])
           /\ pool' = Reaccepted(w.mem)
    /\ UNCHANGED <<chain, orphans, bestblock, made, relayed, refused, zapped>>

\* A crash after n batches of the rescan.  It is not counted: a start that is
\* stopped may be stopped again.
StartStops(n) ==
    /\ ~ fUp
    /\ bestblock # chain
    /\ LET h == ForkHeight(bestblock, chain)
           events == Events(chain, IF h = 0 THEN 1 ELSE h)
           loaded == [mem |-> wallet, disk |-> wallet, hist |-> hist]
       IN  /\ n < Len(events)
           /\ SetWallet([Sync(loaded, SubSeq(events, 1, n), {}) EXCEPT !.mem = << >>])
    /\ UNCHANGED <<chain, pool, orphans, bestblock, fUp, made, relayed,
                   refused, zapped>>

Crash ==
    /\ fUp
    /\ Stop(Now)
    /\ UNCHANGED <<chain, bestblock, made, relayed, refused, zapped>>

-----------------------------------------------------------------------------
Next ==
    \/ \E t \in Txs, bad \in Bad : TxMessage(t, bad)
    \/ \E t \in Own : CommitTransaction(t) \/ CommitFails(t)
    \/ ResendWalletTransactions
    \/ \E c \in NextChains :
           \/ \E bad \in Bad, locator \in {c, bestblock} :
                  SetBestChain(c, bad, locator)
           \/ SetBestChainFails(c)
           \/ SetBestChainCommits(c)
           \/ \E n \in 1..Cardinality(Txs) : SetBestChainStops(c, n)
    \/ \E bad \in Bad : ZapWalletTransactions(bad) \/ Start(bad)
    \/ \E us \in SUBSET Rewrites, ts \in SUBSET setZap : ZapStops(us, ts)
    \/ \E n \in 1..Cardinality(Txs) : StartStops(n)
    \/ Crash

Spec == Init /\ [][Next]_vars

-----------------------------------------------------------------------------
(* Properties *)

\* mapNextTx holds the inputs of the transactions of mapTx and no others, so
\* no two of them spend one output, and a transaction that a block holds is
\* not in the pool: also after a reorganisation that takes it out of one
\* block and puts it into another (Reorganize resurrects before it deletes).
PoolAgrees ==
    /\ DOMAIN pool.mapNextTx = UNION {Ins[t] : t \in pool.mapTx}
    /\ \A o \in DOMAIN pool.mapNextTx :
           pool.mapNextTx[o] \in pool.mapTx /\ o \in Ins[pool.mapNextTx[o]]
    /\ pool.mapTx \cap Confirmed(chain) = {}

\* A payment that peers have seen has a durable record in wallet.dat, until
\* zapwallettxes removes it: CommitTransaction commits before it broadcasts,
\* and a batch that fails broadcasts nothing.
RelayedIsRecorded == relayed \subseteq DOMAIN wallet \cup zapped

\* Between handlers the wallet in memory is the wallet on disk: a failed
\* batch leaves neither changed, and only the writes whose result the code
\* does not look at can set them apart.
MemoryIsDisk ==
    fUp => \A t \in Txs \ hist.stale :
              /\ t \in DOMAIN mapWallet <=> t \in DOMAIN wallet
              /\ t \in DOMAIN mapWallet => mapWallet[t] = wallet[t]

\* A coin of the wallet that a transaction of the wallet or of the best chain
\* spends is marked spent, so CreateTransaction does not choose it again: also
\* after crashes between the batches, by ReacceptWalletTransactions.  (Not
\* before the next start for transactions whose batch failed.)
CoinsMarked ==
    fUp => \A t \in DOMAIN mapWallet \ hist.doubt : \A o \in Outs(t) :
              (\E u \in (DOMAIN mapWallet \cup Confirmed(chain))
                              \ (hist.doubt \cup hist.stale) : o \in Ins[u])
              => o \in mapWallet[t].vfSpent

\* A coin marked spent has a spender in the wallet or in the best chain: no
\* rollback and no crash inside zapwallettxes leaves a coin that nothing
\* spends and that the wallet never offers again.
NoStrandedCoin ==
    fUp => \A t \in DOMAIN mapWallet \ (hist.doubt \cup hist.stale) :
              \A o \in mapWallet[t].vfSpent :
                  \E u \in DOMAIN mapWallet \cup Confirmed(chain) : o \in Ins[u]

\* A transaction of a block of the best chain that concerns the wallet is in
\* the wallet, with a block of the best chain: ConnectBlock tells the wallet
\* before the chain commits, and a start rescans from bestblock.  (Not when
\* the batch failed or when the block told last was not connected after all.)
WalletKnowsBlock ==
    fUp => \A t \in Confirmed(chain) \ (hist.lost \cup hist.stale) :
              IsMine(t) \/ (\E u \in DOMAIN mapWallet \ hist.doubt : Ins[t] \cap Outs(u) # {})
              => t \in DOMAIN mapWallet /\ InMain(mapWallet[t].hashBlock, chain)
=============================================================================
