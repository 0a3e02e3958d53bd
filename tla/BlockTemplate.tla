---------------------------- MODULE BlockTemplate ----------------------------
(***************************************************************************)
(* CreateNewBlock: how the memory pool becomes a block template.           *)
(*                                                                         *)
(* Gather classifies the pool under cs_main and mempool.cs: transactions   *)
(* ready to be queued, transactions waiting for others of the pool, and    *)
(* those left out.  Each Take pops the heap and passes the transaction     *)
(* over or adds it.  Finish writes the coin base and has ConnectBlock      *)
(* check the result.  The pool is any subset of the catalogue whose        *)
(* transactions spend different outputs; an input may be missing, since a  *)
(* reorganisation can put a parent back and fail to return it to the pool. *)
(***************************************************************************)
EXTENDS Validation

CONSTANTS
  Txs,            \* names of the transactions that may be pooled
  Chain,          \* names of transactions in the best chain
  Catalogue,      \* [Txs \union Chain -> transaction]
  Heights,        \* [Chain -> height]
  BestHeight,
  BlockMaxSize, BlockPrioritySize, BlockMinSize,  \* the miner's options
  FreePriority,   \* COIN * 144 / 250, below which priority does not count
  CoinbaseSize, CoinbaseSigOps   \* what is set aside for the coin base

VARIABLES
  pool,         \* mempool.mapTx
  stage,        \* "gather", "fill", "done", "failed"
  vecPriority,  \* the heap
  dependsOn,    \* COrphan::setDependsOn of the waiting transactions
  dangling,     \* popped from vOrphan, still listed in mapDependers
  vtx,          \* the block after the coin base
  blockSize, blockSigOps, fees, byFee

templateVars == <<pool, stage, vecPriority, dependsOn, dangling, vtx, blockSize,
                  blockSigOps, fees, byFee>>

Inputs(t) == ToSet(Catalogue[t].vin)

Parents(t) == {o[1]: o \in Inputs(t)}

\* CTxMemPool::accept refuses a transaction that conflicts with the pool or
\* with the chain, spends an immature coin base or pays out more than it takes.
Poolable(t) ==
  /\ CheckTransaction(Catalogue[t]) /\ ~IsCoinBase(Catalogue[t])
  /\ \A o \in Inputs(t): o[2] \in DOMAIN Catalogue[o[1]].vout
  /\ GetValueIn(Catalogue[t], Catalogue) >= GetValueOut(Catalogue[t])

TemplateInit ==
  /\ pool \in {p \in SUBSET {t \in Txs: Poolable(t)}:
                 \A s, t \in p: s # t => Inputs(s) \cap Inputs(t) = {}}
  /\ stage = "gather"
  /\ vecPriority = {} /\ dependsOn = << >> /\ dangling = {} /\ vtx = <<>>
  /\ blockSize = CoinbaseSize /\ blockSigOps = CoinbaseSigOps /\ fees = 0
  /\ byFee = (BlockPrioritySize <= 0)

Missing(t) == Parents(t) \ (pool \union Chain)

\* sum(valuein * confirmations) / size, over the inputs found in the chain.
Priority(t) ==
  LET in == Catalogue[t].vin
      out == OutputsFor(Catalogue[t], Catalogue)
      age(i) == IF in[i][1] \in Chain THEN BestHeight - Heights[in[i][1]] + 1 ELSE 0
  IN Total([i \in DOMAIN in |-> out[i] * age(i)]) \div Catalogue[t].size

FeeOf(t) == GetValueIn(Catalogue[t], Catalogue) - GetValueOut(Catalogue[t])

FeePerKb(t) == (FeeOf(t) * Kilobyte) \div Catalogue[t].size

Eligible == {t \in pool: Catalogue[t].final /\ Missing(t) = {}}

\* A transaction found to lack an input after an input from the pool was seen
\* leaves the list of waiting ones, but not the map from its parents.
Dangles(t) ==
  LET in == Catalogue[t].vin
  IN /\ Catalogue[t].final /\ Missing(t) # {}
     /\ \E i \in DOMAIN in: in[i][1] \in pool /\ \A j \in 1 .. i: in[j][1] \notin Missing(t)

Gather ==
  /\ stage = "gather"
  /\ stage' = "fill"
  /\ LET waits == {t \in Eligible: Parents(t) \cap pool # {}}
     IN /\ vecPriority' = Eligible \ waits
        /\ dependsOn' = [t \in waits |-> Parents(t) \cap pool]
  /\ dangling' = {t \in pool: Dangles(t)}
  /\ UNCHANGED <<pool, vtx, blockSize, blockSigOps, fees, byFee>>

\* TxPriorityCompare: one criterion, then the other.
Precedes(s, t, fee) ==
  LET first(x)  == IF fee THEN FeePerKb(x) ELSE Priority(x)
      second(x) == IF fee THEN Priority(x) ELSE FeePerKb(x)
  IN first(s) < first(t) \/ (first(s) = first(t) /\ second(s) < second(t))

HeapTop(t) == t \in vecPriority /\ ~\E u \in vecPriority: Precedes(t, u, byFee)

InBlock == ToSet(vtx)

SpentHere == UNION {Inputs(t): t \in InBlock}

Fits(t) ==
  /\ blockSize + Catalogue[t].size < BlockMaxSize
  /\ blockSigOps + Catalogue[t].sigops < MaxBlockSigOps

Worthwhile(t) ==
  ~(byFee /\ FeePerKb(t) < MinTxFee /\ blockSize + Catalogue[t].size >= BlockMinSize)

\* The loop counts only the operations in a transaction's own scripts.
ConnectsOwnSigOps(t) ==
  /\ FetchInputs(Catalogue[t], Heights, InBlock, FALSE)
  /\ ConnectInputs(Catalogue[t], Catalogue, Heights, SpentHere, BestHeight)

Connects(t) ==
  /\ FetchInputs(Catalogue[t], Heights, InBlock, FALSE)
  /\ blockSigOps + Catalogue[t].sigops + Catalogue[t].redeem < MaxBlockSigOps
  /\ ConnectInputs(Catalogue[t], Catalogue, Heights, SpentHere, BestHeight)

\* Past the space kept for priority, or out of high priorities, the heap is
\* built again by fee; the transaction in hand is not put back.
SwitchesToFee(t) ==
  byFee \/ blockSize + Catalogue[t].size >= BlockPrioritySize \/ Priority(t) < FreePriority

\* An entry of mapDependers that outlived its COrphan reads freed memory: the
\* freed set looks empty, or the transaction is queued.
Released(t) ==
  {u \in DOMAIN dependsOn: dependsOn[u] = {t}}

Add(t) ==
  /\ vtx' = Append(vtx, t)
  /\ blockSize' = blockSize + Catalogue[t].size
  /\ blockSigOps' = blockSigOps + Catalogue[t].sigops + Catalogue[t].redeem
  /\ fees' = fees + FeeOf(t)
  /\ dependsOn' = [u \in DOMAIN dependsOn |-> dependsOn[u] \ {t}]
  /\ \E wild \in SUBSET {u \in dangling: t \in Parents(u)}:
       vecPriority' = (vecPriority \ {t}) \union Released(t) \union wild
  /\ UNCHANGED <<pool, stage, dangling>>

PassOver(t) ==
  /\ vecPriority' = vecPriority \ {t}
  /\ UNCHANGED <<pool, stage, dependsOn, dangling, vtx, blockSize, blockSigOps, fees>>

Take ==
  /\ stage = "fill"
  /\ \E t \in vecPriority:
       /\ HeapTop(t)
       /\ byFee' = IF Fits(t) /\ Worthwhile(t) THEN SwitchesToFee(t) ELSE byFee
       /\ IF Fits(t) /\ Worthwhile(t) /\ Connects(t) THEN Add(t) ELSE PassOver(t)

Coinbase ==
  [vin |-> <<Null>>, vout |-> <<Subsidy + fees>>, size |-> CoinbaseSize,
   sigops |-> 1, redeem |-> 0, final |-> TRUE]

\* CreateNewBlock throws when ConnectBlock refuses its own template.
Finish ==
  /\ stage = "fill" /\ vecPriority = {}
  /\ stage' = IF ConnectBlock(vtx, Catalogue, Heights, {}, BestHeight + 1, Coinbase, FALSE)
              THEN "done" ELSE "failed"
  /\ UNCHANGED <<pool, vecPriority, dependsOn, dangling, vtx, blockSize, blockSigOps, fees, byFee>>

TemplateNext == Gather \/ Take \/ Finish

TemplateSpec == TemplateInit /\ [][TemplateNext]_templateVars

\* The template never fails the check of ConnectBlock (main.cpp:4600 throws
\* otherwise, and mining stops), whatever the pool holds: the running size,
\* signature operations, fees and spent outputs of the loop agree with the
\* ones ConnectBlock counts again from the start.
TemplateConnects == stage # "failed"
=============================================================================
