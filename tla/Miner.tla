------------------------------- MODULE Miner -------------------------------
(***************************************************************************)
(* The users of block templates: the threads of the internal miner         *)
(* (CoinMiner), the getwork, getblocktemplate and submitblock calls, and   *)
(* CheckWork, while other blocks keep arriving.  Each holds a key reserved *)
(* from the key pool for its coin base and reads pindexBest without a lock *)
(* before CreateNewBlock reads it again under cs_main.                     *)
(*                                                                         *)
(* A block is [parent, key, height]: what it extends, the key its coin     *)
(* base pays (the default key when the pool had none) and the height       *)
(* written into the coin base.  A reservation is [index, key].  A tip is   *)
(* <<number, height>>.  When a thread stops (fGenerateCoins, the unlocked    *)
(* thread counter) or waits (no peers) is left open.                       *)
(***************************************************************************)
EXTENDS Integers, Sequences, FiniteSets, FiniteSetsExt, SequencesExt

CONSTANTS
  Threads,      \* of the internal miner
  MaxTips,      \* bound: changes of the best chain
  MaxBlocks,    \* bound: blocks allocated by getwork
  PoolSize,     \* -keypool: TopUpKeyPool fills the pool to one more
  MaxKeys       \* bound: keys ever made

(* The target of a refill is not negative. *)
MinerAssumption == PoolSize \in Nat

VARIABLES
  tip,          \* pindexBest
  miner,        \* the threads
  work,         \* the statics of getwork
  gbt,          \* the reservation of getblocktemplate
  pool,         \* setKeyPool, the records on disk, the next new key, and whether
                \* a record was ever written over
  mined         \* keys paid by the blocks of ours that became part of the chain

minerVars == <<tip, miner, work, gbt, pool, mined>>

DefaultKey == 0                       \* vchDefaultKey
NoKey == [index |-> 0, key |-> 0]     \* an nIndex of -1

NoBlock == [parent |-> <<0, 0>>, key |-> 0, height |-> 0]
NoTip == <<0, 0>>
Off == [at |-> "off", prev |-> NoTip, block |-> NoBlock, reserved |-> NoKey]

MinerInit ==
  /\ tip = <<1, 1>>
  /\ miner = [t \in Threads |-> Off]
  /\ work = [prev |-> NoTip, current |-> 0, blocks |-> <<>>, freed |-> {},
             roots |-> {}, reserved |-> NoKey, making |-> FALSE]
  /\ gbt = NoKey
  /\ pool = [free |-> 1 .. PoolSize + 1, keys |-> [i \in 1 .. PoolSize + 1 |-> i],
             next |-> PoolSize + 2, overwritten |-> FALSE]
  /\ mined = <<>>

----------------------------------------------------------------------------
(* Keys.                                                                   *)

\* TopUpKeyPool numbers the new entries after the largest index in setKeyPool,
\* or from 1 when nothing is in it.
First == IF pool.free = {} THEN 1 ELSE Max(pool.free) + 1
Missing ==
  IF Cardinality(pool.free) <= PoolSize THEN PoolSize + 1 - Cardinality(pool.free) ELSE 0
NewIndices == First .. First + Missing - 1

TopUpKeyPool ==
  [free |-> pool.free \union NewIndices,
   keys |-> [i \in DOMAIN pool.keys \union NewIndices |->
               IF i \in NewIndices THEN pool.next + (i - First) ELSE pool.keys[i]],
   next |-> pool.next + Missing,
   overwritten |-> pool.overwritten \/ NewIndices \intersect DOMAIN pool.keys # {}]

\* ReserveKeyFromKeyPool takes the oldest entry of p.
OldestKey(p) ==
  IF p.free = {} THEN NoKey ELSE [index |-> Min(p.free), key |-> p.keys[Min(p.free)]]

\* A locked wallet is not topped up, and the commit of a refill may fail.  A
\* record that is gone, which takes an overwritten one, makes the call throw
\* and is not followed.
Pools ==
  {p \in {pool, TopUpKeyPool}:
     p.next <= MaxKeys + 1 /\ (p.free # {} => Min(p.free) \in DOMAIN p.keys)}

\* What CReserveKey::GetReservedKey leaves reserved, and the pool.  Without an
\* entry the caller gets the default key and reserves nothing.
GetReservedKey(held) ==
  IF held.index # 0 THEN {[reserved |-> held, pool |-> pool]}
  ELSE {[reserved |-> OldestKey(p), pool |-> [p EXCEPT !.free = @ \ {OldestKey(p).index}]]:
          p \in Pools}

ReturnKey(held) ==
  pool' = [pool EXCEPT !.free = @ \union ({held.index} \ {0})]

\* A kept key that stays with its holder.
KeepKeyNever(held) == held

KeepKey(held) == NoKey

\* CWallet::KeepKey erases the record.
Erased(p, held) == [p EXCEPT !.keys = [i \in DOMAIN @ \ {held.index} |-> @[i]]]

\* CreateNewBlock reads the tip itself.
CreateNewBlock(reserved) == [parent |-> tip, key |-> reserved.key, height |-> 0]

\* An address is given out: GetKeyFromPool keeps the key at once.
AddressTaken ==
  /\ \E g \in GetReservedKey(NoKey): pool' = Erased(g.pool, g.reserved)
  /\ UNCHANGED <<tip, miner, work, gbt, mined>>

\* IncrementExtraNonce takes the height from the index its caller read.
IncrementExtraNonce(block, prev) ==
  [parent |-> block.parent, key |-> block.key, height |-> prev[2] + 1]

----------------------------------------------------------------------------
\* The tip moves: a block of another node, or a heavier branch of the same
\* length.
Advance ==
  /\ tip[1] < MaxTips
  /\ \E h \in {tip[2], tip[2] + 1}: tip' = <<tip[1] + 1, h>>

OthersBlock ==
  /\ Advance
  /\ UNCHANGED <<miner, work, gbt, pool, mined>>

\* ProcessBlock of a block of ours.  A wrong height in the coin base is
\* refused by AcceptBlock; other rules may refuse a right one.
ProcessBlock(block) ==
  \/ /\ block.height = block.parent[2] + 1
     /\ tip[1] < MaxTips
     /\ tip' = <<tip[1] + 1, block.height>>
     /\ mined' = Append(mined, block.key)
  \/ UNCHANGED <<tip, mined>>

\* CheckWork after the hash met the target: stale work is dropped before the
\* key is touched.
Stale(block) == block.parent # tip

----------------------------------------------------------------------------
(* The internal miner.                                                     *)

\* GenerateCoins starts a thread for every processor that is free; told to stop,
\* a thread returns when it next looks (Leave).
GenerateCoins(on) ==
  /\ miner' = [t \in Threads |-> IF on /\ miner[t].at = "off"
                                 THEN [Off EXCEPT !.at = "idle"] ELSE miner[t]]
  /\ UNCHANGED <<tip, work, gbt, pool, mined>>

SetGenerate == \E on \in BOOLEAN: GenerateCoins(on)

\* The thread returns and its CReserveKey gives the key back.
Leave(t) ==
  /\ miner[t].at \in {"idle", "read", "search"}
  /\ miner' = [miner EXCEPT ![t] = Off]
  /\ ReturnKey(miner[t].reserved)
  /\ UNCHANGED <<tip, work, gbt, mined>>

ReadBest(t) ==
  /\ miner[t].at = "idle"
  /\ miner' = [miner EXCEPT ![t].at = "read", ![t].prev = tip]
  /\ UNCHANGED <<tip, work, gbt, pool, mined>>

StartSearch(t) ==
  /\ miner[t].at = "read"
  /\ \E g \in GetReservedKey(miner[t].reserved):
       /\ miner' = [miner EXCEPT ![t] =
                      [at |-> "search", prev |-> NoTip, reserved |-> g.reserved,
                       block |-> IncrementExtraNonce(CreateNewBlock(g.reserved), @.prev)]]
       /\ pool' = g.pool
  /\ UNCHANGED <<tip, work, gbt, mined>>

\* The thread found a solution and goes on.
Found(t) ==
  /\ miner[t].at = "search"
  /\ IF Stale(miner[t].block)
     THEN miner' = miner /\ UNCHANGED <<tip, pool, mined>>
     ELSE /\ miner' = [miner EXCEPT ![t].reserved = KeepKey(@)]
          /\ pool' = Erased(pool, miner[t].reserved)
          /\ ProcessBlock(miner[t].block)
  /\ UNCHANGED <<work, gbt>>

\* A new block is due when the best one is no longer what the thread read, the
\* nonces ran out, or the pool changed a minute ago.
NextRound(t) ==
  /\ miner[t].at = "search"
  /\ miner' = [miner EXCEPT ![t].at = "idle", ![t].block = NoBlock]
  /\ UNCHANGED <<tip, work, gbt, pool, mined>>

----------------------------------------------------------------------------
(* getwork.  blocks[b] is the block allocated b-th; freed the deleted      *)
(* ones; roots holds the blocks that entries of mapNewBlock lead to, of    *)
(* which a block has one for every extra nonce.                            *)

Dropped(w) ==
  [w EXCEPT !.freed = DOMAIN w.blocks, !.roots = {},
            !.blocks = [b \in DOMAIN @ |-> NoBlock]]

\* The first part of the call: what is obsolete goes, and the best index is
\* read.  A pool that changed a minute ago is reason enough for a new block.
GetWorkReads ==
  /\ ~work.making /\ Len(work.blocks) < MaxBlocks
  /\ work' = [(IF work.prev # tip THEN Dropped(work) ELSE work)
                EXCEPT !.prev = tip, !.making = TRUE]
  /\ UNCHANGED <<tip, miner, gbt, pool, mined>>

HandOut(w, b) ==
  [w EXCEPT !.roots = @ \union {b}, !.blocks[b] = IncrementExtraNonce(@, w.prev)]

\* The second part: the block, the extra nonce and the entry for its root.  When
\* CreateNewBlock throws, the next call starts over.
Created(g) ==
  LET b == Len(work.blocks) + 1
      done == [work EXCEPT !.making = FALSE, !.reserved = g.reserved]
      w == [done EXCEPT !.current = b, !.blocks = Append(@, CreateNewBlock(g.reserved))]
  IN {HandOut(w, b), [done EXCEPT !.prev = NoTip]}

GetWorkCreates ==
  /\ work.making
  /\ \E g \in GetReservedKey(work.reserved): work' \in Created(g) /\ pool' = g.pool
  /\ UNCHANGED <<tip, miner, gbt, mined>>

\* The block at hand still serves.
GetWorkAgain ==
  /\ ~work.making /\ work.prev = tip
  /\ work' = HandOut(work, work.current)
  /\ UNCHANGED <<tip, miner, gbt, pool, mined>>

\* Work comes back: the saved block is completed and checked.
GetWorkSubmit ==
  /\ ~work.making
  /\ \E r \in work.roots:
       LET block == work.blocks[r] IN
         IF Stale(block)
         THEN work' = work /\ UNCHANGED <<tip, pool, mined>>
         ELSE /\ work' = [work EXCEPT !.reserved = KeepKey(@)]
              /\ pool' = Erased(pool, work.reserved)
              /\ ProcessBlock(block)
  /\ UNCHANGED <<miner, gbt>>

----------------------------------------------------------------------------
\* getblocktemplate keeps one block, made anew when the tip moved or the pool
\* changed; its coin base is only an example for the caller, and its key is
\* never kept.
GetBlockTemplate ==
  /\ \/ \E g \in GetReservedKey(gbt):
             gbt' = g.reserved /\ pool' = g.pool
     \/ UNCHANGED <<gbt, pool>>
  /\ UNCHANGED <<tip, miner, work, mined>>

\* submitblock: a block made elsewhere, which pays keys that are not ours.
SubmitBlock ==
  /\ Advance \/ UNCHANGED tip
  /\ UNCHANGED <<miner, work, gbt, pool, mined>>

MinerNext ==
  \/ OthersBlock \/ SetGenerate
  \/ \E t \in Threads: Leave(t) \/ ReadBest(t) \/ StartSearch(t) \/ Found(t) \/ NextRound(t)
  \/ GetWorkReads \/ GetWorkCreates \/ GetWorkAgain \/ GetWorkSubmit
  \/ GetBlockTemplate \/ SubmitBlock \/ AddressTaken

MinerSpec == MinerInit /\ [][MinerNext]_minerVars

----------------------------------------------------------------------------
\* No two blocks of ours pay the same key of the pool, the default key being
\* all they may share (CheckWork, main.cpp:4680, keeps the key before the block
\* is processed; threads that stop return theirs), unless a refill wrote over
\* the record of a reserved key (wallet.cpp:2529 counts only the entries in
\* setKeyPool): the templates of threads and getwork are built, refused, found
\* stale and found again in any order while the best chain moves.
MinedKeysDistinct ==
  ~pool.overwritten =>
    \A i, j \in DOMAIN mined: mined[i] = mined[j] => i = j \/ mined[i] = DefaultKey

\* An entry of mapNewBlock never leads to a block getwork has deleted
\* (rpcmining.cpp:174 deletes them on a new best block, rpcmining.cpp:268
\* follows the entry).
WorkIsLive == \A r \in work.roots: r \notin work.freed
=============================================================================
