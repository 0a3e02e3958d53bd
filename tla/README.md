# A TLA+ model of Phoenixcoin

Phoenixcoin is a full node and wallet of the Bitcoin 0.6 family: one process, a
handful of threads, one lock (`cs_main`) around the chain state, Berkeley DB or
LMDB underneath, and a second signature scheme (ML-DSA) beside ECDSA. This
directory models the parts whose correctness depends on the order of steps, on
what survives a failure, on what two parts believe of each other, and the
computations whose result every node must agree on. `PROJECT.json` lists the
components, runs, findings, hazards and theorems, and maps every definition to
the lines it models; paths below are relative to `src/src/`.

## Inventory

| Component | State | Operations | Talks to | What is hard | What makes it correct |
|---|---|---|---|---|---|
| Block index and best chain (`main.cpp`) | `mapBlockIndex`, `pnext`, `pindexBest`, the block, tx and best-chain records | `AcceptBlock`, `AddToBlockIndex`, `SetBestChain`, `Reorganize`, `ConnectBlock`, `DisconnectBlock` | database, checkpoints, wallet, pool | memory and disk change at different moments, every read, write and commit can fail, a crash can come anywhere | memory = disk between handlers, links name the best chain |
| Synchronised checkpoints (`checkpoints.cpp`) | `hashSyncCheckpoint`, pending and invalid ones | `ProcessSyncCheckpoint`, `AcceptPendingSyncCheckpoint`, `ValidateSyncCheckpoint`, `CheckSync` | best chain | a checkpoint arrives before its block, or names a losing branch | only moves to descendants, always an accepted block, a strict node does not leave it |
| Bulk import (`main.cpp` `CChainImportBatch`, `LoadExternalBlockFile`) | a batch of blocks and the undo of each | begin, append, abort, commit | best chain | a batch that does not commit takes everything back | memory = disk, the durable ledger moves in whole steps |
| Start of the node (`init.cpp`, `main.cpp`, `db.cpp`) | the records, read back; genesis, checkpoint and its key in several commits | `AppInit2`, `LoadBlockIndex` | best chain | a crash or a request to stop between any two commits | the next start comes up, with the chain there was |
| Shutdown (`init.cpp`, `net.cpp`, `rpcmain.cpp`) | `fShutdown`, `vnThreadsRunning` | `Shutdown`, `StopNode`, the RPC listener and handlers | every thread | a thread that starts while the process stops | nobody works on a closed database; the process ends |
| LMDB environment (`lmdbdb.cpp`, `lmdb_kv.cpp`) | active transactions, resize flag, writer slot, map size, mutations | begin, read, write, nested read, grow with abort and replay, commit | index and wallet databases | the map may be resized only with no transaction alive, in the middle of one | resized alone, nothing lost in the replay, nothing leaks, growth ends |
| Backend markers, migration, wallet rewrite (`db.cpp`) | `wallet/`, `wallet.rewrite/`, `wallet.old/`, the `.dat` file, the marker | start, migration, encryption, rewrite, recovery | wallet, block index | a stop between any two file system calls | a node that runs has every record ever committed |
| Wallet database handles (`db.cpp`, `wallet.cpp`, `rpcwallet.cpp`) | handle count, lifecycle lock, `cs_wallet` | open, close, backup, rewrite | every wallet caller | a waiter keeps a lock that those it waits for need | copied alone; backups end |
| Block download (`main.cpp`, `net.h`) | `mapOrphanBlocks`, `mapAskFor`, `mapAlreadyAskedFor`, `setInventoryKnown` | `getblocks`, `inv`, `getdata`, `block`, `SendMessages` | peer, best chain | getblocks dropped as spam at both ends, retries, disconnects | no orphan waits for a parent that is there; the download goes on |
| Wallet transactions (`wallet.cpp`) | `mapWallet`, `vfSpent`, the tx and bestblock records | `AddToWallet`, `CommitTransaction`, resend, `ZapWalletTransactions`, rescan, repair at start | pool, best chain | one batch per transaction, told of blocks before the chain commits | memory = disk, coins marked exactly when spent |
| Memory pool, orphan transactions (`main.cpp`) | `mapTx`, `mapNextTx`, `mapOrphanTransactions` | `accept`, `remove`, the `tx` message, resurrection | wallet, best chain | reorganisations move transactions between blocks and pool | `mapNextTx` agrees with `mapTx`, nothing confirmed in the pool |
| Keys (`wallet.cpp`, `keystore.cpp`, `hs/`) | `setKeyPool`, reservations, master keys, hybrid pairs | reserve, keep, return, top up, encrypt, lock, change of passphrase, import, issue | wallet file | a crash or a failing write between reserve and keep, or in an encryption | every key handed out can be recovered, the wallet loads, a hybrid address is given out once |
| Accounts, groupings (`rpcwallet.cpp`, `wallet.cpp`) | address book, current addresses, move entries, order positions | `getnewaddress`, `move`, `sendfrom`, `setaccount`, balances and lists | wallet transactions | several commands compute the same sum in different ways | they agree; groups are connected components |
| Coin selection (`wallet.cpp`) | none | `CreateTransaction`, `SelectCoins`, `SelectCoinsMinConf` | pool's rules | fee, size, change and coins depend on each other | what is created is accepted |
| Qt views (`qt/`) | transaction and address tables | refresh, queued updates, edits | wallet | notifications handled late | the tables show the wallet |
| Peer connections (`net.cpp`, `net.h`) | `vNodes`, reference counts, outbound slots, `setBanned` | connect, accept, serve, disconnect, delete | message threads | a node disconnected while another thread works on it | no node is deleted in use, no slot is lost |
| Message framing (`net.h`, `main.cpp`) | `vSend`, `vRecv` | `BeginMessage`, `EndMessage`, `AbortMessage`, `ProcessMessages` | socket | the stream is cut anywhere, full buffers | messages sent whole are handled in order, once |
| Addresses of peers (`addrman.cpp`) | new and tried tables, random order, `peers.dat` | `Add_`, `Good_`, `GetAddr_`, evictions, load | connections | one fact in four tables | the tables agree (`Check_`) |
| Alerts (`alert.cpp`) | `mapAlerts`, known sets | `ProcessAlert`, relay, expiry | peers | any order of alerts and cancellations | none stands beside what cancels it |
| Pings (`main.cpp`) | stamps per node | `SendMessages`, `pong` | message thread | a late thread takes an answer for silence | silent peers go, answering ones stay |
| Network time (`util.cpp`, `ntp.cpp`) | samples, median, offsets | `AddTimeData`, time servers | peers | wrong clocks | the majority decides |
| Miner, block templates (`main.cpp`, `rpcmining.cpp`) | templates, reserved keys, `mapNewBlock` | `CreateNewBlock`, `CoinMiner`, `getwork`, `getblocktemplate`, `CheckWork` | pool, best chain, key pool | a template on a tip that has gone; limits counted twice | a template connects; no two blocks pay one key of the pool, unless a refill wrote over a reserved record |
| Script and signing (`script.cpp`, `hs/`) | the interpreter's stacks | `EvalScript`, `Solver`, `IsMine`, `SignSignature`, `CombineSignatures` | wallet, validation | nesting, numbers, partial signatures in any order | instructions run in their branch; signatures combine |
| Validation, difficulty, reward (`main.cpp`) | none | `CheckTransaction`, `ConnectInputs`, `CheckBlock`, `GetNextWorkRequired`, `GetMoneySupply` | best chain, miner | boundaries of forks and windows | supply = sum of rewards; targets stay on schedule |
| Encodings (`base58.h`, `util.cpp`, `serialize.h`, `bignum.h`) | none | text and wire forms | everything | sign bytes, leading zeros, limits | reading inverts writing |
| Proof-of-work hash (`neoscrypt.c`) | none | BLAKE2s, SHA-256, FastKDF, Salsa20, ChaCha20, the mixers | miner, validation | unrolled and wrapped loops | equal to the plain definitions and to known answers |

## Modules

| Module | Models |
|---|---|
| `BlockTree` | the tree of blocks a node may see: `Prev`, `Branch`, `ChainWork`, and its assumptions |
| `ChainState` (extends `BlockTree`) | block index, best chain, checkpoints |
| `ImportBatch` (extends `ChainState`) | import of a block file in batches, among single blocks |
| `Ledger` (extends `BlockTree`) | the abstract specification of the durable chain state |
| `MCTree`, `MCChainState`, `MCImportBatch` | the tree of the runs and the refinement mapping to `Ledger` |
| `ChainStateProofs` | lemmas on trees; the inductive invariants and the theorems of `ChainState` and `ImportBatch`, the refinement of `Ledger` among them |
| `LmdbEnvProofs`, `BlockSyncProofs`, `ConnectionsProofs` | the theorems of one module each |
| `StorageProofs` | the theorems of the other layers of `MCStorage`: handles, shutdown, files |
| `NetworkProofs` | those of `MCNetwork`: message stream, pings, alerts, time, start, miner |
| `WalletProofs` | those of `MCWallet`: keys, and what the interface shows |
| `OrderLemmas` | what `Min`, `Max` and least elements are, for all the proofs |
| `LmdbEnv`, `BackendFiles`, `WalletHandles`, `Shutdown` | storage from the map to the handles, and the end of the process; `MCStorage` composes them |
| `BlockSync` | block download from a peer |
| `WalletTx`, `WalletKeys`, `Accounts`, `Groupings`, `WalletView` | the wallet and what the user sees of it; `MCWallet` composes them |
| `Connections`, `AddrMan`, `Messages`, `Alerts`, `KeepAlive`, `NetTime` | what a node does for its peers |
| `StartUp`, `Miner` | the start of the program; the users of block templates; `MCNetwork` composes these and the row above |
| `Script`, `ScriptRun`, `Signing` | the interpreter, its runs over all short scripts, and wallets that sign in turns |
| `Validation`, `BlockTemplate`, `CoinSelect` | the rules of transactions and blocks, and the two places that build something that must pass them |
| `Economy`, `Codecs`, `NeoScrypt` | reward, supply and difficulty; encodings; the hash; `MCRules` composes these and the two rows above |

A composing module instantiates its components (`MCStorage` extends `LmdbEnv`
and `MCNetwork` extends `Connections`, so that the properties they check are
the proved ones); its variable `part` says which of them moves in a behaviour
while the others stay as they start.
The components of one composition are therefore searched one after the other,
in one run, and a state count is the sum of theirs. Where components share
state in the code they are one module (`WalletTx`: wallet, pool, chain), or one
extends the other (`ImportBatch` over `ChainState`, `BlockTemplate` and
`CoinSelect` over `Validation`).

An operator that the comment before it calls a mutant, or that carries the
name of another with an addition, is a version of the definition below it with
a plausible bug; no specification uses it. Each property of a passing run has
one that violates it (`mutants` in `PROJECT.json`).

### `ChainState` and `ImportBatch`

`index`, `pnext`, `best`, `sync`, `pending`, `invalidCp` and `invalidWork` are
the globals of `main.cpp` and `checkpoints.cpp`; `disk` is what is committed in
the block index database and `txn` what the open transaction would commit.
Every handler holds `cs_main`, so handlers do not interleave; `pc` says how far
the running one has come. One step is one block connected or disconnected, or
one commit, so a crash (`Crash`, then `Restart` with the loaded records) or a
failing call can come between any two. `AcceptBlock` starts a handler with a
block whose parent is known; `SetBestChain` is `SwitchToNewBlock`,
`Disconnect` and `Connect` inside one transaction, `CommitSwitch`, then
`ConnectPostponed` with a transaction each, then `NewBest`. A checkpoint from
the master enters with `ProcessSyncCheckpoint`.

Blocks are opaque: `Unconnectable` ones are refused by `ConnectBlock`, `Suspect`
ones may fail `CheckBlock` when it is called again, since it reads the clock.
`Init` is the node after its first complete start.

In `ImportBatch` a block of the file that extends the tip below the last
hardened checkpoint joins the open batch: memory follows at once, the database
at the commit, and the undo of each block waits in the batch. Every other block
ends the batch and goes through `ChainState`'s handlers.

`Ledger` promises that the durable state is a set of known blocks, a tip, and
the coins of exactly the tip's branch, and that each durable change learns
blocks or moves the tip to a heavier one. `LedgerRefined` says `ImportBatch`,
and with it `ChainState`, implements it; checkpoints, which force the tip back,
are off in that run.

### Storage

`LmdbEnv`: a thread asks for a lease (`nActiveTxns`, which waits while
`fResizePending` unless the thread has a lease already), the writer slot, and a
transaction. A write that meets a full map aborts the transaction, gives back
the lease but keeps the slot, waits for all leases (`drain`), resizes under
`mutexEnv`, begins again, replays `mutations` and retries. `view` is what LMDB's
transaction holds; `asked` is what the caller believes it wrote. LMDB itself is
external: it says "full" when a transaction needs more pages than the map has.
Opening, closing and verifying the environment are not modelled.

`BackendFiles`: a database is its number of commits, whether it opens, and
whether a page still holds clear keys. Each file system call is a step, may fail
when `Faults` is set, and may be the last (`Stop`). The next start may ask for
either backend. `store` says whether the wallet or the chain index is looked at:
the two share the marker and migration code, and only the wallet has a rewrite.

`WalletHandles`: a caller is the sequence of its operations on `cs_wallet`, the
handle count and `g_mutexWalletKV` (`Script`). A waiting backup or rewrite
gives up when `fShutdown` is set.

`Shutdown`: the counters of running threads are all that the stopping thread
knows. The RPC listener counts a handler before it makes its thread.

### `BlockSync`

Node and peer share one line of blocks, so a block is its height; forks are
`ChainState`'s. Messages are in order, as on a socket; a lost connection drops
them and everything either end kept for it. Time is three abstractions:
`MayAsk` and `MayAnswer` (the interval since the last getblocks has passed, at
either end) and `TwoMinutes` (a retry is due). `MayAsk` is taken to come only
when the last getblocks has arrived: the interval is longer than a message
takes. `setInventoryKnown` is an `mruset` in the code; its limit is far above
the heights of any run, so it is a set here. Below `Estimate` (the last
hardened checkpoint) the node is in its initial download; above it blocks are
taken to be recent.

### Wallet

`WalletTx`: handlers run under `cs_main` and `cs_wallet`, so each is one step;
what interrupts them is a failed batch or a crash, and the `...Stops`,
`...Commits` and `...Fails` actions stop them between their commits. A block is
named by the chain that ends in it. `hist` remembers which transactions met
with a failure: `lost` ones the wallet was not told of, or was told of a block
that was not connected, `doubt` ones have spent flags that only a start
repairs, and for `stale` ones a write failed whose result the code ignores. The
properties except those and no others. Fees and standardness always pass.

`WalletKeys`: `mem` is the key store, `disk` the records; a command is split
where its database transactions are, and each write may fail. A cipher is the
fact that the right passphrase opens it.

`Accounts`: a batch of records commits or leaves the disk as it was. The
balances `getbalance`, `getbalance "*"`, `listaccounts` and the lists are
computed the way each command does and compared. `getbalance` in its three forms
skips a transaction that is not final and the lists do not, so the comparison
is of like with like: the sums of accounts against the total over the final
ones, `listaccounts` against all items, a balance against the items of the final
ones. `adjusted` is `GetAdjustedTime`, which may step back; lock times are times
and not heights, and the inputs of a locked transaction have sequence numbers.

`WalletView`: the tables follow notifications that wait in the event queue of
the interface's thread while the wallet goes on.

### Network

`Connections`: the socket thread, the message thread, two threads that open
connections and `addnode onetry` share `vNodes`. Steps under `cs_vNodes` are
single steps; `fDisconnect`, reference counts and slots are kept as the code
keeps them, `leaked` and `miscounted` note nodes the code itself abandons (see
below). `Messages`: the stream is tokens, a header is two of them so that it
can be cut. `AddrMan`: bucket numbers come from a keyed hash, so any function
will do; times are left open. `KeepAlive`: a clock of half minutes. `NetTime`:
offsets to the system clock; the median is the sample of the middle rank. The
clock of `Alerts` moves either way, as `GetAdjustedTime` does.

`StartUp` may be two processes on one data directory, two releases with
different checkpoint keys, and a crash or SIGTERM at every step. In `Miner` the
threads of `CoinMiner`, `getwork` and `getblocktemplate` hold a template and a
reserved key each while the tip moves and addresses are taken from the same
pool; a block is its parent, its key and a height. `pool` is `setKeyPool` and the
records on disk. `TopUpKeyPool` numbers new records after the largest index that
is free and so may write over a reserved one, which `overwritten` notes; it may
fail or find the wallet locked, and an empty pool leaves a caller with
`vchDefaultKey` and nothing reserved. A reservation whose record is gone throws
and is not followed.

### Rules

`Script` has every opcode; keys, signatures and hashes are ideal values.
`ScriptRun` writes every script over an alphabet and runs it one instruction a
step. `Validation` scales amounts and sizes down through its constants.
`BlockTemplate` and `CoinSelect` build blocks and payments step by step. In
`CoinSelect` change goes to the address coin control names, to a hybrid address
if a hybrid coin is spent, to a key of the pool, or to the default key; `reserved`
is whether the `CReserveKey` holds a key, which rounds take and give back.
`Economy` uses the real heights. `Codecs` works on digits and bytes; hex is read
with and without spaces.
`NeoScrypt` computes on 32-bit words as pairs of halves, so that its results
are compared with published answers bit by bit.

## Runs

Passing runs. The state counts are those of TLC's complete searches.

| Run | Instance | States | Shows |
|---|---|---|---|
| `chain_import` | the tree below, a block file read in batches of two and blocks from peers, `b3` unconnectable, database errors, two crashes, no checkpoints | 199,157 | index, links and tip in memory are those on disk between handlers, whatever part of a batch or a switch failed; the links name the best chain; `Ledger` is refined |
| `chain_everything` | the same tree with a doubtful block `b2`, checkpoints on `a2`, `b1` and `b4`, strict mode, one crash | 580,848 | index and links agree between handlers, records are complete whenever a crash strikes, the checkpoint is always indexed, is not left by a running node, and moves only forward; every handler ends |
| `storage` | two LMDB threads, two keys, a map of 1 page growing to 3; four commits of either store with every call failing and a stop after every step; three threads on the handles; two RPC clients at shutdown | 69,218 | the map grows safely, the files are recoverable, nobody uses what is being copied or closed, every wait ends |
| `block_sync` | peer at 4, mines to 6; limit 1, advertised 2, distant 3, checkpoint at 4; two connections | 89,721 | no stuck orphan, the download comes to the announced height, a new tip is followed |
| `wallet` | four transactions, chains of two blocks, three tip changes, one failure or crash, one zap; four keys, two passphrases, one hybrid key in the pool; two accounts; three addresses to group; two addresses and five transactions to show | 960,800 | payments, spent flags, keys, accounts and what is displayed stay in agreement |
| `network` | two nodes of one peer, two connecting threads; three addresses in two new buckets and one tried bucket; three messages cut anywhere; six alerts; fourteen minutes of pings; five clocks, two wrong; starts of two processes; a miner thread, `getwork` and `getblocktemplate` on three tips with three keys | 3,368,821 | nodes and slots are accounted for, tables agree, the stream is intact, alerts stand, pings and clocks decide rightly, starts come up, mining does not reuse a key of the pool |
| `rules` | scripts of up to 3 and 7 instructions over three alphabets, five wallets on nine outputs, a pool of nine transactions, wallets of up to four coins, the heights around every fork and halving, inputs at the edges of every encoding, published answers of the hashes | 212,701 | each computation equals its reference definition; templates connect, payments are accepted |

Why the bounds are enough. The tree `g-a1-a2-a3`, `g-b1-b2-b3-b4` has one
branch that overtakes the other after two, three or four blocks, a refused
block with a block above it, a block below it that stays accepted, and a
checkpoint that sets the tip back far enough for two postponed connects. A
batch of two has a first and a last block; below height 3 blocks are batched,
above it not, so both ways meet in one file. With a crash a restart meets every
state a handler can leave; a second crash finds the restart of the first. Two
LMDB threads are a writer and everyone else: a second reader only adds leases.
From 1 to 3 pages the map grows twice, the second time cut to the maximum, and
can then be full for good. Four commits let a migration, a commit before it, one
after it and an encryption happen. In `WalletHandles` the third thread makes a
waiter of one kind, a holder and one that arrives late. The limits of
`BlockSync` keep the relation of the code's, `Distant = Limit + Advertised`
(5000 = 1000 + 4000), which is what decides whether an advertised block is
thrown away, and the peer starts more than `Distant` ahead. Chains of two blocks
let a payment be confirmed, be taken out and be replaced by a competing one;
the depth of three at which `AddSupportingTransactions` stops copying parents is
not reached. Four keys are a default key, a key of the old pool, one of the new
one and a hybrid one. A tried bucket of one and new buckets of two make every
eviction happen. `Stall` (two minutes) is below the limit of five minutes that
the pings are judged by, as it must be for the property to hold. Scripts of
conditionals alone are tried to length 7, three levels of nesting; the others
to length 3, deep stacks to 7. The heights of `Economy` are the real ones. In
`Accounts` at most one transaction is locked, and the clock stands before or after
its lock. A key pool of two with one more key to make (`PoolSize` 1, `MaxKeys` 3) is drained,
topped up and written over with three users and the addresses taken; a second
thread of the miner would do what `getwork` does and is left to the proof.
The coins of `CoinSelect` are sized so that four hybrid ones reach the wallet's limit of a
fifth of `MaxBlockSizeGen`, and three the relay fee's first kilobyte (4 here); the raise of
`GetMinFee` for half a block lies above the wallet's limit, here and in the code.

Runs that end in a violation, one finding each:

| Run | Property | What happens |
|---|---|---|
| `postponed_failure` | `TipAgrees` | a checkpoint has set the tip back; a postponed block fails to connect, `SetBestChain` only leaves its loop and names the new block as best, though it was not connected (`main.cpp:1946`) |
| `rewrite_stopped` | `PlaintextGone` | a stop after the encryption commit and before the renames: recovery removes the compacted copy and keeps the environment with the clear keys (`db.cpp:1604`) |
| `nested_handle` | `HandlesDrain` | a backup from the GUI and `getaccountaddress`, or `EncryptWallet` and `GetAllReserveKeys`, wait for each other (`db.cpp:2163`) |
| `reserved_key` | `ReservedKeyValid` | a refilled pool starts at index 1 again; an open reservation erases a record of the new pool and a later one fails the assertion of `GetReservedKey` (`wallet.cpp:2791`) |
| `start_interrupted` | `ChainKept` | a request to stop during the scan of the index leaves it empty; the start takes the node for a new one and writes the genesis block as the best chain (`db.cpp:2871`) |

## Fairness

- `ChainState`: weak fairness of `Step`. A handler holds `cs_main`, waits for
  nobody and loops over finitely many blocks. A node that is down is started
  again. Nothing forces blocks, checkpoints or crashes.
- `LmdbEnv`: weak fairness of each thread's progress through a transaction it
  has begun, since transactions are scoped objects in straight-line code; strong
  fairness of `Drained`, because `mutexEnv` is taken for moments only by calls
  that come at the pace of RPC requests. Nothing forces a thread to start.
- `WalletHandles`: strong fairness of each thread: a lock that is given back
  again and again is got by everyone who waits. None on calls or shutdown.
- `Shutdown`: weak fairness of each thread. None on clients: `ShutdownEnds`
  excepts one that keeps its connection open and silent.
- `BlockSync`: weak fairness of the message threads at both ends, of the
  delivery on a connection that lasts and of time. None on mining, none on
  disconnects.
- All the others have safety properties only.

## Proofs

Every theorem is for all values of the constants: any tree of blocks, any
number of threads, peers, connections and crashes, any payloads, alerts, keys
and passphrases.

| Module | Theorem | Says |
|---|---|---|
| `ChainStateProofs` | `TypeCorrect` | every variable has its type |
| | `IndexConsistency` | `IndexAgrees`: block index in memory = on disk between handlers |
| | `LinkConsistency` | `LinksAgree`: `pnext` = `hashNext` between handlers |
| | `CompleteRecords` | `DiskIndexComplete`: a restart never meets a record without its predecessor |
| | `CheckpointIndexed` | `SyncCheckpointIndexed` |
| | `CheckpointsForward` | `CheckpointMonotone` |
| | `CheckpointStays` | `CheckpointKept`, for a strict node past its download |
| | `MemoryFollowsDisk` | `MemoryIsDisk`: index, links and tip, through batches |
| | `LinksFollowChain` | `MainChainLinks` |
| | `DurableSteps` | `LedgerRefined`: the node implements `Ledger` |
| `LmdbEnvProofs` | `EnvTypeCorrect`, `SafeGrowth` | types; `GrowthSafe` |
| `BlockSyncProofs` | `SyncTypeCorrect`, `OrphansConnect` | types; `NoStuckOrphan` |
| `ConnectionsProofs` | `ConnTypeCorrect`, `NodesStayAccounted` | types; `NodesAccounted` |
| `StorageProofs` | `QuietStorage` | `QuietWhenClosed`: copied and closed alone |
| | `FilesSafe` | `FilesRecoverable`: commits survive migrations, rewrites, stops and failing calls |
| `NetworkProofs` | `MessagesArriveWhole` | `StreamIntact`: whole messages, in order, once |
| | `PingsTellSilence` | `PingsDecide` |
| | `AlertsStandTogether` | `AlertsStand` |
| | `MajorityTellsTime` | `TimeFollowsMajority` |
| | `StartsCompose` | `StartsAgain`: what a start leaves, the next one can load |
| | `KeysPayOnce` | `MiningSound`: a key of the pool is paid once, unless a refill wrote over a reserved record |
| `WalletProofs` | `OwedKeysRecoverable` | `KeysRecoverable`: what was handed out is on disk and can be opened |
| | `WalletAlwaysLoads` | `WalletLoads` |
| | `HybridAddressIssuedOnce` | `IssuedOnce` |
| | `ViewKeepsUp` | `ViewFollows`: lists and tables show the wallet once the queue is empty |

### Assumptions

`TreeAssumption` and `BranchAssumption`: blocks form a tree rooted in the
genesis block, `Branch` holds the ancestors, work grows along a branch.
`EnvAssumption`: a positive map size that is at most the largest one, finitely
many threads. `ConnAssumption`: finitely many connecting threads and slots.
`ShutdownAssumption`, `HandlesAssumption`: finitely many clients and threads.
`StreamAssumption`: a payload is data, at most MAX_SIZE of it. It makes what a
message start says true; the bytes that come in front of a message are those of
`Garbage`, and a stray message start among them loses the message.
`AlertsAssumption`: times are below INT_MAX, and a `final` alert, which is the
prescribed one, applies to this version. `KeepAssumption`: a peer that answers
does so within a minute, before the next ping is due, and the message thread is
late by at most four minutes, one less than the limit pings are judged by.
`KeysAssumption`: sizes are natural numbers and "none" is not a passphrase.
`ViewAssumption`: no transaction is an address. `TimeAssumption`: offsets are
integers, and an hour is no more than INT64_MAX. `ConfigAssumption`,
`SyncAssumption`, `BackendAssumption` and `StartAssumption`: types of the other
constants. TLC evaluates all of them, since the modules of the runs extend these
modules or repeat them as assumptions of their own.

Some theorems hold of some configurations only and name them:

- `NoSurprises` (`MemoryFollowsDisk`, `LinksFollowChain`, `DurableSteps`): no
  checkpoint comes from the master and no stored block fails its checks when
  they are repeated. With them the tip part of `MemoryIsDisk` is false
  (`postponed_failure`), and a checkpoint moves the tip to a block of less work,
  which `Ledger` excludes.
- `Guarded` (`CheckpointStays`): `-cppolicy=strict`, the default, past the
  initial download. `AcceptBlock` refuses a block that fails `CheckSync` in no
  other case (`main.cpp:2543-2550`).
- `~UnusableCopies` (`FilesSafe`): what `mdb_env_copy2` wrote without an error
  opens. Recovery prefers the copy without opening it (`db.cpp:1597`), so that
  with `TRUE` TLC finds `FilesRecoverable` violated.
- `DaemonModes` within `{FALSE}` (`StartsCompose`): no `-daemon`. The lock on
  the data directory is taken before the fork (`init.cpp:635-653`) and the child
  does not hold it, so two processes may write the index at once.

### Arguments

`ChainStateProofs`. None of the properties is inductive: between handlers
memory and disk agree only because of how far apart they are within one. `Inv`
adds three parts to the type invariant and `DiskIndexComplete`. `PathInv`: while
a switch runs, `goal` is on the branch of `cand` and `at` is on the way from the
old tip down or to the goal up. `AheadInv`: what memory and the open transaction
have that the disk does not, for each `pc` (only the candidate's entry before
the commit; the links of the transaction are those of the disk relinked from
the old tip to `at`). `CheckpointInv`: a checkpoint that is enforced descends
from the current one. The proof has one lemma per action. The central facts are
on `Relink`: one block down or up changes the transaction's links as relinking
to that block does, so at the commit the links set in memory in one go are the
links that were written one by one. They rest on the lemmas about trees: induction
along a branch (from a least-element argument on work), branches are closed and
linear, `Prev` is injective on a branch, and the first block on the way to a
descendant exists and is unique.

`CheckpointStays` adds `TipInv` (the tip on disk is an ancestor of the tip in
memory or equal to it, and links on disk stay within the branch of its tip) and
`HoldInv` (a block that the best chain is about to move to has the checkpoint on
its branch, and one about to become the checkpoint is on the best chain). A
stronger property, that the checkpoint is on the best chain whenever no handler
runs, does not hold: after a postponed connect has failed, a checkpoint for the
tip in memory, which was never connected, is accepted and written, and the next
start goes back to the tip on disk below it; a start may also go back below a
stored block that fails its checks. `CheckpointKept` excepts a start for that
reason and nothing else.

For `ImportBatch` it adds `ChainInv` (links and coins on disk are those of the
branch of its tip, and no record has more work), `DirectInv` (a switch then
goes straight to the block that arrived: nothing is ever postponed, since every
heavier block has been the tip) and `BatchInv` (an open batch's transaction has
what memory has, and disk plus the batch's blocks). Where no batch is open,
the steps are `ChainState`'s and `Inv` carries over; an open batch needs
its own version, since memory is then ahead of the disk between two blocks. A step
refines `Ledger` because `disk` changes at commits only, and what a commit writes
is in `ChainInv`'s form again.

`LmdbEnvProofs`. `GateInv`: `nActiveTxns` counts the leases, and the one who
resizes has seen it at zero with the gate closed. `SlotInv`, `LockInv`,
`LiveInv`: who holds the writer slot and `mutexEnv` at each point, and that each
transaction alive is under a lease or under `mutexEnv`. `DataInv`: what the
caller asked for is `mutations` replayed on what is committed. It survives
the wait for the others because the thread that waits keeps the writer slot, so
that nobody commits.

`BlockSyncProofs`. Handlers are functions on a record of the node; each is shown
to keep `GoodNode`, in which no orphan's parent is held. `AcceptWithOrphans`
takes all the orphans above a block as far as they follow each other, so the
next one left has a gap below it. The invariant also types the messages in both
sockets.

`ConnectionsProofs`. `RefsInv` is stronger than `RefsCounted`: a leaked reference
makes a count too high and never too low, which is why a node whose count has
come to zero is in no copy. `OpenersInv`: the node that a connecting thread is
about to mark is listed or held, so the socket thread does not delete it. Slots
are cardinalities of two sets, and each step moves at most one element of them,
but for the socket thread's pass over the list.

`StorageProofs`. `StopInv`: each counter of running threads is the number of those
at work (a handler counts from before its thread starts to its last step), and
at each stage of `Shutdown` the ones it has waited for are gone and cannot come
back. `HandlesInv`: a thread is at a position of its script and holds the handles
and locks that a table of the scripts (`HeldBefore`) gives for it; whoever is at
an operation that must be alone has the lifecycle lock and has seen no handle
open, and none can be opened since. `FilesInv` says, for each phase of a migration,
an encryption or a rewrite, which directory has the records and what the marker
must be (`BackendInv`, `PlainInv`, `EncryptedInv`, `RewriteInv`), so that a stop
there leaves a pair the next start resolves.

`NetworkProofs`. `StreamInv`: the receiver's buffer followed by the sender's is
what is left of the stream; the messages not yet handled stand in it whole, in
their order, at some places, and a start anywhere else is one `ProcessMessages`
skips or refuses. Cutting moves the border between the buffers and nothing else.
`PingsInv` bounds how far the last poll, the last ping and the last pong lie
apart, for a peer that answers (`AnswerInv`) and for any (`PongInv`).
`AlertsInv`: every kept alert with the reserved id has the prescribed form, beside
`AlertsCurrent`, which is inductive. `TimeInv`: the filter holds our own zero
and one sample of each peer that counted, and the offset was right when it was
last set and stays right for the majority there is now; since an odd number of
samples of which less than half are wrong has a right one at its middle rank,
so is the next. `StartInv`: heights on disk have no gaps, a process past the
lock holds it, and what it has in memory at each step is what is on disk, or a
part of it if it was asked to stop. `MinerInv`: until a refill writes over a record, each
key is in one place only (`Apart`): the pool, one user's reservation or
templates, the mined blocks, or not made yet; and a reservation names its own
record. The default key is outside of it.

`WalletProofs`. `KeysInv` relates disk (`KeyDisk`, `HybridDisk`), memory (`KeyMem`,
`HybridMem`) and what was given out (`Handed`, `Offered`), for each point between
two database transactions of a command. The reverse index of hybrid keys needs
`IndexMem`: since it was built the two maps it was built from have only grown,
so that equal sizes mean equal maps, which is what the code relies on. `ViewInv`
explains the queue: the last waiting notification of a transaction says whether
the wallet has it, and without one the list is right (`TxTold`); the address
table is an earlier state of the address book from which the waiting
notifications lead to the present one (`BookTold`).

### Only model-checked

- The liveness properties `HandlersEnd`, `WaitsEnd`, `Downloads` and
  `TipFollowed`: beyond the prover.
- `ScriptsRunRight`, `SignaturesCombine`, `TemplateConnects`, `SupplyAndTarget`,
  `CreatedAccepted`, `CodesInverse` and `HashesRight` of `MCRules`: these compare
  recursive computations with their definitions, and what a recursive
  definition computes cannot be proved here.
- `PaymentsAgree`, `CoinsMarked` and `AccountsAddUp` of `MCWallet`, and
  `TablesAgree` and `TriedKept` of `MCNetwork`: their actions are built from
  folds over sequences and sums over sets, and proofs about them would need
  induction over data.

The other way round, TLC checks the properties and not the whole inductive
invariants: `StreamInv` and `ViewInv` claim that places and histories exist,
over sets that cannot be listed.

## Seen while modelling

Behaviour worth knowing that no run is about.

Storage and start:

- A first start stopped between the marker and the first record is refused for
  ever after (`db.cpp:1716`, `1635`); a migration stopped after its `mkdir` is
  not tried again (`db.cpp:508`). No record is at risk; a file has to be
  removed by hand.
- `RecoverInterruptedWalletRewrite` prefers the compacted copy without opening it
  (`db.cpp:1597`); with `UnusableCopies = TRUE` `BackendFiles` shows that an
  unusable copy then replaces the good environment.
- The checkpoint key is committed before the checkpoint is reset
  (`main.cpp:2946-2954`): a crash between them keeps the checkpoint of the old
  release for good. The lock on the data directory is taken before the daemon's
  fork (`init.cpp:635-653`).
- An idle keep-alive RPC client keeps `StopNode` waiting.
- `BackupWalletDB` under Berkeley DB erases `mapFileUseCount.end()` if the file
  was never opened (`db.cpp:2337`). `CDB::Rewrite` ignores `pszSkip` under LMDB
  while `LoadWallet` clears `setKeyPool` (`db.cpp:2387`).

Chain and pool:

- The getblocks loop has stepped to the best block when the limit is reached,
  so that a node exactly one block more than the limit behind is not told of it
  (`main.cpp:3654`). `mapOrphanBlocks` has no limit (`main.cpp:2666`).
- `mapOrphanTransactionsByPrev[...]` leaves empty entries; an orphan whose parent
  comes in a block stays until it is evicted or sent again; the pool keeps
  transactions that conflict with a connected block.
- `FetchInputs` reads a parent that is only staged in the template from disk, so
  that a pool transaction that spends another one never enters the same
  template (`main.cpp:1304-1380`, against the comment at `main.cpp:4530`). A
  `COrphan` popped from `vOrphan` stays in `mapDependers`.
- `UpdateTime` steps to the median plus one, `AcceptBlock` asks for more.
- `GetMoneySupply` on the test network leaves out the genesis block before
  `nTestnetForkOne`, and stops growing at its last stretch.
- The FastKDF of the fast build always writes 256 bytes, so extended profiles
  with `r` other than 2 differ from the reference form.

Wallet:

- After a reorganisation that fails, the wallet keeps the hash of a block that
  was never connected and no start rescans it. `SyncWithWallets` ignores the
  result of `AddToWallet`. A parent added after its child gets no spent flags
  until the next start.
- A payment is recorded and then refused by the pool when its coin is the change
  of a payment that lost to a competing spend (`wallet.cpp:2097-2099`).
- `EnsureHybridKey` always fails for a key that is stored already
  (`WriteKey` does not overwrite), so `-minehybrid` cannot make a template
  (`main.cpp:4350`). The used state of hybrid keys is lost on export and import.
- After a change of passphrase on an unlocked wallet `mapHybridKeys` is empty
  while the wallet counts as unlocked, and `DumpHybridKeys` omits those keys.
  `ChangeWalletPassphrase` ignores the result of `WriteMasterKey`. A `TxnBegin`
  that fails in `EncryptWallet` leaves a master key that is not stored.
- `walletlock` and `ThreadCleanWalletPassphrase` take `cs_nWalletUnlockTime` and
  the locks of the wallet in opposite orders (`rpcwallet.cpp:1352`).
- `TopUpKeyPool` starts after the largest index that is free, so with indices
  out on reservation it writes over their records (`wallet.cpp:2527`): a block may
  then pay a key the pool gives out again, and returning or keeping that
  reservation meets the new record, as in `reserved_key`. An empty pool makes
  all blocks pay the default key (`wallet.cpp:2788`).
- A key of the pool that an earlier round of `CreateTransaction` reserved stays
  reserved when a later one takes hybrid change, and the commit keeps it unused
  (`wallet.cpp:1911-1922`).
- `getbalance` and `getbalance "*"` differ while a coin base is immature
  (`rpcwallet.cpp:576`); both leave out transactions that are not final, which
  `listaccounts` and `listtransactions` count (`rpcwallet.cpp:531`, `1137`); `GetAccountAddresses` (`rpcwallet.cpp:473`) fills
  nothing, so `getreceivedbyaccount` is always zero; `sendmany` reads its first
  parameter as two types and always throws. Coin control admits outputs that
  are not spendable.
- Classic multisignature signing drops partial signatures (`script.cpp:2326-2366`);
  `IsMine` and `SignHybridTx` look a hybrid key up by its ECDSA half only; a
  script hash nested in a script hash counts as spendable and cannot be signed.
- Changes between the first refresh of a table and `subscribeToCoreSignals` are
  missed until the next start.

Network:

- `addnode onetry` keeps a reference for ever (`net.cpp:744`), as does a second
  opener of the same address (`net.cpp:528`); an inbound connection over the
  limit from an added address is neither closed nor used (`net.cpp:883-889`).
- `SelectTried` does not pick the least recently tried entry
  (`addrman.cpp:130-152`).
- A peer that relays an alert its receiver holds the cancellation of is
  penalised (`main.cpp:3905`). Only the form of an alert with the reserved id is
  prescribed: a signed alert may still cancel it. Alerts relayed before the
  version exchange are lost to that peer. A stray message start in front of a
  message loses it.
- A peer that answers is dropped when `SendMessages` is late by more than the
  limit (`main.cpp:4095`).
- The two sources of time share one warning, so that one clears the other's; at
  200 samples the offset stops following (`util.cpp:1260`).

## Not modelled

- Name lookup, proxies and the IRC bootstrap: input and output.
- Keys, ciphers and hashes of OpenSSL and of the ML-DSA library: ideal values in
  the models. The assembler version of NeoScrypt: the portable code is modelled.
- HTTP and JSON of the RPC server, and commands that only format; the commands
  that change state are actions of the modules they reach.
- Berkeley DB's log and recovery, LMDB's pages: external.
- Qt forms, dialogs and styles: presentation.
- In modelled components: opening and verifying an LMDB environment, salvage of
  a wallet, the message signing of the hybrid scheme, standardness and rate
  limits of the pool, parsing of options.

## Plan

What is left:

1. Theorems about `PaymentsAgree` of `WalletTx` and the tables of `AddrMan`, as far
   as their folds can be written as functions of a set.
2. Larger instances of `Connections` (two peers) and `WalletKeys` (two faults).
3. The life cycle of an LMDB environment around `LmdbEnv`, and the pool's own
   rules (fees, standardness, rate limit) between `Validation` and `WalletTx`.
