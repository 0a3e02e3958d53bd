----------------------------- MODULE Validation -----------------------------
(***************************************************************************)
(* The context-free and contextual rules for transactions and blocks of    *)
(* main.cpp: CheckTransaction, the minimum fee, FetchInputs and            *)
(* ConnectInputs, CheckBlock and the checks of ConnectBlock.               *)
(*                                                                         *)
(* A transaction is a record: vin is a sequence of outpoints <<tx, n>>,    *)
(* vout a sequence of values, size its serialized length, sigops the       *)
(* operations counted in its own scripts and redeem the ones counted in    *)
(* the redeem scripts of its inputs, final the answer of IsFinal.  Amounts *)
(* and sizes are scaled down through the constants.                        *)
(***************************************************************************)
EXTENDS Integers, Sequences, FiniteSets, SequencesExt

CONSTANTS
  MaxBlockSize, MaxBlockSizeGen, MaxBlockSigOps, MaxMoney, BaseMaturity,
  MinTxFee, MinRelayTxFee, TxDust, MaxFee, Kilobyte,
  Subsidy        \* the reward of the next block without fees

\* What the constants are expected to be; the model that uses them asserts it.
LimitsAssumption ==
  /\ MaxBlockSizeGen \in Nat /\ MaxBlockSize > MaxBlockSizeGen
  /\ MinTxFee >= MinRelayTxFee /\ MinRelayTxFee > 0 /\ Kilobyte > 0

Total(seq) == FoldLeft(LAMBDA a, b: a + b, 0, seq)

MoneyRange(v) == v \in 0 .. MaxMoney

\* A running total that leaves the range at any point is refused, not only
\* the final one: the sum itself could wrap.
SumsInRange(values) ==
  \A i \in 1 .. Len(values):
    MoneyRange(values[i]) /\ MoneyRange(Total(SubSeq(values, 1, i)))

Null == <<"null", 0>>

IsCoinBase(tx) == Len(tx.vin) = 1 /\ tx.vin[1] = Null

GetValueOut(tx) == Total(tx.vout)

NoRepeats(seq) == Cardinality(ToSet(seq)) = Len(seq)

CheckTransaction(tx) ==
  /\ tx.vin # <<>> /\ tx.vout # <<>>
  /\ tx.size <= MaxBlockSize
  /\ SumsInRange(tx.vout)
  /\ NoRepeats(tx.vin)
  /\ ~IsCoinBase(tx) => Null \notin ToSet(tx.vin)

\* The least fee of a transaction of a given size.  "send" is what the
\* wallet pays, "relay" what the memory pool asks for.
GetMinFee(vout, bytes, allowFree, mode) ==
  LET base   == IF mode = "relay" THEN MinRelayTxFee ELSE MinTxFee
      space  == IF mode = "send" THEN bytes ELSE bytes + Kilobyte
      perKb  == ((bytes + Kilobyte - 1) \div Kilobyte) * base
      capped == IF perKb > MaxFee THEN MaxFee ELSE perKb
      free   == allowFree /\ IF mode = "send" THEN bytes < 2 * Kilobyte
                                             ELSE space < 11 * Kilobyte
      dust   == Cardinality({i \in DOMAIN vout: vout[i] < TxDust}) * base
      fee    == (IF free THEN 0 ELSE capped) + dust
      raised == fee * (MaxBlockSizeGen \div (MaxBlockSizeGen - space))
  IN IF mode = "send" \/ space < MaxBlockSizeGen \div 2 THEN fee
     ELSE IF space >= MaxBlockSizeGen \/ ~MoneyRange(raised) THEN MaxMoney
     ELSE raised

\* The previous transactions as FetchInputs finds them when a block is
\* checked or mined.  Entries of the set staged are transactions of the
\* block itself; those carry a position on disk only when the block has been
\* written (written is TRUE).  The template's own transactions carry the
\* position (1,1,1), and what is read there is no previous transaction of
\* theirs.
FetchInputs(tx, index, staged, written) ==
  \A i \in DOMAIN tx.vin:
    LET prev == tx.vin[i][1] IN
      /\ prev \in DOMAIN index \union staged
      /\ prev \in staged => written

OutputsFor(tx, txs) ==
  [i \in DOMAIN tx.vin |-> txs[tx.vin[i][1]].vout[tx.vin[i][2]]]

GetValueIn(tx, txs) == IF IsCoinBase(tx) THEN 0 ELSE Total(OutputsFor(tx, txs))

\* index[t] is the height of the block of t, or the height of the block that
\* is being put together.
ConnectInputs(tx, txs, index, spent, height) ==
  /\ \A i \in DOMAIN tx.vin: tx.vin[i][2] \in DOMAIN txs[tx.vin[i][1]].vout
  /\ \A i \in DOMAIN tx.vin:
       LET prev == tx.vin[i][1] IN
         IsCoinBase(txs[prev]) /\ prev \in DOMAIN index
           => height - index[prev] >= BaseMaturity
  /\ SumsInRange(OutputsFor(tx, txs))
  /\ NoRepeats(tx.vin) /\ ToSet(tx.vin) \cap spent = {}
  /\ GetValueIn(tx, txs) >= GetValueOut(tx)

\* CheckBlock without proof of work, times and the merkle root.
CheckBlock(vtx, txs, coinbase) ==
  /\ 1 + Total([i \in DOMAIN vtx |-> txs[vtx[i]].size]) <= MaxBlockSize
  /\ CheckTransaction(coinbase)
  /\ \A i \in DOMAIN vtx: ~IsCoinBase(txs[vtx[i]]) /\ CheckTransaction(txs[vtx[i]])
  /\ NoRepeats(vtx)
  /\ coinbase.sigops + Total([i \in DOMAIN vtx |-> txs[vtx[i]].sigops]) <= MaxBlockSigOps

\* ConnectBlock, for a block at the given height whose transactions follow
\* the coin base in the order vtx.
ConnectBlock(vtx, txs, index, spent, height, coinbase, written) ==
  LET Before(i) == {vtx[j]: j \in 1 .. i - 1}
      Taken(i)  == UNION {ToSet(txs[t].vin): t \in Before(i)}
      ops(i)    == txs[vtx[i]].sigops + txs[vtx[i]].redeem
      fee(i)    == GetValueIn(txs[vtx[i]], txs) - GetValueOut(txs[vtx[i]])
  IN /\ CheckBlock(vtx, txs, coinbase)
     /\ \A i \in DOMAIN vtx:
          /\ vtx[i] \notin DOMAIN index
          /\ FetchInputs(txs[vtx[i]], index, Before(i), written)
          /\ ConnectInputs(txs[vtx[i]], txs, index, spent \union Taken(i), height)
     /\ coinbase.sigops + Total([i \in DOMAIN vtx |-> ops(i)]) <= MaxBlockSigOps
     /\ GetValueOut(coinbase) <= Subsidy + Total([i \in DOMAIN vtx |-> fee(i)])
=============================================================================
