----------------------------- MODULE CoinSelect -----------------------------
(***************************************************************************)
(* How the wallet puts a payment together: the choice of coins, the change *)
(* and the loop that raises the fee until it is enough (SendMoney,         *)
(* CreateTransaction, SelectCoins, SelectCoinsMinConf).                    *)
(*                                                                         *)
(* The coins are a function from names to [value, depth, mine, spendable,  *)
(* hybrid]: every one is unspent, confirmed in the wallet's sense and at   *)
(* least as large as nMinimumInputValue.                                   *)
(***************************************************************************)
EXTENDS Validation, FiniteSetsExt

CONSTANTS
  Purses,        \* the wallets to try: a set of such functions
  Payments,      \* the amounts to try
  TxFees,        \* the values of nTransactionFee to try
  Cent,          \* CENT
  FreeThreshold, \* AllowFree: priority per byte above which a payment is free
  InputSize, HybridInputSize, OutputSize  \* serialized lengths

VARIABLES
  purse, payment, txFee,
  picked,     \* coin control: the coins the user selected, {} for none
  custom,     \* coin control: the user gave an address for the change
  feeRet,     \* nFeeRet
  created,    \* the transaction: [vin, vout, change]; change is its index or 0
  changeTo,   \* whose key the change pays: "none", "custom", "hybrid", "pool", "default"
  reserved,   \* CReserveKey holds a key of the pool
  sending     \* "asked", "loop", "created", "refused"

coinVars ==
  <<purse, payment, txFee, picked, custom, feeRet, created, changeTo, reserved, sending>>

NoTx == [vin |-> {}, vout |-> <<>>, change |-> 0]

CoinInit ==
  /\ purse \in Purses /\ payment \in Payments /\ txFee \in TxFees
  /\ picked \in {{}} \union {s \in SUBSET DOMAIN purse: Cardinality(s) > 1}
  /\ custom \in BOOLEAN
  /\ feeRet = 0 /\ created = NoTx /\ changeTo = "none" /\ reserved = FALSE /\ sending = "asked"

Worth(coins) == FoldSet(LAMBDA c, a: a + purse[c].value, 0, coins)

Lowest(coins) == {c \in coins: \A d \in coins: purse[c].value <= purse[d].value}

----------------------------------------------------------------------------
(* The choice of coins, as the set of outcomes the shuffles and the random *)
(* bits allow.                                                             *)

\* The values are tried in descending order and a subset is recorded as soon
\* as a coin brings it to the target, so without its smallest coin it misses.
ApproximateBestSubset(coins, target) ==
  {s \in SUBSET coins: Worth(s) >= target /\ \E c \in Lowest(s): Worth(s \ {c}) < target}

SelectCoinsMinConf(target, confMine, confTheirs) ==
  LET usable == {c \in DOMAIN purse: /\ purse[c].spendable
                                     /\ purse[c].depth >= IF purse[c].mine THEN confMine ELSE confTheirs}
      exact  == {c \in usable: purse[c].value = target}
      lower  == {c \in usable \ exact: purse[c].value < target + Cent}
      larger == Lowest((usable \ exact) \ lower)
      near   == ApproximateBestSubset(lower, target)
      second == Worth(lower) >= target + Cent
      best   == {s \in near: Worth(s) = target \/ ~second}
                  \union (IF second /\ \E s \in near: Worth(s) # target
                          THEN ApproximateBestSubset(lower, target + Cent) ELSE {})
      bigger(s) == /\ larger # {}
                   /\ \/ Worth(s) # target /\ Worth(s) < target + Cent
                      \/ \E c \in larger: purse[c].value <= Worth(s)
  IN IF exact # {} THEN {{c}: c \in exact}
     ELSE IF Worth(lower) = target THEN {lower}
     ELSE IF Worth(lower) < target THEN {{c}: c \in larger}
     ELSE {s \in best: ~bigger(s)} \union (IF \E s \in best: bigger(s) THEN {{c}: c \in larger} ELSE {})

FirstOf(choices) == IF \E i \in DOMAIN choices: choices[i] # {}
                    THEN choices[Min({i \in DOMAIN choices: choices[i] # {}})] ELSE {}

\* With coin control every selected coin goes in, spendable or not.
SelectCoins(target) ==
  IF picked # {} THEN (IF Worth(picked) >= target THEN {picked} ELSE {})
  ELSE FirstOf(<<SelectCoinsMinConf(target, 1, 6), SelectCoinsMinConf(target, 1, 1),
                 SelectCoinsMinConf(target, 0, 1)>>)

----------------------------------------------------------------------------
(* The loop.                                                               *)

SizeOf(vin, vout) ==
  1 + FoldSet(LAMBDA c, a: a + IF purse[c].hybrid THEN HybridInputSize ELSE InputSize, 0, vin)
    + Len(vout) * OutputSize

Priority(vin) == FoldSet(LAMBDA c, a: a + purse[c].value * purse[c].depth, 0, vin)

AllowFree(vin, bytes) == Priority(vin) > FreeThreshold * bytes

\* What the wallet asks of itself without the network's minimum.
FeeOfUser(vin, vout, bytes) == txFee * (1 + bytes \div Kilobyte)

FeeNeeded(vin, vout, bytes) ==
  LET payFee == txFee * (1 + bytes \div Kilobyte)
      minFee == GetMinFee(vout, bytes, AllowFree(vin, bytes), "send")
  IN IF payFee > minFee THEN payFee ELSE minFee

\* Change below TX_DUST goes to the fee; the change output is put before an
\* output at random, and never last.
Outputs(change) ==
  IF change >= TxDust THEN <<change, payment>> ELSE <<payment>>

\* Where the change goes when there is any.  A hybrid input asks for a hybrid
\* address, and the payment is refused when none can be had.  A key reserved in
\* an earlier round stays; an empty pool gives the default key and reserves none.
ChangeTo(vin, change) ==
  IF change < TxDust THEN {"none"}
  ELSE IF custom THEN {"custom"}
  ELSE IF \E c \in vin: purse[c].hybrid THEN {"hybrid", "refused"}
  ELSE IF reserved THEN {"pool"} ELSE {"pool", "default"}

\* ReturnKey gives the reserved key back.
Reserved(to) == to = "pool" \/ (reserved /\ to \notin {"none", "custom"})

\* SendMoneyToDestination and SendMoney, up to CreateTransaction.
Ask ==
  /\ sending = "asked"
  /\ IF payment <= 0 \/ payment + txFee > Worth(DOMAIN purse)
     THEN sending' = "refused" /\ UNCHANGED feeRet
     ELSE sending' = "loop" /\ feeRet' = txFee
  /\ UNCHANGED <<purse, payment, txFee, picked, custom, created, changeTo, reserved>>

\* No choice of coins is enough, or no hybrid key is left for the change.
NoCoins ==
  /\ sending = "loop"
  /\ \/ SelectCoins(payment + feeRet) = {}
     \/ \E vin \in SelectCoins(payment + feeRet):
          "refused" \in ChangeTo(vin, Worth(vin) - payment - feeRet)
  /\ sending' = "refused"
  /\ UNCHANGED <<purse, payment, txFee, picked, custom, feeRet, created, changeTo, reserved>>

Attempt ==
  /\ sending = "loop"
  /\ \E vin \in SelectCoins(payment + feeRet):
       LET change == Worth(vin) - payment - feeRet
           vout   == Outputs(change)
           fee    == IF change >= TxDust THEN feeRet ELSE feeRet + change
           bytes  == SizeOf(vin, vout)
           needed == FeeNeeded(vin, vout, bytes)
       IN /\ created' = [vin |-> vin, vout |-> vout, change |-> IF Len(vout) = 2 THEN 1 ELSE 0]
          /\ changeTo' \in ChangeTo(vin, change) \ {"refused"} /\ reserved' = Reserved(changeTo')
          /\ \/ /\ (\E c \in vin: ~purse[c].spendable) \/ bytes >= MaxBlockSizeGen \div 5
                /\ sending' = "refused" /\ feeRet' = fee
             \/ /\ (\A c \in vin: purse[c].spendable) /\ bytes < MaxBlockSizeGen \div 5
                /\ IF fee >= needed
                   THEN sending' = "created" /\ feeRet' = fee
                   ELSE feeRet' = needed /\ UNCHANGED sending
  /\ UNCHANGED <<purse, payment, txFee, picked, custom>>

CoinNext == Ask \/ NoCoins \/ Attempt

CoinSpec == CoinInit /\ [][CoinNext]_coinVars

----------------------------------------------------------------------------
\* A transaction that CreateTransaction hands out spends exactly what it pays
\* with the fee the user is shown, has no change below TX_DUST, keeps the fee
\* rate of the user, and pays what CTxMemPool::accept asks for
\* (main.cpp:644), so that CommitTransaction, which has recorded it by then,
\* is not left with a payment nobody relays (wallet.cpp:2101, "This must not
\* fail").  The change pays the key that is reserved, which the commit keeps,
\* and no key stays reserved for a payment without change or with change to
\* another address; only hybrid change may leave a key of an earlier round
\* reserved.  Selection, change and fee depend on each other round after round.
CreatedAccepted ==
  sending = "created" =>
    LET bytes == SizeOf(created.vin, created.vout)
    IN /\ Worth(created.vin) = Total(created.vout) + feeRet
       /\ created.change # 0 => created.vout[created.change] >= TxDust
       /\ created.change = 0 <=> changeTo = "none"
       /\ (changeTo = "pool" => reserved) /\ (reserved => changeTo \in {"pool", "hybrid"})
       /\ feeRet >= GetMinFee(created.vout, bytes, TRUE, "relay")
       /\ feeRet >= FeeOfUser(created.vin, created.vout, bytes)
=============================================================================
