------------------------------ MODULE Accounts ------------------------------
(***************************************************************************)
(* Accounts of the wallet as the RPC calls see them: the address book, the *)
(* amounts a wallet transaction credits and debits, move entries, balances *)
(* per account and in total, and the order of transactions and entries.    *)
(*                                                                         *)
(* A wallet transaction is [ins, outs, from, depth, coinbase, lockTime,    *)
(* pos]; an output is [to, value, change] and pays address 0 when it is    *)
(* not ours.  A lock time of 0 also stands for one that the sequence       *)
(* numbers of all inputs switch off.                                       *)
(* Every call commits its records in one batch or leaves the disk as it    *)
(* was; a crash brings memory back to the disk.                            *)
(***************************************************************************)
EXTENDS Integers, Sequences, FiniteSets, FiniteSetsExt, SequencesExt

CONSTANTS
  AccountNames,    \* including ""
  MaxAddresses,    \* bound: keys taken from the pool
  MaxTxs, MaxMoves,\* bounds
  Maturity,        \* confirmations before a coin base may be spent
  MaxTime          \* bound: the latest time

AccountsAssumption == "" \in AccountNames /\ Maturity > 1 /\ MaxTime \in Nat \ {0}

VARIABLES
  book,       \* mapAddressBook: [addresses of ours that are in it -> account]
  used,       \* number of addresses of ours taken so far
  current,    \* CAccount records: the address an account hands out
  wallet,     \* mapWallet, a sequence
  entries,    \* accounting entries [account, amount, pos]
  nextPos,    \* nOrderPosNext
  diskNext,   \* its record
  adjusted    \* what GetAdjustedTime returns

accountVars == <<book, used, current, wallet, entries, nextPos, diskNext, adjusted>>

Addresses == 1 .. used

AccountsInit ==
  /\ book = << >> /\ used = 0 /\ current = [a \in AccountNames |-> 0]
  /\ wallet = <<>> /\ entries = <<>> /\ nextPos = 0 /\ diskNext = 0
  /\ adjusted = 1

Values(outs) == FoldLeft(LAMBDA a, o: a + o.value, 0, outs)

----------------------------------------------------------------------------
(* Amounts of one transaction.                                             *)

\* The lock time has passed by our clock: a transaction in a block need not
\* be final here, as the time of the block may be ahead of ours.
IsFinal(t) == t.lockTime = 0 \/ t.lockTime < adjusted

FinalOnes == SelectSeq(wallet, IsFinal)

Output(o) == wallet[o[1]].outs[o[2]]

IsMine(out) == out.to # 0

GetDebit(t) ==
  FoldSet(LAMBDA o, a: a + (IF IsMine(Output(o)) THEN Output(o).value ELSE 0), 0, t.ins)

GetAmounts(t) ==
  LET debit == GetDebit(t)
      shown == SelectSeq(t.outs, LAMBDA o: ~(debit > 0 /\ o.change))
  IN [received |-> SelectSeq(shown, IsMine),
      sent     |-> IF debit > 0 THEN shown ELSE <<>>,
      fee      |-> IF debit > 0 THEN debit - Values(t.outs) ELSE 0]

\* An address that is in no account of the book counts for no account.
AccountOfNone(out) == IF out.to \in DOMAIN book THEN book[out.to] ELSE "none"

AccountOf(out) == IF out.to \in DOMAIN book THEN book[out.to] ELSE ""

GetAccountAmounts(t, account) ==
  LET all == GetAmounts(t)
  IN [received |-> Values(SelectSeq(all.received, LAMBDA o: AccountOf(o) = account)),
      sent     |-> IF t.from = account THEN Values(all.sent) ELSE 0,
      fee      |-> IF t.from = account THEN all.fee ELSE 0]

GetAccountCreditDebit(account) ==
  FoldLeft(LAMBDA a, e: a + (IF e.account = account THEN e.amount ELSE 0), 0, entries)

\* Transactions that are not final are skipped here and in the total, and
\* counted by listaccounts and the lists of transactions.
GetAccountBalance(account, minDepth) ==
  LET part(t) == LET x == GetAccountAmounts(t, account)
                 IN (IF t.depth >= minDepth THEN x.received ELSE 0) - x.sent - x.fee
  IN FoldLeft(LAMBDA a, t: a + part(t), 0, FinalOnes) + GetAccountCreditDebit(account)

\* getbalance '*': the total, counted the way accounts are.
BalanceOfAll(minDepth) ==
  LET part(t) == LET x == GetAmounts(t)
                 IN (IF t.depth >= minDepth THEN Values(x.received) ELSE 0) - Values(x.sent) - x.fee
  IN FoldLeft(LAMBDA a, t: a + part(t), 0, FinalOnes)

\* listaccounts goes through the transactions once for all accounts.
Tally(balances, account, value) == [balances EXCEPT ![account] = @ + value]

ListAccounts(minDepth) ==
  LET one(b, t) ==
        LET x    == GetAmounts(t)
            paid == Tally(b, t.from, -x.fee - Values(x.sent))
        IN IF t.depth < minDepth THEN paid
           ELSE FoldLeft(LAMBDA c, o: Tally(c, AccountOf(o), o.value), paid, x.received)
  IN FoldLeft(LAMBDA b, e: Tally(b, e.account, e.amount),
              FoldLeft(one, [a \in AccountNames |-> 0], wallet), entries)

\* The items of one transaction for one account; every payment repeats the fee.
ListTransactions(t, account, minDepth) ==
  LET x    == GetAmounts(t)
      kind == IF ~t.coinbase THEN "receive" ELSE IF t.depth < 1 THEN "orphan"
              ELSE IF t.depth < Maturity THEN "immature" ELSE "generate"
      sent == IF t.from = account THEN x.sent ELSE <<>>
      got  == IF t.depth >= minDepth
              THEN SelectSeq(x.received, LAMBDA o: AccountOf(o) = account) ELSE <<>>
  IN [i \in DOMAIN sent |-> [category |-> "send", amount |-> -sent[i].value, fee |-> x.fee]]
     \o [i \in DOMAIN got |-> [category |-> kind, amount |-> got[i].value, fee |-> 0]]

----------------------------------------------------------------------------
(* Coins.                                                                  *)

Spent == UNION {wallet[i].ins: i \in DOMAIN wallet}

Outpoints == UNION {{<<i, n>>: n \in DOMAIN wallet[i].outs}: i \in DOMAIN wallet}

\* A transaction of ours counts before it is in a block when all it spends
\* does; the depth of an input's transaction is never the larger one here.
IsConfirmed(i) ==
  LET confirmed[n \in DOMAIN wallet] ==
        /\ IsFinal(wallet[n])
        /\ \/ wallet[n].depth >= 1
           \/ GetDebit(wallet[n]) > 0 /\ \A o \in wallet[n].ins: confirmed[o[1]]
  IN confirmed[i]

Mature(t) == t.coinbase => t.depth >= Maturity

AvailableCoins ==
  {o \in Outpoints \ Spent: /\ IsMine(Output(o))
                            /\ IsConfirmed(o[1]) /\ Mature(wallet[o[1]])}

\* GetBalance sums the unspent outputs of confirmed transactions.
GetBalance == FoldSet(LAMBDA o, a: a + Output(o).value, 0, AvailableCoins)

----------------------------------------------------------------------------
(* Order positions: a failed batch may leave the counter in memory ahead   *)
(* of its record, never behind.                                            *)

IncOrderPosNext(n) == nextPos' = nextPos + n /\ diskNext' = nextPos + n

AddToWallet(t) ==
  /\ Len(wallet) < MaxTxs
  /\ wallet' = Append(wallet, [pos |-> nextPos] @@ t)
  /\ IncOrderPosNext(1)

Pays(to, value) == [to |-> to, value |-> value, change |-> FALSE]

\* Payments made by others may be locked until a time; bound: one of them is.
LockTimes == IF \E i \in DOMAIN wallet: wallet[i].lockTime # 0 THEN {0} ELSE 0 .. MaxTime - 1

Receive ==
  /\ \E to \in Addresses: \E lock \in LockTimes:
       AddToWallet([ins |-> {}, outs |-> <<Pays(to, 3), Pays(0, 1)>>, from |-> "",
                    depth |-> 0, coinbase |-> FALSE, lockTime |-> lock])
  /\ UNCHANGED <<book, used, current, entries, adjusted>>

\* Another copy of the wallet spends a coin: no account is named.
SentElsewhere ==
  /\ \E o \in Outpoints \ Spent: \E lock \in LockTimes:
       /\ IsMine(Output(o)) /\ Mature(wallet[o[1]]) /\ Output(o).value >= 2
       /\ AddToWallet([ins |-> {o}, outs |-> <<Pays(0, 2)>>, from |-> "",
                       depth |-> 0, coinbase |-> FALSE, lockTime |-> lock])
  /\ UNCHANGED <<book, used, current, entries, adjusted>>

\* A mined block pays a reserved key of the pool, which is in no book.
Mine ==
  /\ used < MaxAddresses
  /\ AddToWallet([ins |-> {}, outs |-> <<Pays(used + 1, 5)>>, from |-> "",
                  depth |-> 1, coinbase |-> TRUE, lockTime |-> 0])
  /\ used' = used + 1
  /\ UNCHANGED <<book, current, entries, adjusted>>

\* sendfrom: the account is asked for its balance, the wallet for the coins.
\* A batch that fails, or a send that is refused, changes nothing.
SendFrom ==
  \E account \in AccountNames: \E to \in Addresses \union {0}: \E coins \in SUBSET AvailableCoins:
    LET in == FoldSet(LAMBDA o, a: a + Output(o).value, 0, coins)
        change == in - 3
    IN /\ coins # {} /\ change >= 0 /\ used < MaxAddresses
       /\ GetAccountBalance(account, 1) >= 2
       /\ AddToWallet([ins |-> coins, from |-> account, depth |-> 0, coinbase |-> FALSE, lockTime |-> 0,
             outs |-> IF change = 0 THEN <<Pays(to, 2)>>
                      ELSE <<[to |-> used + 1, value |-> change, change |-> TRUE], Pays(to, 2)>>])
       /\ used' = IF change = 0 THEN used ELSE used + 1
       /\ UNCHANGED <<book, current, entries, adjusted>>

\* move writes the debit and the credit in one batch.
MoveCmd ==
  \E from, to \in AccountNames:
    /\ Len(entries) < 2 * MaxMoves /\ from # to   \* bounds
    /\ \/ /\ entries' = entries \o <<[account |-> from, amount |-> -1, pos |-> nextPos],
                                      [account |-> to, amount |-> 1, pos |-> nextPos + 1]>>
          /\ IncOrderPosNext(2)
       \/ /\ nextPos = diskNext   \* bound: one failed batch at a time
          /\ nextPos' = nextPos + 2
          /\ UNCHANGED <<entries, diskNext>>
    /\ UNCHANGED <<book, used, current, wallet, adjusted>>

----------------------------------------------------------------------------
(* Addresses.                                                              *)

KeyUsed(a) == \E i \in DOMAIN wallet: \E n \in DOMAIN wallet[i].outs: wallet[i].outs[n].to = a

TakeAddress(account) ==
  /\ used < MaxAddresses
  /\ used' = used + 1
  /\ book' = [a \in DOMAIN book \union {used + 1} |-> IF a = used + 1 THEN account ELSE book[a]]

GetNewAddress ==
  /\ \E account \in AccountNames: TakeAddress(account)
  /\ UNCHANGED <<current, wallet, entries, nextPos, diskNext, adjusted>>

NeedsNew(account) == current[account] = 0 \/ KeyUsed(current[account])

GetAccountAddress ==
  /\ \E account \in AccountNames:
       /\ NeedsNew(account)
       /\ TakeAddress(account)
       /\ current' = [current EXCEPT ![account] = used + 1]
  /\ UNCHANGED <<wallet, entries, nextPos, diskNext, adjusted>>

\* An address that is the current one of its old account is replaced there.
SetAccount ==
  \E a \in DOMAIN book: \E account \in AccountNames:
    /\ LET old == book[a]
           move(b) == [x \in DOMAIN b |-> IF x = a THEN account ELSE b[x]]
       IN IF NeedsNew(old) \/ current[old] = a
          THEN /\ used < MaxAddresses
               /\ used' = used + 1 /\ current' = [current EXCEPT ![old] = used + 1]
               /\ book' = move([x \in DOMAIN book \union {used + 1} |->
                                  IF x = used + 1 THEN old ELSE book[x]])
          ELSE book' = move(book) /\ UNCHANGED <<used, current>>
    /\ UNCHANGED <<wallet, entries, nextPos, diskNext, adjusted>>

----------------------------------------------------------------------------
\* A block: depths grow, and unconfirmed transactions may be in it; a coin
\* base that was disconnected stays out.
NewBlock ==
  /\ wallet' \in {[i \in DOMAIN wallet |->
        [wallet[i] EXCEPT !.depth = IF @ >= 1 THEN (IF @ = Maturity THEN @ ELSE @ + 1)
                                    ELSE IF i \in in THEN 1 ELSE 0]]:
      in \in {s \in SUBSET {i \in DOMAIN wallet: wallet[i].depth = 0 /\ ~wallet[i].coinbase}:
                \A i \in s: \A o \in wallet[i].ins: wallet[o[1]].depth >= 1 \/ o[1] \in s}}
  /\ UNCHANGED <<book, used, current, entries, nextPos, diskNext, adjusted>>

Disconnect ==
  /\ wallet' = [i \in DOMAIN wallet |->
        [wallet[i] EXCEPT !.depth = IF @ = 0 THEN 0 ELSE @ - 1]]
  /\ UNCHANGED <<book, used, current, entries, nextPos, diskNext, adjusted>>

Crash ==
  /\ nextPos' = diskNext
  /\ UNCHANGED <<book, used, current, wallet, entries, diskNext, adjusted>>

\* The clock runs, and the offset the peers give it may set it back; bound:
\* only when a lock time is compared with it.
TimeMoves ==
  /\ \E i \in DOMAIN wallet: wallet[i].lockTime # 0
  /\ adjusted' \in 1 .. MaxTime
  /\ UNCHANGED <<book, used, current, wallet, entries, nextPos, diskNext>>

AccountsNext ==
  \/ Receive \/ SentElsewhere \/ TimeMoves \/ Mine \/ SendFrom \/ MoveCmd \/ GetNewAddress \/ GetAccountAddress
  \/ SetAccount \/ NewBlock \/ Disconnect \/ Crash

AccountsSpec == AccountsInit /\ [][AccountsNext]_accountVars

----------------------------------------------------------------------------
\* The RPC calls that walk the wallet in different ways show one state of the
\* accounts, unconfirmed payments counted or not, whoever sent a transaction,
\* whichever account an address was moved to, however blocks come and go and
\* the clock moves: the balances of the accounts add up to what getbalance '*'
\* shows (rpcwallet.cpp:523, 574); the items of listsinceblock with the moves
\* and one fee for each transaction account for listaccounts (rpcwallet.cpp:974,
\* 1118), and those of the final transactions for the balance of the account:
\* the two differ by the transactions that are not final and nothing else.
AccountsAddUp ==
  \A minDepth \in {0, Maturity}:
    LET balance == [a \in AccountNames |-> GetAccountBalance(a, minDepth)]
        listed  == ListAccounts(minDepth)
        amount(t, a) ==
          LET items == ListTransactions(t, a, minDepth)
          IN FoldLeft(LAMBDA x, i: x + i.amount, 0, items)
             - FoldLeft(LAMBDA x, i: IF i.fee > x THEN i.fee ELSE x, 0, items)
        shown == [a \in AccountNames |-> [i \in DOMAIN wallet |-> amount(wallet[i], a)]]
        Total(these, a) ==
          FoldSet(LAMBDA i, x: x + shown[a][i], 0, these) + GetAccountCreditDebit(a)
        final == {i \in DOMAIN wallet: IsFinal(wallet[i])}
    IN /\ FoldSet(LAMBDA a, sum: sum + balance[a], 0, AccountNames) = BalanceOfAll(minDepth)
       /\ \A a \in AccountNames:
            listed[a] = Total(DOMAIN wallet, a) /\ balance[a] = Total(final, a)

\* Two transactions or entries never share a position in the list
\* (IncOrderPosNext, wallet.cpp:582), also after a crash or a failed batch.
OrderDistinct ==
  LET all == [i \in DOMAIN wallet |-> wallet[i].pos] \o [i \in DOMAIN entries |-> entries[i].pos]
  IN Cardinality(ToSet(all)) = Len(all)

\* "getbalance and getbalance '*' should always return the same number"
\* (rpcwallet.cpp:575): they do once all is final, confirmed and mature.
BalancesAgree ==
  (\A i \in DOMAIN wallet: IsFinal(wallet[i]) /\ wallet[i].depth >= 1 /\ Mature(wallet[i]))
    => GetBalance = BalanceOfAll(1)
=============================================================================
