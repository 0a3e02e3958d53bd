------------------------------ MODULE Economy ------------------------------
(***************************************************************************)
(* The block reward, the closed form of the money supply and the           *)
(* difficulty rules of main.cpp, as functions of the network and the       *)
(* height, with the heights and periods of main.h.  A coin is 8 units, so  *)
(* that every halving up to the fourth million of blocks is exact.  The    *)
(* state walks through windows of heights around the forks and halvings.   *)
(***************************************************************************)
EXTENDS Integers, Sequences

CONSTANT Windows   \* set of <<network, first, last>> with network "main" or "test"

VARIABLES net, nHeight, last

economyVars == <<net, nHeight, last>>

COIN == 8
nForkOne == 46500
nForkTwo == 69444
nForkThree == 74100
nForkFour == 154000
nForkFive == 400000
nTestnetForkOne == 600
nTestnetForkTwo == 3600
Million == 1000000

EconomyInit == \E w \in Windows: net = w[1] /\ nHeight = w[2] /\ last = w[3]

NextBlock ==
  /\ nHeight < last
  /\ nHeight' = nHeight + 1
  /\ UNCHANGED <<net, last>>

EconomySpec == EconomyInit /\ [][NextBlock]_economyVars

----------------------------------------------------------------------------
\* The fourth hard fork, which testnet takes as its first, and so on.
AfterFour(h) == h >= nForkFour \/ (net = "test" /\ h >= nTestnetForkOne)
AfterFive(h) == h >= nForkFive \/ (net = "test" /\ h >= nTestnetForkTwo)

GetProofOfWorkReward(h, fees) ==
  LET low == (h >= nForkThree /\ h < nForkFour) \/ (net = "test" /\ h < nTestnetForkOne)
  IN (((IF low THEN 25 ELSE 50) * COIN) \div 2 ^ (h \div Million)) + fees

\* Stretches of equal rewards <<first height, reward>>, as GetMoneySupply
\* lists them; the last one ends the count.
Stretches ==
  IF net = "main"
  THEN << <<0, 50 * COIN>>, <<nForkThree, 25 * COIN>>, <<nForkFour, 50 * COIN>>,
          <<Million, 25 * COIN>>, <<2 * Million, (25 * COIN) \div 2>>,
          <<3 * Million, (25 * COIN) \div 4>>, <<4 * Million, 0>> >>
  ELSE << <<0, 25 * COIN>>, <<nTestnetForkOne, 50 * COIN>>, <<Million, 25 * COIN>>,
          <<2 * Million, 0>> >>

\* A stretch that is over counts in full, the current one up to and with the
\* block itself; the first one of testnet leaves the genesis block out.
GetMoneySupplyOfOne(h) ==
  LET s == Stretches
      end(i) == IF i < Len(s) THEN s[i + 1][1] ELSE h + 1
      count(i) == IF h < s[i][1] THEN 0
                  ELSE IF h >= end(i) THEN end(i) - s[i][1]
                  ELSE h - s[i][1] + (IF i = 1 THEN 0 ELSE 1)
      Upto[i \in 0 .. Len(s)] == IF i = 0 THEN 0 ELSE Upto[i - 1] + count(i) * s[i][2]
  IN Upto[Len(s)]

GetMoneySupply(h) ==
  LET s == Stretches
      end(i) == IF i < Len(s) THEN s[i + 1][1] ELSE h + 1
      count(i) == IF h < s[i][1] THEN 0
                  ELSE IF h >= end(i) THEN end(i) - s[i][1]
                  ELSE h - s[i][1] + (IF i = 1 /\ net = "test" THEN 0 ELSE 1)
      Upto[i \in 0 .. Len(s)] == IF i = 0 THEN 0 ELSE Upto[i - 1] + count(i) * s[i][2]
  IN Upto[Len(s)]

----------------------------------------------------------------------------
(* GetNextWorkRequired.                                                    *)

\* <<spacing, blocks per period>> of the block at height h.
Target(h) ==
  CASE AfterFour(h) -> <<90, 20>>
    [] ~AfterFour(h) /\ (h >= nForkThree \/ net = "test") -> <<45, 126>>
    [] net = "main" /\ h \in nForkTwo .. nForkThree - 1 -> <<50, 108>>
    [] net = "main" /\ h \in nForkOne .. nForkTwo - 1 -> <<90, 600>>
    [] OTHER -> <<90, 2400>>

IsHardFork(h) ==
  h \in IF net = "test" THEN {nTestnetForkOne, nTestnetForkTwo}
        ELSE {nForkOne, nForkTwo, nForkThree, nForkFour, nForkFive}

\* The reset to a fixed difficulty when the hash function changes.
IsSwitch(h) == h = nForkFive

Retargets(h) == ~IsSwitch(h) /\ (h % Target(h)[2] = 0 \/ IsHardFork(h))

\* The base window in blocks and the period it is compared with.
Window(h) ==
  LET blocks == Target(h)[2] * (IF AfterFour(h) THEN 5 ELSE 1)
  IN IF blocks >= h THEN h - 1 ELSE blocks

Timespan(h) == Target(h)[1] * Target(h)[2] * (IF AfterFour(h) THEN 5 ELSE 1)

\* Both windows end at the previous block; the extended one goes on from where
\* the base one stopped.
WindowStart(h) == h - 1 - Window(h)
ExtendedStart(h) == WindowStart(h) - 4 * Window(h)

Limits(h) ==
  LET t == Timespan(h)
      low == IF AfterFour(h) THEN (t * 100) \div 102
             ELSE IF h >= nForkThree THEN (t * 100) \div 109
             ELSE IF h >= nForkOne THEN (t * 55) \div 99 ELSE t \div 4
      high == IF AfterFive(h) THEN (t * 105) \div 100
              ELSE IF AfterFour(h) THEN (t * 102) \div 100
              ELSE IF h >= nForkThree THEN (t * 109) \div 100
              ELSE IF h >= nForkOne THEN (t * 99) \div 55 ELSE t * 4
  IN <<low, high>>

\* The measured period, averaged, damped and limited; the new target is the
\* old one times this over Timespan.  time[k] is the time of block k.
ActualTimespan(h, time) ==
  LET basic == time[h - 1] - time[WindowStart(h)]
      extended == (time[h - 1] - time[ExtendedStart(h)]) \div 5
      damped == ((basic + extended) \div 2 + 9 * Timespan(h)) \div 10
      raw == IF AfterFour(h) THEN damped ELSE basic
  IN IF raw < Limits(h)[1] THEN Limits(h)[1]
     ELSE IF raw > Limits(h)[2] THEN Limits(h)[2] ELSE raw

----------------------------------------------------------------------------
\* The supply GetMoneySupply reports grows with every block by what
\* GetProofOfWorkReward pays for it (main.cpp:948, main.cpp:964), at every
\* fork and halving of the main network, up to the last stretch the closed form
\* counts.  That of testnet leaves the genesis block out up to its first fork, so
\* it differs from the rewards there.
SupplyMatches ==
  net = "main" /\ nHeight \in 1 .. 4 * Million - 1 =>
    GetMoneySupply(nHeight) = GetMoneySupply(nHeight - 1) + GetProofOfWorkReward(nHeight, 0)

\* A chain whose blocks come exactly at the target spacing keeps its target:
\* the windows GetNextWorkRequired walks back (main.cpp:1116, main.cpp:1127)
\* lie inside the chain, where a step beyond the first block would be read
\* through a null pointer, and measure as many blocks as the period they are
\* compared with.  The first period has one block less.
RetargetSteady ==
  Retargets(nHeight) /\ nHeight > 1 =>
    /\ WindowStart(nHeight) >= 0
    /\ AfterFour(nHeight) => ExtendedStart(nHeight) >= 0
    /\ Window(nHeight) < nHeight - 1 =>
         LET steady == [k \in 0 .. nHeight |-> Target(nHeight)[1] * k]
         IN ActualTimespan(nHeight, steady) = Timespan(nHeight)
=============================================================================
