------------------------------ MODULE MCRules ------------------------------
(***************************************************************************)
(* The rules of the chain, for TLC: scripts (ScriptRun) and signatures     *)
(* (Signing), the block template (BlockTemplate) and the payment           *)
(* (CoinSelect) under the rules of Validation, rewards and difficulty      *)
(* (Economy), encodings (Codecs) and the proof-of-work hash (NeoScrypt).   *)
(* Each is examined by itself: part says which one moves in a behaviour,   *)
(* the others stay as they start.                                          *)
(***************************************************************************)
EXTENDS Integers, Sequences, TLC

CONSTANTS
    MaxOps, MaxStack, MaxElement, MaxScriptLength, Alphabets, MaxProgram,
    Wallets, SpentOutputs, HashTypes, MaxSignings,
    MaxBlockSigOps, MaxMoney, BaseMaturity, MinTxFee, MinRelayTxFee, TxDust, MaxFee, Subsidy,
    Txs, Confirmed, Catalogue, Heights, BestHeight,
    BlockMaxSize, BlockPrioritySize, BlockMinSize, FreePriority, CoinbaseSize, CoinbaseSigOps,
    Purses, Payments, TxFees, Cent, FreeThreshold, InputSize, HybridInputSize, OutputSize,
    Windows,
    TriedBytes, MaxLen, CheckSize, IdSize, SecretSize, Decimals, MaxWhole, Amounts, Sizes, Targets,
    Blake2sAnswers, ScryptAnswers, KdfInputs, MixInputs

VARIABLES
    part,
    alphabet, program, machine, taken,
    output, copies,
    pool, stage, vecPriority, dependsOn, dangling, vtx, blockSize, blockSigOps, fees, byFee,
    net, nHeight, last,
    purse, payment, txFee, picked, custom, feeRet, created, changeTo, reserved, sending,
    input, job

Scripts == INSTANCE ScriptRun
Signs == INSTANCE Signing WITH Outputs <- SpentOutputs
Template == INSTANCE BlockTemplate WITH Chain <- Confirmed, MaxBlockSize <- 8, MaxBlockSizeGen <- 6, Kilobyte <- 2
Money == INSTANCE Economy
Coins == INSTANCE CoinSelect WITH MaxBlockSize <- 500, MaxBlockSizeGen <- 250, Kilobyte <- 4
Codes == INSTANCE Codecs WITH Bytes <- TriedBytes
Pow == INSTANCE NeoScrypt

\* The constants are such as the modules expect.
ASSUME RulesAssumption == Template!LimitsAssumption /\ Coins!LimitsAssumption

-----------------------------------------------------------------------------
(* The inputs tried.  Forms and Forks give the names of Script, Signing and   *)
(* Economy that do not depend on the inputs.                                  *)

Forms == INSTANCE Signing WITH Wallets <- {}, Outputs <- {}, HashTypes <- {}, MaxSignings <- 0
Forks == INSTANCE Economy WITH Windows <- {}

(* Instructions for the interpreter: conditionals alone, all the others,  *)
(* and those that need a deep stack.                                          *)

N(n) == Forms!SmallInt(n)
B(s) == Forms!Push(<<"b", s>>)
Op(o) == Forms!Op(o)
Control == {N(0), N(1), Op("IF"), Op("NOTIF"), Op("ELSE"), Op("ENDIF")}
Plain ==
    {N(-1), N(1), N(2), B(<<127>>), B(<<255, 127>>), B(<<>>), Forms!Push(<<"pub", 1>>)} \union
    {Op(o) : o \in DOMAIN Forms!Shuffles \union Forms!WideShuffles \union Forms!OneNumber
                    \union Forms!TwoNumbers \union Forms!Hashes
                    \union {"NOP", "VERIFY", "PICK", "ROLL", "TOALTSTACK", "FROMALTSTACK", "DEPTH",
                            "EQUAL", "EQUALVERIFY", "WITHIN", "HASHHYBRID160", "CODESEPARATOR",
                            "CHECKSIG", "CHECKMULTISIG", "CHECKHYBRIDSIG", "CHECKMULTIHYBRIDSIG",
                            "RETURN", "RESERVED", "CAT"}}
Deep == {N(1), N(2)} \union
    {Op(o) : o \in {"2DUP", "3DUP", "2OVER", "2ROT", "2SWAP", "ROLL", "WITHIN"}}
MCAlphabets == {Control, Plain, Deep}
MCMaxProgram == (Control :> 7) @@ (Plain :> 3) @@ (Deep :> 7)

(* Wallets that share the keys of 2-of-3 scripts, and the outputs they spend. *)

TwoOfThree == Forms!Multisig(2, <<1, 2, 3>>)
HybridTwoOfThree == Forms!HybridMultisig(2, <<1, 2, 3>>)
Redeem == {TwoOfThree, HybridTwoOfThree, Forms!HybridPubKeyHash(1)}
MCWallets ==
    {[keys |-> w[1], hybrid |-> w[2], scripts |-> w[3]] : w \in
        {<<{1}, {1}, Redeem>>, <<{2}, {2}, Redeem>>, <<{3}, {3}, {}>>,
         <<{1, 2, 3}, {2, 3}, Redeem>>, <<{}, {1, 2, 3}, Redeem>>}}
MCOutputs ==
    {Forms!PubKey(1), Forms!PubKeyHash(2), Forms!HybridPubKey(1), Forms!HybridPubKeyHash(2),
     TwoOfThree, HybridTwoOfThree} \union {Forms!ScriptHash(s) : s \in Redeem}

(* A pool with double spends, chains, immature and unfinished transactions,   *)
(* one with two parents of which either may be missing, and ones whose redeem *)
(* scripts count many signature operations.                                   *)

Tx(in, out, size, sigops, redeem) ==
    [vin |-> in, vout |-> out, size |-> size, sigops |-> sigops, redeem |-> redeem, final |-> TRUE]
MCCatalogue ==
    [old |-> Tx(<< <<"gen", 1>> >>, <<9, 4, 6, 7>>, 2, 1, 0),
     cb1 |-> Tx(<<<<"null", 0>>>>, <<8>>, 1, 1, 0),
     cb2 |-> Tx(<<<<"null", 0>>>>, <<8>>, 1, 1, 0),
     a |-> Tx(<< <<"old", 1>> >>, <<4, 3>>, 2, 1, 0),
     b |-> Tx(<< <<"a", 1>>, <<"a", 2>> >>, <<2>>, 2, 1, 0),
     c |-> Tx(<< <<"old", 2>> >>, <<3>>, 1, 0, 2),
     d |-> Tx(<< <<"old", 1>> >>, <<9>>, 3, 1, 0),
     e |-> Tx(<< <<"cb1", 1>>, <<"c", 1>> >>, <<9>>, 1, 2, 1),
     f |-> [Tx(<< <<"old", 3>> >>, <<5>>, 1, 0, 0) EXCEPT !.final = FALSE],
     g |-> Tx(<< <<"cb2", 1>> >>, <<4>>, 1, 1, 1),
     h |-> Tx(<< <<"old", 4>> >>, <<3>>, 1, 0, 6),
     i |-> Tx(<< <<"a", 2>>, <<"c", 1>> >>, <<5>>, 1, 1, 0)]
MCHeights == [old |-> 1, cb1 |-> 3, cb2 |-> 5]

(* Wallets of up to four coins of six kinds.  Three hybrid coins make a        *)
(* payment that the pool does not relay for free and four, or three and a     *)
(* classic one, exceed the size the wallet allows; the raise of the fee for   *)
(* half a block starts far above that size.                                   *)

Coin(value, depth, mine, spendable, hybrid) ==
    [value |-> value, depth |-> depth, mine |-> mine, spendable |-> spendable, hybrid |-> hybrid]
Kinds ==
    <<Coin(2, 1, FALSE, TRUE, FALSE), Coin(3, 0, TRUE, TRUE, FALSE), Coin(5, 6, FALSE, TRUE, FALSE),
      Coin(8, 6, TRUE, TRUE, TRUE), Coin(4, 6, FALSE, FALSE, FALSE), Coin(14, 1, TRUE, TRUE, FALSE)>>
Rising(n) == {f \in [1 .. n -> DOMAIN Kinds] : \A i \in 1 .. n - 1 : f[i] <= f[i + 1]}
MCPurses == UNION {{[i \in 1 .. n |-> Kinds[f[i]]] : f \in Rising(n)} : n \in 1 .. 4}

(* The first blocks of both networks, and the heights around every change.    *)

MCWindows ==
    {<<"test", 1, 5000>>, <<"main", 1, 5000>>} \union
    {<<"main", h - 150, h + 150>> :
        h \in {Forks!nForkOne, Forks!nForkTwo, Forks!nForkThree, Forks!nForkFour, Forks!nForkFive}
                \union {k * Forks!Million : k \in 1 .. 4}}

(* Numbers where an encoding takes another byte.                              *)

Edges == {0, 1, 127, 128, 252, 253, 255, 256, 32767, 32768, 65535, 65536, 8388607, 8388608,
          16777215, 16777216, 33554432, 33554433, 2147483647}
MCAmounts == {-100000, -1} \union 0 .. 30
                \union {100, 999, 1000, 1010, 1100, 9999, 10000, 99990, 100000, 999999999}

(* Known answers of BLAKE2s (key 00 01 .. 1f, input 00 01 ..) and of scrypt  *)
(* with a small memory, made by independent implementations.                 *)

Range0(n) == [i \in 1 .. n |-> (i - 1) % 256]
Stride(n, k, c) == [i \in 1 .. n |-> (k * (i - 1) + c) % 256]
KnownBlake2sAnswers ==
  {[input |-> Range0(a[1]), key |-> Range0(32), output |-> a[2]] : a \in {
    <<0, <<72, 168, 153, 125, 164, 7, 135, 107, 61, 121, 192, 217, 35, 37, 173, 59, 137, 203, 183, 84, 216, 106, 183, 26, 238, 4, 122, 211, 69, 253, 44, 73>>>>,
    <<1, <<64, 209, 95, 238, 124, 50, 136, 48, 22, 106, 195, 249, 24, 101, 15, 128, 126, 126, 1, 225, 119, 37, 140, 220, 10, 57, 177, 31, 89, 128, 102, 241>>>>,
    <<63, <<198, 83, 130, 81, 63, 7, 70, 13, 163, 152, 51, 203, 102, 108, 94, 216, 46, 97, 185, 233, 152, 244, 176, 196, 40, 124, 238, 86, 195, 204, 155, 205>>>>,
    <<64, <<137, 117, 176, 87, 127, 211, 85, 102, 215, 80, 179, 98, 176, 137, 122, 38, 195, 153, 19, 109, 240, 123, 171, 171, 189, 230, 32, 63, 242, 149, 78, 212>>>>,
    <<65, <<33, 254, 12, 235, 0, 82, 190, 127, 176, 240, 4, 24, 124, 172, 215, 222, 103, 250, 110, 176, 147, 141, 146, 118, 119, 242, 57, 140, 19, 35, 23, 168>>>>,
    <<128, <<12, 49, 31, 56, 195, 90, 79, 185, 13, 101, 28, 40, 157, 72, 104, 86, 205, 20, 19, 223, 155, 6, 119, 245, 62, 206, 44, 217, 228, 119, 198, 10>>>>,
    <<129, <<70, 167, 58, 141, 211, 231, 15, 89, 211, 148, 44, 1, 223, 89, 157, 239, 120, 60, 157, 168, 47, 216, 50, 34, 205, 102, 43, 83, 220, 231, 219, 223>>>>,
    <<200, <<19, 200, 132, 128, 165, 208, 13, 108, 140, 122, 210, 17, 13, 118, 168, 45, 155, 112, 244, 250, 102, 150, 212, 229, 221, 66, 160, 102, 220, 175, 153, 32>>>>}}
KnownScryptAnswers ==
  {[password |-> Stride(80, 7, 3), Nfactor |-> a[1], rfactor |-> a[2], output |-> a[3]] : a \in {
    <<0, 0, <<100, 143, 238, 243, 112, 11, 33, 35, 35, 14, 98, 101, 136, 128, 171, 103, 60, 154, 83, 68, 241, 35, 30, 210, 89, 201, 69, 98, 212, 161, 120, 245>>>>,
    <<1, 1, <<52, 44, 168, 103, 250, 227, 114, 148, 48, 90, 143, 83, 20, 70, 38, 170, 101, 103, 56, 46, 113, 171, 154, 40, 224, 5, 69, 163, 22, 17, 52, 73>>>>}}
TriedKdfInputs ==
  {[password |-> Stride(80, 3, c), salt |-> Stride(80, 3, c), mode |-> 0] : c \in {0}}
    \union {[password |-> Stride(80, 5, 2), salt |-> Stride(256, 11, c), mode |-> 1] : c \in {9}}
TriedMixInputs ==
  {[X |-> [b \in 1 .. 2 * r |-> [i \in 1 .. 16 |-> <<(b * 4099 + i) % 65536, i * 257 + b>>]],
    mixer |-> [chacha |-> c, rounds |-> 2]] : r \in {1, 2, 4}, c \in BOOLEAN}

-----------------------------------------------------------------------------

scriptVars == <<alphabet, program, machine, taken>>
signVars == <<output, copies>>
templateVars == <<pool, stage, vecPriority, dependsOn, dangling, vtx, blockSize, blockSigOps, fees,
                  byFee>>
economyVars == <<net, nHeight, last>>
coinVars ==
    <<purse, payment, txFee, picked, custom, feeRet, created, changeTo, reserved, sending>>
vars == <<part, scriptVars, signVars, templateVars, economyVars, coinVars, input, job>>

One(S) == CHOOSE x \in S : TRUE

\* A part that does not move is in one of its initial states.
Init ==
    /\ part \in {"script", "sign", "template", "money", "coins", "codes", "pow"}
    /\ alphabet \in (IF part = "script" THEN Alphabets ELSE {Control}) /\ Scripts!ScriptInit
    /\ output \in (IF part = "sign" THEN SpentOutputs ELSE {Signs!PubKey(1)}) /\ Signs!SignInit
    /\ IF part = "template" THEN Template!TemplateInit ELSE pool = {} /\ Template!TemplateInit
    /\ IF part = "money" THEN Money!EconomyInit ELSE net = "main" /\ nHeight = 1 /\ last = 1
    /\ IF part = "coins" THEN Coins!CoinInit
       ELSE /\ purse = <<Kinds[1]>> /\ payment = One(Payments) /\ txFee = One(TxFees) /\ custom = FALSE
            /\ Coins!CoinInit
    /\ Codes!CodecInit /\ Pow!PowInit

ScriptStep ==
    /\ part = "script" /\ Scripts!ScriptNext
    /\ UNCHANGED <<part, signVars, templateVars, economyVars, coinVars, input, job>>
SignStep ==
    /\ part = "sign" /\ Signs!SignNext
    /\ UNCHANGED <<part, scriptVars, templateVars, economyVars, coinVars, input, job>>
TemplateStep ==
    /\ part = "template" /\ Template!TemplateNext
    /\ UNCHANGED <<part, scriptVars, signVars, economyVars, coinVars, input, job>>
MoneyStep ==
    /\ part = "money" /\ Money!NextBlock
    /\ UNCHANGED <<part, scriptVars, signVars, templateVars, coinVars, input, job>>
CoinStep ==
    /\ part = "coins" /\ Coins!CoinNext
    /\ UNCHANGED <<part, scriptVars, signVars, templateVars, economyVars, input, job>>
CodeStep ==
    /\ part = "codes" /\ Codes!CodecNext
    /\ UNCHANGED <<part, scriptVars, signVars, templateVars, economyVars, coinVars, job>>
PowStep ==
    /\ part = "pow" /\ Pow!PowNext
    /\ UNCHANGED <<part, scriptVars, signVars, templateVars, economyVars, coinVars, input>>
Next ==
    \/ ScriptStep \/ SignStep \/ TemplateStep \/ MoneyStep \/ CoinStep \/ CodeStep \/ PowStep

Spec == Init /\ [][Next]_vars

-----------------------------------------------------------------------------
(* Properties *)

(* An instruction of a script runs exactly when every conditional around it   *)
(* chose its branch, and a number on the stack reads back as itself           *)
(* (script.cpp:433, 488-530; bignum.h:281).                                   *)
ScriptsRunRight == part = "script" => Scripts!ExecAgrees /\ Scripts!NumbersExact

(* Wallets that sign one after the other, in any order and merging any        *)
(* copies, complete an input exactly when enough keys took part; a complete   *)
(* input is standard, an output called spendable can be signed, and its       *)
(* address pays the same owner (script.cpp:2340-2348, 2489).                  *)
SignaturesCombine ==
    part = "sign" =>
        /\ Signs!OneByOne /\ Signs!CompleteIsStandard
        /\ Signs!SpendableIsSignable /\ Signs!AddressPaysOwner

(* CreateNewBlock never throws away its own template (main.cpp:4600).         *)
TemplateConnects == part = "template" => Template!TemplateConnects

(* The supply reported grows by the reward paid, and a chain on schedule      *)
(* keeps its target, at every fork and halving (main.cpp:948, 964, 1116).     *)
SupplyAndTarget == part = "money" => Money!SupplyMatches /\ Money!RetargetSteady

(* A payment that is created balances and pays the fee that the pool and the  *)
(* user ask for (wallet.cpp:1833-2101).                                       *)
CreatedAccepted == part = "coins" => Coins!CreatedAccepted

(* Texts and numbers are read as they were written (base58.h, util.cpp,       *)
(* serialize.h:217, bignum.h:292).                                            *)
CodesInverse == part = "codes" => Codes!EncodingsInverse /\ Codes!NumbersKept

(* The hash of a block is the one its definition gives (neoscrypt.c).         *)
HashesRight == part = "pow" => Pow!HashesRight
=============================================================================
