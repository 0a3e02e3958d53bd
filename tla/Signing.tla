------------------------------ MODULE Signing ------------------------------
(***************************************************************************)
(* Standard scripts, and wallets that sign one transaction one by one      *)
(* (script.cpp, rpcrawtransaction.cpp).                                    *)
(*                                                                         *)
(* An output is being spent.  Copies of the transaction go from wallet to  *)
(* wallet; signrawtransaction signs what the wallet can and merges the     *)
(* copies it was given.  A key pair has one name for its ECDSA and its     *)
(* ML-DSA half.                                                            *)
(***************************************************************************)
EXTENDS Script

CONSTANTS
    Wallets,      \* records [keys, hybrid, scripts]: what each keystore holds
    Outputs,      \* the scripts that may be spent
    HashTypes,    \* hash types the users ask for
    MaxSignings   \* bound on calls of signrawtransaction

VARIABLES
    output,       \* the scriptPubKey of this behaviour
    copies        \* copies of the transaction: [sig, by, types]; the last two are ghosts

signVars == <<output, copies>>

Pub(k) == <<"pub", k>>
MlPub(k) == <<"mlpub", k>>

-----------------------------------------------------------------------------
(* Standard scripts.                                                       *)

(* GetScriptForPubKeyHash, CScriptVisitor. *)
PubKeyHash(k) == <<Op("DUP"), Op("HASH160"), Push(Hashed(Pub(k))), Op("EQUALVERIFY"), Op("CHECKSIG")>>
PubKey(k) == <<Push(Pub(k)), Op("CHECKSIG")>>
ScriptHash(script) == <<Op("HASH160"), Push(Hashed(<<"script", script>>)), Op("EQUAL")>>

(* CScript::SetMultisig. *)
Multisig(m, ks) ==
    <<SmallInt(m)>> \o [i \in DOMAIN ks |-> Push(Pub(ks[i]))] \o <<SmallInt(Len(ks)), Op("CHECKMULTISIG")>>

(* GetScriptForHybridPubKey. *)
HybridPubKey(k) == <<Push(Pub(k)), Push(MlPub(k)), Op("CHECKHYBRIDSIG")>>

(* GetScriptForHybridPubKeyHash. *)
HybridPubKeyHash(k) ==
    <<Op("DUPHYBRID"), Op("HASHHYBRID160"), Push(HybridHash(Pub(k), MlPub(k))), Op("EQUALVERIFY"),
      Op("CHECKHYBRIDSIG")>>

(* GetScriptForHybridMultisig. *)
HybridMultisig(m, ks) ==
    <<SmallInt(m)>>
    \o [i \in 1 .. 2 * Len(ks) |-> IF i % 2 = 1 THEN Push(Pub(ks[(i + 1) \div 2])) ELSE Push(MlPub(ks[i \div 2]))]
    \o <<SmallInt(Len(ks)), Op("CHECKMULTIHYBRIDSIG")>>

-----------------------------------------------------------------------------
(* Solver: the kind of a script, the number of signatures it wants and the *)
(* values its template leaves open.                                        *)

Data(i) == IF i[1] = "push" THEN i[2] ELSE vchFalse
IsKey(i) == Size(Data(i)) \in 33 .. 120
IsCount(i) == i[1] = "num" /\ i[2] \in 1 .. 16
Solved(type, m, values) == [type |-> type, m |-> m, values |-> values]
Unsolved == Solved("NONSTANDARD", 0, <<>>)

IsHybridPubKey(s) == Len(s) = 3 /\ IsKey(s[1]) /\ s[3] = Op("CHECKHYBRIDSIG")

IsHybridPubKeyHash(s) ==
    /\ Len(s) = 5 /\ s[1] = Op("DUPHYBRID") /\ s[2] = Op("HASHHYBRID160")
    /\ Size(Data(s[3])) = 20 /\ s[4] = Op("EQUALVERIFY") /\ s[5] = Op("CHECKHYBRIDSIG")

IsHybridMultisig(s) ==
    LET l == Len(s) IN
    /\ l >= 5 /\ IsCount(s[1]) /\ IsCount(s[l - 1]) /\ s[l] = Op("CHECKMULTIHYBRIDSIG")
    /\ l - 3 = 2 * s[l - 1][2] /\ s[1][2] <= s[l - 1][2]
    /\ \A i \in 2 .. l - 2 : IF i % 2 = 0 THEN IsKey(s[i]) ELSE Size(Data(s[i])) = 1952

IsMultisig(s) ==
    LET l == Len(s) IN
    /\ l >= 4 /\ IsCount(s[1]) /\ IsCount(s[l - 1]) /\ s[l] = Op("CHECKMULTISIG")
    /\ l - 3 = s[l - 1][2] /\ s[1][2] <= s[l - 1][2]
    /\ \A i \in 2 .. l - 2 : IsKey(s[i])

Middle(s) == [i \in 1 .. Len(s) - 3 |-> Data(s[i + 1])]

(* The templates of Solver, in its order. *)
Solver(s) ==
    CASE IsHybridPubKey(s) -> Solved("HYBRID_PUBKEY", 1, <<Data(s[1]), Data(s[2])>>)
      [] IsHybridPubKeyHash(s) -> Solved("HYBRID_PUBKEYHASH", 1, <<Data(s[3])>>)
      [] IsHybridMultisig(s) -> Solved("HYBRID_MULTISIG", s[1][2], Middle(s))
      [] IsPayToScriptHash(s) -> Solved("SCRIPTHASH", 1, <<Data(s[2])>>)
      [] Len(s) = 2 /\ IsKey(s[1]) /\ s[2] = Op("CHECKSIG") -> Solved("PUBKEY", 1, <<Data(s[1])>>)
      [] /\ Len(s) = 5 /\ s[1] = Op("DUP") /\ s[2] = Op("HASH160") /\ Size(Data(s[3])) = 20
         /\ s[4] = Op("EQUALVERIFY") /\ s[5] = Op("CHECKSIG") -> Solved("PUBKEYHASH", 1, <<Data(s[3])>>)
      [] IsMultisig(s) -> Solved("MULTISIG", s[1][2], Middle(s))
      [] OTHER -> Unsolved

Hybrids == {"HYBRID_PUBKEY", "HYBRID_PUBKEYHASH", "HYBRID_MULTISIG"}

(* Items of a signature script, without those of a redeem script. *)
ScriptSigArgsExpected(s) ==
    CASE s.type \in {"PUBKEY", "SCRIPTHASH"} -> 1
      [] s.type \in {"PUBKEYHASH", "HYBRID_PUBKEY"} -> 2
      [] s.type = "HYBRID_PUBKEYHASH" -> 4
      [] s.type = "MULTISIG" -> s.m + 1
      [] s.type = "HYBRID_MULTISIG" -> 2 * s.m
      [] OTHER -> -1

(* IsStandard: at most three keys. *)
IsStandard(script) ==
    LET s == Solver(script) IN
    /\ s.type # "NONSTANDARD"
    /\ s.type = "MULTISIG" => Len(s.values) <= 3
    /\ s.type = "HYBRID_MULTISIG" => Len(s.values) <= 6

(* AreInputsStandard of this input: the items the script leaves are those  *)
(* the output and its redeem script call for.                              *)
ArgsRight(s, stack) ==
    IF s.type # "SCRIPTHASH" THEN ScriptSigArgsExpected(s) >= 0 /\ Len(stack) = ScriptSigArgsExpected(s)
    ELSE /\ stack # <<>> /\ Last(stack)[1] = "script"
         /\ LET inner == Solver(Last(stack)[2]) IN
            /\ inner.type \notin {"NONSTANDARD", "SCRIPTHASH"}
            /\ Len(stack) = ScriptSigArgsExpected(s) + ScriptSigArgsExpected(inner)

AreInputsStandard(sig, script) == ArgsRight(Solver(script), EvalScript(<<>>, sig).stack)

-----------------------------------------------------------------------------
(* Whose output it is.                                                     *)

KeysOf(s) ==
    CASE s.type \in {"PUBKEY", "MULTISIG"} -> {v[2] : v \in Range(s.values)}
      [] s.type = "PUBKEYHASH" -> {s.values[1][2][2]}
      [] s.type = "HYBRID_PUBKEYHASH" -> {s.values[1][2][2][1][2]}
      [] s.type = "HYBRID_PUBKEY" -> {s.values[1][2]}
      [] s.type = "HYBRID_MULTISIG" -> {s.values[i][2] : i \in {j \in DOMAIN s.values : j % 2 = 1}}
      [] OTHER -> {}

(* GetCScript. *)
KnownScript(w, s) == s.values[1][2][2] \in w.scripts

(* IsMine of a script that is not a script hash. *)
IsMineTemplate(w, locked, s) ==
    CASE s.type = "NONSTANDARD" -> "NO"
      [] s.type \in Hybrids -> IF ~(KeysOf(s) \subseteq w.hybrid) THEN "NO"
                               ELSE IF locked THEN "WATCH_ONLY" ELSE "SPENDABLE"
      [] OTHER -> IF KeysOf(s) \subseteq w.keys THEN "SPENDABLE" ELSE "NO"

(* IsMine.  Watch-only scripts are not modelled: nothing here signs them. *)
IsMine(w, locked, script) ==
    LET s == Solver(script) IN
    IF s.type # "SCRIPTHASH" THEN IsMineTemplate(w, locked, s)
    ELSE IF KnownScript(w, s) /\ IsMineTemplate(w, locked, Solver(s.values[1][2][2])) = "SPENDABLE"
    THEN "SPENDABLE" ELSE "NO"

-----------------------------------------------------------------------------
(* Destinations: what a script pays to.                                    *)

ExtractDestination(script) ==
    LET s == Solver(script) IN
    CASE s.type = "PUBKEY" -> <<"key", Hashed(s.values[1])>>
      [] s.type = "PUBKEYHASH" -> <<"key", s.values[1]>>
      [] s.type = "SCRIPTHASH" -> <<"script", s.values[1]>>
      [] s.type = "HYBRID_PUBKEYHASH" -> <<"hybrid", s.values[1]>>
      [] OTHER -> <<"none">>

(* ExtractDestinations also knows the hybrid key and the multisignature. *)
ExtractDestinations(script) ==
    LET s == Solver(script) IN
    CASE s.type = "HYBRID_PUBKEY" -> {<<"hybrid", HybridHash(s.values[1], s.values[2])>>}
      [] s.type = "MULTISIG" -> {<<"key", Hashed(v)>> : v \in Range(s.values)}
      [] OTHER -> {ExtractDestination(script)} \ {<<"none">>}

(* CScript::SetDestination of an address. *)
SetDestination(dest) ==
    CASE dest[1] = "key" -> <<Op("DUP"), Op("HASH160"), Push(dest[2]), Op("EQUALVERIFY"), Op("CHECKSIG")>>
      [] dest[1] = "script" -> <<Op("HASH160"), Push(dest[2]), Op("EQUAL")>>
      [] dest[1] = "hybrid" -> <<Op("DUPHYBRID"), Op("HASHHYBRID160"), Push(dest[2]), Op("EQUALVERIFY"),
                                 Op("CHECKHYBRIDSIG")>>
      [] OTHER -> <<>>

-----------------------------------------------------------------------------
(* Signing.                                                                *)

EcSig(k, code, type) == <<"sig", [key |-> k, digest |-> SignatureHash(code, type), type |-> type]>>
MlSig(k, code, type) == <<"mlsig", [key |-> k, digest |-> Preimage(code, type), type |-> type]>>

PushAll(values) == [i \in DOMAIN values |-> Push(values[i])]

FirstOf(seq, n) == SubSeq(seq, 1, IF Len(seq) < n THEN Len(seq) ELSE n)

(* Sign1: the signature of one key, or nothing. *)
Sign1(w, k, code, type) == IF k \in w.keys THEN <<EcSig(k, code, type)>> ELSE <<>>

(* SignN: the first m signatures in the order of the keys. *)
SignN(w, s, code, type) ==
    FirstOf(FlattenSeq([i \in DOMAIN s.values |-> Sign1(w, s.values[i][2], code, type)]), s.m)

AnyKey(s) == CHOOSE k \in KeysOf(s) : TRUE

(* Solver with a keystore: what it pushes, or nothing when it returns false. *)
SolverSigns(w, s, script, type) ==
    LET one == Sign1(w, AnyKey(s), script, type)
        many == SignN(w, s, script, type) IN
    CASE s.type = "PUBKEY" -> one
      [] s.type = "PUBKEYHASH" -> IF one = <<>> THEN <<>> ELSE Append(one, Pub(AnyKey(s)))
      [] s.type = "MULTISIG" -> IF Len(many) < s.m THEN <<>> ELSE <<vchFalse>> \o many
      [] OTHER -> <<>>

(* SignHybridTx: what it leaves in scriptSigRet, complete or not. *)
SignHybridTx(w, s, script, type) ==
    LET Pair(k) == IF k \in w.hybrid THEN <<EcSig(k, script, type), MlSig(k, script, type)>> ELSE <<>>
        WithKey(pair, k) == IF pair = <<>> THEN <<>> ELSE pair \o <<Pub(k), MlPub(k)>> IN
    CASE ~HasPreimage(type) -> <<>>
      [] s.type = "HYBRID_PUBKEY" -> Pair(AnyKey(s))
      [] s.type = "HYBRID_PUBKEYHASH" -> WithKey(Pair(AnyKey(s)), AnyKey(s))
      [] OTHER -> FirstOf(FlattenSeq([i \in 1 .. Len(s.values) \div 2 |-> Pair(s.values[2 * i - 1][2])]), 2 * s.m)

(* The signatures for a script that is not a script hash. *)
SignTemplate(w, s, script, type) ==
    IF s.type \in Hybrids THEN SignHybridTx(w, s, script, type) ELSE SolverSigns(w, s, script, type)

(* Mutant: a redeem script is added only to a complete signature. *)
WithRedeemWhole(sigs, redeem) ==
    LET all == PushAll(Append(sigs, <<"script", redeem>>)) IN
    IF sigs # <<>> /\ VerifyScript(all, ScriptHash(redeem)) THEN all ELSE <<>>

(* The redeem script follows even a partial set of hybrid signatures. *)
WithRedeem(sigs, redeem) == IF sigs = <<>> THEN <<>> ELSE PushAll(Append(sigs, <<"script", redeem>>))

(* SignSignature: the scriptSig it leaves in the transaction. *)
SignSolved(w, s, script, type) ==
    IF s.type # "SCRIPTHASH" THEN PushAll(SignTemplate(w, s, script, type))
    ELSE IF ~KnownScript(w, s) THEN <<>>
    ELSE LET redeem == s.values[1][2][2] IN
         WithRedeem(SignTemplate(w, Solver(redeem), redeem, type), redeem)

SignSignature(w, script, type) == SignSolved(w, Solver(script), script, type)

-----------------------------------------------------------------------------
(* Merging.                                                                *)

NonEmpty(stack) == SelectSeq(stack, LAMBDA v : v # vchFalse)

(* CombineMultisig: a signature for each key that has one, up to m, and    *)
(* empty items for those that are missing.                                 *)
CombineMultisig(script, s, stack1, stack2) ==
    LET all == Range(NonEmpty(stack1)) \cup Range(NonEmpty(stack2))
        For(v) == {sig \in all : CheckSig(sig, v, script)}
        have == SelectSeq(s.values, LAMBDA v : For(v) # {})
        n == IF Len(have) < s.m THEN Len(have) ELSE s.m IN
    <<vchFalse>> \o [i \in 1 .. s.m |-> IF i <= n THEN CHOOSE sig \in For(have[i]) : TRUE ELSE vchFalse]

(* The pair of signatures for each key that has one, in the order of the keys. *)
FittingPairs(script, s, both) ==
    LET Fits(j, i) == VerifyHybridSignature(both[2 * j - 1], both[2 * j], s.values[2 * i - 1], s.values[2 * i], script)
        PairAt(js) == IF js = {} THEN <<>> ELSE <<both[2 * Min(js) - 1], both[2 * Min(js)]>> IN
    FlattenSeq([i \in 1 .. Len(s.values) \div 2 |-> PairAt({j \in 1 .. Len(both) \div 2 : Fits(j, i)})])

(* CombineHybridMultisig: the first m. *)
CombineHybridMultisig(script, s, stack1, stack2) ==
    FirstOf(FittingPairs(script, s, NonEmpty(stack1) \o NonEmpty(stack2)), 2 * s.m)

(* CombineSignatures below a script hash. *)
CombineTemplate(s, script, stack1, stack2) ==
    CASE s.type = "MULTISIG" -> CombineMultisig(script, s, stack1, stack2)
      [] s.type = "HYBRID_MULTISIG" -> CombineHybridMultisig(script, s, stack1, stack2)
      [] s.type \in {"PUBKEY", "PUBKEYHASH"} ->
             IF stack1 = <<>> \/ stack1[1] = vchFalse THEN stack2 ELSE stack1
      [] OTHER -> IF Len(stack1) >= Len(stack2) THEN stack1 ELSE stack2

CombineStacks(s, script, stack1, stack2) ==
    IF s.type # "SCRIPTHASH" THEN CombineTemplate(s, script, stack1, stack2)
    ELSE IF stack1 = <<>> \/ Last(stack1) = vchFalse THEN stack2
    ELSE IF stack2 = <<>> \/ Last(stack2) = vchFalse THEN stack1
    ELSE LET redeem == Last(stack1)[2] IN
         Append(CombineTemplate(Solver(redeem), redeem, Front(stack1), Front(stack2)), Last(stack1))

(* CombineSignatures. *)
CombineSignatures(script, sig1, sig2) ==
    PushAll(CombineStacks(Solver(script), script, EvalScript(<<>>, sig1).stack, EvalScript(<<>>, sig2).stack))

-----------------------------------------------------------------------------
(* The behaviour.                                                          *)

SignInit ==
    /\ output \in Outputs
    /\ copies = {[sig |-> <<>>, by |-> {}, types |-> {}]}

(* The script whose signatures count: the redeem script of a script hash. *)
Inner(script) == LET s == Solver(script) IN IF s.type = "SCRIPTHASH" THEN s.values[1][2][2] ELSE script

(* Ghost: the keys of the wallet that can contribute.  SignN signs a plain *)
(* multisignature completely or not at all.                                *)
Contribution(w, type) ==
    LET s == Solver(Inner(output))
        keys == KeysOf(s) \cap (IF s.type \in Hybrids THEN w.hybrid ELSE w.keys) IN
    IF \/ ~HasPreimage(type)
       \/ Solver(output).type = "SCRIPTHASH" /\ ~KnownScript(w, Solver(output))
       \/ s.type = "MULTISIG" /\ Cardinality(keys) < s.m
    THEN {} ELSE keys

(* signrawtransaction with one or two copies: sign what we can, then merge *)
(* the copies.  An input without an output of its index is not signed with *)
(* SIGHASH_SINGLE.  The wallet is unlocked.                                *)
SignRaw(w, type, c1, c2) ==
    LET mine == IF HasPreimage(type) THEN SignSignature(w, output, type) ELSE <<>>
        merged == CombineSignatures(output, CombineSignatures(output, mine, c1.sig), c2.sig)
        own == Contribution(w, type) IN
    /\ Cardinality(copies) <= MaxSignings
    /\ copies' = copies \cup {[sig |-> merged,
                               by |-> own \cup c1.by \cup c2.by,
                               types |-> (IF own = {} THEN {} ELSE {type}) \cup c1.types \cup c2.types]}
    /\ UNCHANGED output

SignNext ==
    \E w \in Wallets, type \in HashTypes, c1 \in copies, c2 \in copies : SignRaw(w, type, c1, c2)

SignSpec == SignInit /\ [][SignNext]_signVars

-----------------------------------------------------------------------------
(* Properties.                                                             *)

(* Whatever wallets signed in whatever order and whichever copies were     *)
(* merged, the input verifies exactly when the keys that contributed a     *)
(* signature are as many as the script asks for: a signature once made is  *)
(* never lost by a merge, none is counted twice, and their order in the    *)
(* script is right (CombineSignatures, script.cpp:2340-2348 "permits       *)
(* several wallets to sign a P2SH hybrid multisig transaction one by       *)
(* one").  All signers use one hash type.                                  *)
OneByOne ==
    \A c \in copies :
        Cardinality(c.types) <= 1 =>
            (VerifyScript(c.sig, output) <=> Cardinality(c.by) >= Solver(Inner(output)).m)

(* An input that verifies is one other nodes relay: it has no item more    *)
(* than its script needs (CombineHybridMultisig, AreInputsStandard), and   *)
(* every key it may be checked against counts as a signature operation of  *)
(* the block, a redeem script's too (GetSigOpCount).                       *)
CompleteIsStandard ==
    \A c \in copies :
        VerifyScript(c.sig, output) =>
            /\ IsStandard(output) /\ AreInputsStandard(c.sig, output)
            /\ SigOpsOfSpend(output, c.sig) >= Cardinality(KeysOf(Solver(Inner(output))))

(* Whoever could spend the output can spend what is paid to the address    *)
(* shown for it, unless it asks for several signatures, and that address   *)
(* is shown again for the payment (change and refunds rely on it).         *)
AddressPaysOwner ==
    Solver(output).type # "MULTISIG" =>
        \A dest \in ExtractDestinations(output) :
            /\ ExtractDestination(SetDestination(dest)) = dest
            /\ \A w \in Wallets : IsMine(w, FALSE, SetDestination(dest)) = IsMine(w, FALSE, output)

(* An output that IsMine calls spendable can be signed by this wallet      *)
(* alone, with the keys it has (coin selection relies on it).              *)
SpendableIsSignable ==
    \A w \in Wallets, type \in HashTypes :
        IsMine(w, FALSE, output) = "SPENDABLE" /\ HasPreimage(type) =>
            VerifyScript(SignSignature(w, output, type), output)
=============================================================================
