------------------------------- MODULE Script -------------------------------
(***************************************************************************)
(* The script interpreter (script.cpp, script.h, hs/hybrid_verify.h).      *)
(*                                                                         *)
(* A script is a sequence of instructions <<"push", value>>, <<"num", n>>  *)
(* for OP_1NEGATE and OP_1 to OP_16, and <<"op", name>>.  A value is       *)
(* <<"b", bytes>>, or stands for a longer byte string: public keys, hashes,*)
(* signatures, a serialised script.  A signature is the key, the digest    *)
(* and the hash type it was made with, so it verifies for these only.  The *)
(* transaction is fixed.                                                   *)
(***************************************************************************)
EXTENDS Integers, Sequences, FiniteSets, SequencesExt

CONSTANTS
    MaxOps,          \* 201 opcodes
    MaxStack,        \* 1000 items on both stacks
    MaxElement,      \* MAX_SCRIPT_ELEMENT_SIZE
    MaxScriptLength  \* MAX_SCRIPT_SIZE, in instructions

Push(v) == <<"push", v>>
Op(name) == <<"op", name>>
SmallInt(n) == IF n = 0 THEN Push(<<"b", <<>>>>) ELSE <<"num", n>>

(* SIGHASH_SINGLE for an input that has no output of its index.            *)
SIGHASH_SINGLE_ALONE == "SINGLE_ALONE"

-----------------------------------------------------------------------------
(* Values.                                                                 *)

(* The bytes of a number, least significant first. *)
Magnitude[n \in Nat] == IF n < 256 THEN <<n>> ELSE <<n % 256>> \o Magnitude[n \div 256]

(* The sign is the top bit of the last byte. *)
Signed(m, sign) == IF Last(m) >= 128 THEN Append(m, sign) ELSE Append(Front(m), Last(m) + sign)

(* CBigNum::getvch: little endian. *)
Encode(n) ==
    <<"b", IF n = 0 THEN <<>> ELSE IF n < 0 THEN Signed(Magnitude[-n], 128) ELSE Signed(Magnitude[n], 0)>>

vchTrue == <<"b", <<1>>>>
vchFalse == <<"b", <<>>>>
Bool(b) == IF b THEN vchTrue ELSE vchFalse

Size(v) ==
    CASE v[1] = "b" -> Len(v[2])
      [] v[1] = "pub" -> 33
      [] v[1] = "hash" -> 20
      [] v[1] = "sig" -> 72
      [] v[1] = "mlpub" -> 1952
      [] v[1] = "mlsig" -> 3310
      [] OTHER -> 23

(* CastToBigNum throws when there are more than four bytes. *)
IsNum(v) == v[1] = "b" /\ Len(v[2]) <= 4

LittleEndian(bytes) == FoldRight(LAMBDA b, acc : b + 256 * acc, bytes, 0)
Clear(bytes) == Append(Front(bytes), Last(bytes) % 128)

CastToBigNum(v) ==
    IF v[2] = <<>> THEN 0
    ELSE LittleEndian(Clear(v[2])) * (IF Last(v[2]) >= 128 THEN -1 ELSE 1)

(* A negative zero is false. *)
CastToBool(v) ==
    v[1] = "b" => \E i \in DOMAIN v[2] : v[2][i] # 0 /\ ~(i = Len(v[2]) /\ v[2][i] = 128)

(* Hash functions: of one value, or of the two halves of a hybrid key. *)
Hashed(v) == <<"hash", v>>
HybridHash(ec, ml) == <<"hash", <<"pair", <<ec, ml>>>>>>

-----------------------------------------------------------------------------
(* Signatures.                                                             *)

FindAndDelete(script, v) == SelectSeq(script, LAMBDA i : i # Push(v))

(* ConstructSignatureHashPreimage fails, or depends on the script code     *)
(* without its separators and on the hash type.                            *)
HasPreimage(type) == type # SIGHASH_SINGLE_ALONE

Preimage(code, type) == <<"digest", SelectSeq(code, LAMBDA i : i # Op("CODESEPARATOR")), type>>

(* SignatureHash: the number one when there is no preimage. *)
SignatureHash(code, type) == IF HasPreimage(type) THEN Preimage(code, type) ELSE <<"one">>

(* CheckSig; the cache only remembers what was true of the same triple. *)
CheckSig(sig, pub, code) ==
    /\ sig[1] = "sig" /\ pub[1] = "pub"
    /\ sig[2].key = pub[2]
    /\ sig[2].digest = SignatureHash(code, sig[2].type)

(* VerifyMLDSA over the message that BuildHybridMessage makes of the preimage. *)
VerifyMLDSA(sig, pub, digest) ==
    /\ sig[1] = "mlsig" /\ pub[1] = "mlpub"
    /\ sig[2].key = pub[2]
    /\ sig[2].digest = digest

(* Both signatures carry one hash type and sign the same preimage. *)
VerifyHybridSignature(sigEC, sigML, pubEC, pubML, code) ==
    /\ sigEC[1] = "sig" /\ sigML[1] = "mlsig"
    /\ pubEC[1] = "pub" /\ pubML[1] = "mlpub"
    /\ sigEC[2].type = sigML[2].type
    /\ HasPreimage(sigEC[2].type)
    /\ CheckSig(sigEC, pubEC, code)
    /\ VerifyMLDSA(sigML, pubML, Preimage(code, sigEC[2].type))

(* The loop of OP_CHECKMULTISIG and of OP_CHECKMULTIHYBRIDSIG: both walk   *)
(* the keys once and take the next signature when it fits; fits holds the  *)
(* pairs <<signature, key>> that do.                                       *)
Matched(nSigs, nKeys, fits) ==
    LET after[k \in 0 .. nKeys] ==
            IF k = 0 THEN 1
            ELSE LET s == after[k - 1] IN IF <<s, k>> \in fits THEN s + 1 ELSE s
    IN after[nKeys] = nSigs + 1

-----------------------------------------------------------------------------
(* The state of EvalScript.  exec is vfExec, code is pbegincodehash.       *)

Start(stack) ==
    [ok |-> TRUE, pc |-> 1, stack |-> stack, alt |-> <<>>, exec |-> <<>>, ops |-> 0, code |-> 1]

Failed(m) == [m EXCEPT !.ok = FALSE]
Top(s, i) == s[Len(s) - i + 1]
Drop(s, n) == SubSeq(s, 1, Len(s) - n)
Has(m, n) == Len(m.stack) >= n
NumAt(m, i) == CastToBigNum(Top(m.stack, i))
Replaced(m, n, vs) == [m EXCEPT !.stack = Drop(@, n) \o vs]

(* The VERIFY forms take a true result off the stack and fail on a false one. *)
Result(m, n, b, verify) ==
    IF ~verify THEN Replaced(m, n, <<Bool(b)>>)
    ELSE IF b THEN Replaced(m, n, <<>>) ELSE Failed(m)

Conditionals == {"IF", "NOTIF", "VERIF", "VERNOTIF", "ELSE", "ENDIF"}
Disabled == {"CAT", "SUBSTR", "LEFT", "RIGHT", "INVERT", "AND", "OR", "XOR", "2MUL", "2DIV", "MUL",
             "DIV", "MOD", "LSHIFT", "RSHIFT"}

(* fExec: every enclosing branch is taken. *)
Executing(m) == \A i \in DOMAIN m.exec : m.exec[i]

(* Mutant: conditionals are skipped in a branch that is not taken. *)
ConditionalSkipped(m, op) ==
    IF op \in {"IF", "NOTIF"}
    THEN IF ~Executing(m) THEN m
         ELSE IF ~Has(m, 1) THEN Failed(m)
         ELSE [Replaced(m, 1, <<>>) EXCEPT !.exec = Append(@, CastToBool(Top(m.stack, 1)) # (op = "NOTIF"))]
    ELSE IF m.exec = <<>> \/ op \notin {"ELSE", "ENDIF"} THEN Failed(m)
    ELSE [m EXCEPT !.exec = IF op = "ENDIF" THEN Front(@) ELSE Append(Front(@), ~Last(@))]

(* OP_IF to OP_ENDIF are looked at in branches that are not taken, too,    *)
(* where OP_VERIF and OP_VERNOTIF fail as well.                            *)
Conditional(m, op) ==
    IF op \in {"IF", "NOTIF"}
    THEN IF ~Executing(m) THEN [m EXCEPT !.exec = Append(@, FALSE)]
         ELSE IF ~Has(m, 1) THEN Failed(m)
         ELSE [Replaced(m, 1, <<>>) EXCEPT !.exec = Append(@, CastToBool(Top(m.stack, 1)) # (op = "NOTIF"))]
    ELSE IF m.exec = <<>> \/ op \notin {"ELSE", "ENDIF"} THEN Failed(m)
    ELSE [m EXCEPT !.exec = IF op = "ENDIF" THEN Front(@) ELSE Append(Front(@), ~Last(@))]

(* How many items a stack operation looks at, and what it leaves of them. *)
Shuffles == [DROP |-> 1, DUP |-> 1, IFDUP |-> 1, NIP |-> 2, OVER |-> 2, SWAP |-> 2, TUCK |-> 2,
             ROT |-> 3, SIZE |-> 1]
WideShuffles == {"2DROP", "2DUP", "3DUP", "2OVER", "2ROT", "2SWAP", "DUPHYBRID"}

Shuffle(m, op) ==
    LET n == Shuffles[op]
        x == SubSeq(m.stack, Len(m.stack) - n + 1, Len(m.stack)) IN
    IF ~Has(m, n) THEN Failed(m)
    ELSE Replaced(m, n,
        CASE op = "DROP"  -> <<>>
          [] op = "DUP"   -> <<x[1], x[1]>>
          [] op = "IFDUP" -> IF CastToBool(x[1]) THEN <<x[1], x[1]>> ELSE x
          [] op = "NIP"   -> <<x[2]>>
          [] op = "OVER"  -> <<x[1], x[2], x[1]>>
          [] op = "SWAP"  -> <<x[2], x[1]>>
          [] op = "TUCK"  -> <<x[2], x[1], x[2]>>
          [] op = "ROT"   -> <<x[2], x[3], x[1]>>
          [] op = "SIZE"  -> <<x[1], Encode(Size(x[1]))>>)

(* Those on pairs.  OP_DUPHYBRID wants the two signatures below the key. *)
WideShuffle(m, op) ==
    LET n == CASE op \in {"2DROP", "2DUP"} -> 2 [] op = "3DUP" -> 3 [] op = "2ROT" -> 6 [] OTHER -> 4
        x == SubSeq(m.stack, Len(m.stack) - n + 1, Len(m.stack)) IN
    IF ~Has(m, n) THEN Failed(m)
    ELSE Replaced(m, n,
        CASE op = "2DROP" -> <<>>
          [] op \in {"2DUP", "3DUP"} -> x \o x
          [] op = "2OVER" -> x \o SubSeq(x, 1, 2)
          [] op = "2ROT"  -> SubSeq(x, 3, 6) \o SubSeq(x, 1, 2)
          [] op = "2SWAP" -> SubSeq(x, 3, 4) \o SubSeq(x, 1, 2)
          [] op = "DUPHYBRID" -> x \o SubSeq(x, 3, 4))

(* OP_PICK and OP_ROLL. *)
DigAt(m, op, s, n) ==
    IF n < 0 \/ n >= Len(s) THEN Failed(m)
    ELSE [m EXCEPT !.stack = Append(IF op = "ROLL" THEN RemoveAt(s, Len(s) - n) ELSE s, s[Len(s) - n])]

Dig(m, op) ==
    IF ~Has(m, 2) \/ ~IsNum(Top(m.stack, 1)) THEN Failed(m)
    ELSE DigAt(m, op, Drop(m.stack, 1), NumAt(m, 1))

(* The other stack: OP_TOALTSTACK and OP_FROMALTSTACK. *)
AltStack(m, op) ==
    IF op = "TOALTSTACK"
    THEN IF Has(m, 1) THEN [Replaced(m, 1, <<>>) EXCEPT !.alt = Append(@, Top(m.stack, 1))] ELSE Failed(m)
    ELSE IF m.alt # <<>> THEN [m EXCEPT !.alt = Front(@), !.stack = Append(@, Last(m.alt))] ELSE Failed(m)

OneNumber == {"1ADD", "1SUB", "NEGATE", "ABS", "NOT", "0NOTEQUAL"}
Truth(b) == IF b THEN 1 ELSE 0

Unary(op, a) ==
    CASE op = "1ADD"   -> a + 1
      [] op = "1SUB"   -> a - 1
      [] op = "NEGATE" -> -a
      [] op = "ABS"    -> IF a < 0 THEN -a ELSE a
      [] op = "NOT"    -> Truth(a = 0)
      [] op = "0NOTEQUAL" -> Truth(a # 0)

Numeric1(m, op) ==
    IF ~Has(m, 1) \/ ~IsNum(Top(m.stack, 1)) THEN Failed(m)
    ELSE Replaced(m, 1, <<Encode(Unary(op, NumAt(m, 1)))>>)

TwoNumbers == {"ADD", "SUB", "BOOLAND", "BOOLOR", "NUMEQUAL", "NUMEQUALVERIFY", "NUMNOTEQUAL", "LESSTHAN",
               "GREATERTHAN", "LESSTHANOREQUAL", "GREATERTHANOREQUAL", "MIN", "MAX"}

Binary(op, a, b) ==
    CASE op = "ADD" -> a + b
      [] op = "SUB" -> a - b
      [] op = "BOOLAND" -> Truth(a # 0 /\ b # 0)
      [] op = "BOOLOR"  -> Truth(a # 0 \/ b # 0)
      [] op = "NUMNOTEQUAL" -> Truth(a # b)
      [] op = "LESSTHAN"    -> Truth(a < b)
      [] op = "GREATERTHAN" -> Truth(a > b)
      [] op = "LESSTHANOREQUAL"    -> Truth(a <= b)
      [] op = "GREATERTHANOREQUAL" -> Truth(a >= b)
      [] op = "MIN" -> IF a < b THEN a ELSE b
      [] op = "MAX" -> IF a > b THEN a ELSE b

Numeric2(m, op) ==
    IF ~Has(m, 2) \/ ~IsNum(Top(m.stack, 2)) \/ ~IsNum(Top(m.stack, 1)) THEN Failed(m)
    ELSE IF op \in {"NUMEQUAL", "NUMEQUALVERIFY"}
         THEN Result(m, 2, NumAt(m, 2) = NumAt(m, 1), op = "NUMEQUALVERIFY")
    ELSE Replaced(m, 2, <<Encode(Binary(op, NumAt(m, 2), NumAt(m, 1)))>>)

Between(x, low, high) == low <= x /\ x < high

Within(m) ==
    IF ~Has(m, 3) \/ \E i \in 1 .. 3 : ~IsNum(Top(m.stack, i)) THEN Failed(m)
    ELSE Result(m, 3, Between(NumAt(m, 3), NumAt(m, 2), NumAt(m, 1)), FALSE)

(* OP_EQUAL compares bytes, not numbers. *)
Equal(m, op) ==
    IF ~Has(m, 2) THEN Failed(m)
    ELSE Result(m, 2, Top(m.stack, 2) = Top(m.stack, 1), op = "EQUALVERIFY")

Hashes == {"RIPEMD160", "SHA1", "SHA256", "HASH160", "HASH256"}

Hash(m, op) ==
    IF op = "HASHHYBRID160"
    THEN IF Has(m, 4) THEN Replaced(m, 2, <<HybridHash(Top(m.stack, 2), Top(m.stack, 1))>>) ELSE Failed(m)
    ELSE IF Has(m, 1) THEN Replaced(m, 1, <<Hashed(Top(m.stack, 1))>>) ELSE Failed(m)

(* The script after the last separator, without the signatures. *)
ScriptCode(m, script, sigs) ==
    FoldLeft(FindAndDelete, SubSeq(script, m.code, Len(script)), sigs)

CheckSigOp(m, script, op) ==
    LET sig == Top(m.stack, 2) IN
    IF ~Has(m, 2) THEN Failed(m)
    ELSE Result(m, 2, CheckSig(sig, Top(m.stack, 1), ScriptCode(m, script, <<sig>>)), op = "CHECKSIGVERIFY")

CheckHybridOp(m, script, op) ==
    LET x(i) == Top(m.stack, i) IN
    IF ~Has(m, 4) THEN Failed(m)
    ELSE Result(m, 4, VerifyHybridSignature(x(4), x(3), x(2), x(1), ScriptCode(m, script, <<x(4), x(3)>>)),
                op = "CHECKHYBRIDSIGVERIFY")

(* The counts of a multisignature are there and in range.  width is the    *)
(* number of items of a key and of a signature; extra is the item that     *)
(* OP_CHECKMULTISIG pops beyond its arguments.                             *)
KeysCounted(m, width, extra, n) ==
    /\ n \in 0 .. 20 /\ m.ops + n <= MaxOps
    /\ Has(m, 2 + width * n) /\ IsNum(Top(m.stack, 2 + width * n))
    /\ LET k == NumAt(m, 2 + width * n) IN
       k \in 0 .. n /\ Has(m, 2 + width * (n + k) + extra)

CountsOk(m, width, extra) ==
    /\ Has(m, 1) /\ IsNum(Top(m.stack, 1))
    /\ KeysCounted(m, width, extra, NumAt(m, 1))

(* n keys and k signatures. *)
MultiSig(m, script, n, k, op) ==
    LET Key(i) == Top(m.stack, 1 + i)
        Sig(i) == Top(m.stack, n + 2 + i)
        Fits(code) == {p \in (1 .. k) \X (1 .. n) : CheckSig(Sig(p[1]), Key(p[2]), code)} IN
    Result([m EXCEPT !.ops = @ + n], n + k + 3,
           Matched(k, n, Fits(ScriptCode(m, script, [i \in 1 .. k |-> Sig(i)]))), op = "CHECKMULTISIGVERIFY")

CheckMultiSigOp(m, script, op) ==
    IF ~CountsOk(m, 1, 1) THEN Failed(m)
    ELSE MultiSig(m, script, NumAt(m, 1), NumAt(m, NumAt(m, 1) + 2), op)

(* OP_CHECKMULTIHYBRIDSIG: no item too many, no empty signature, and one   *)
(* hash type for all of them.                                              *)
MultiHybrid(m, n, k, sigs, code) ==
    LET fits == {p \in (1 .. k) \X (1 .. n) :
                    /\ CheckSig(sigs[2 * p[1]], Top(m.stack, 1 + 2 * p[2]), code)
                    /\ VerifyMLDSA(sigs[2 * p[1] - 1], Top(m.stack, 2 * p[2]),
                                   Preimage(code, sigs[2][2].type))} IN
    IF \E i \in DOMAIN sigs : sigs[i] = vchFalse THEN Failed(m)
    ELSE IF k = 0 THEN Result([m EXCEPT !.ops = @ + n], 2 * n + 2, TRUE, FALSE)
    ELSE IF \/ \E i \in DOMAIN sigs : sigs[i][1] \notin {"sig", "mlsig"}
            \/ \E i \in DOMAIN sigs : sigs[i][2].type # sigs[2][2].type
            \/ ~HasPreimage(sigs[2][2].type)
         THEN Failed(m)
    ELSE Result([m EXCEPT !.ops = @ + n], 2 * (n + k) + 2, Matched(k, n, fits), FALSE)

CheckMultiHybridOp(m, script) ==
    LET Sigs(n, k) == [i \in 1 .. 2 * k |-> Top(m.stack, 2 * n + 2 + i)]
        With(n, k, sigs) == MultiHybrid(m, n, k, sigs, ScriptCode(m, script, sigs))
        Counts(n, k) == With(n, k, Sigs(n, k)) IN
    IF ~CountsOk(m, 2, 0) THEN Failed(m) ELSE Counts(NumAt(m, 1), NumAt(m, 2 * NumAt(m, 1) + 2))

(* The switch over the opcodes that are executed. *)
Execute(m, script, op) ==
    CASE op = "NOP" -> m
      [] op = "VERIFY" -> IF Has(m, 1) /\ CastToBool(Top(m.stack, 1)) THEN Replaced(m, 1, <<>>) ELSE Failed(m)
      [] op \in DOMAIN Shuffles -> Shuffle(m, op)
      [] op \in WideShuffles -> WideShuffle(m, op)
      [] op \in {"PICK", "ROLL"} -> Dig(m, op)
      [] op \in {"TOALTSTACK", "FROMALTSTACK"} -> AltStack(m, op)
      [] op = "DEPTH" -> Replaced(m, 0, <<Encode(Len(m.stack))>>)
      [] op \in {"EQUAL", "EQUALVERIFY"} -> Equal(m, op)
      [] op \in OneNumber -> Numeric1(m, op)
      [] op \in TwoNumbers -> Numeric2(m, op)
      [] op = "WITHIN" -> Within(m)
      [] op \in Hashes \cup {"HASHHYBRID160"} -> Hash(m, op)
      [] op = "CODESEPARATOR" -> [m EXCEPT !.code = m.pc]
      [] op \in {"CHECKSIG", "CHECKSIGVERIFY"} -> CheckSigOp(m, script, op)
      [] op \in {"CHECKMULTISIG", "CHECKMULTISIGVERIFY"} -> CheckMultiSigOp(m, script, op)
      [] op \in {"CHECKHYBRIDSIG", "CHECKHYBRIDSIGVERIFY"} -> CheckHybridOp(m, script, op)
      [] op = "CHECKMULTIHYBRIDSIG" -> CheckMultiHybridOp(m, script)
      [] OTHER -> Failed(m)

(* Opcodes above OP_16 count, whether their branch is taken or not. *)
Counted(m, i) == [m EXCEPT !.pc = @ + 1, !.ops = @ + IF i[1] = "op" /\ i[2] # "RESERVED" THEN 1 ELSE 0]

Turned(m, script, i) ==
    CASE i[1] = "op" /\ i[2] \in Conditionals -> Conditional(m, i[2])
      [] ~Executing(m) -> m
      [] i[1] = "push" -> Replaced(m, 0, <<i[2]>>)
      [] i[1] = "num" -> Replaced(m, 0, <<Encode(i[2])>>)
      [] OTHER -> Execute(m, script, i[2])

(* The limits before and after an instruction. *)
Bounded(m) == IF Len(m.stack) + Len(m.alt) > MaxStack THEN Failed(m) ELSE m

Limited(m, script, i) ==
    IF \/ i[1] = "push" /\ Size(i[2]) > MaxElement
       \/ m.ops > MaxOps
       \/ i[1] = "op" /\ i[2] \in Disabled
    THEN Failed(m) ELSE Bounded(Turned(m, script, i))

(* One turn of the loop of EvalScript, unless it has returned. *)
Step(m, script) == Limited(Counted(m, script[m.pc]), script, script[m.pc])
Continued(m, script) == IF m.ok THEN Step(m, script) ELSE m

(* EvalScript to its end. *)
Ended(m, script) == IF Len(script) > MaxScriptLength \/ m.exec # <<>> THEN Failed(m) ELSE m

EvalScript(stack, script) ==
    LET run[n \in 0 .. Len(script)] == IF n = 0 THEN Start(stack) ELSE Continued(run[n - 1], script)
    IN  Ended(run[Len(script)], script)

IsPayToScriptHash(script) ==
    /\ Len(script) = 3 /\ script[1] = Op("HASH160") /\ script[3] = Op("EQUAL")
    /\ script[2][1] = "push" /\ script[2][2][1] = "hash"

(* Opcodes up to OP_16, OP_RESERVED among them. *)
IsPushOnly(script) == \A i \in DOMAIN script : script[i][1] # "op" \/ script[i] = Op("RESERVED")

Accepts(m) == m.ok /\ m.stack # <<>> /\ CastToBool(Last(m.stack))

(* The signature script, the public key script on what it leaves, and the  *)
(* redeem script on what it left below that.                               *)
VerifyAfter(a, scriptSig, scriptPubKey) ==
    /\ a.ok /\ Accepts(EvalScript(a.stack, scriptPubKey))
    /\ IsPayToScriptHash(scriptPubKey) =>
          /\ IsPushOnly(scriptSig) /\ Last(a.stack)[1] = "script"
          /\ Accepts(EvalScript(Front(a.stack), Last(a.stack)[2]))

VerifyScript(scriptSig, scriptPubKey) ==
    VerifyAfter(EvalScript(<<>>, scriptSig), scriptSig, scriptPubKey)

(* GetSigOpCount: the accurate form reads the number of keys before a      *)
(* multisignature, the other one assumes twenty.  A hybrid one is two.     *)
GetSigOpCount(script, accurate) ==
    LET Keys(i) == IF accurate /\ i > 1 /\ script[i - 1][1] = "num" /\ script[i - 1][2] > 0
                   THEN script[i - 1][2] ELSE 20
        Cost(i) == IF script[i][1] # "op" THEN 0
                   ELSE CASE script[i][2] \in {"CHECKSIG", "CHECKSIGVERIFY"} -> 1
                          [] script[i][2] \in {"CHECKMULTISIG", "CHECKMULTISIGVERIFY"} -> Keys(i)
                          [] script[i][2] \in {"CHECKHYBRIDSIG", "CHECKHYBRIDSIGVERIFY"} -> 2
                          [] script[i][2] = "CHECKMULTIHYBRIDSIG" -> 2 * Keys(i)
                          [] OTHER -> 0 IN
    FoldLeft(+, 0, [i \in DOMAIN script |-> Cost(i)])

(* That of a spent output: for pay-to-script-hash, of the redeem script. *)
SigOpsOfSpend(scriptPubKey, scriptSig) ==
    IF ~IsPayToScriptHash(scriptPubKey) THEN GetSigOpCount(scriptPubKey, TRUE)
    ELSE IF ~IsPushOnly(scriptSig) \/ scriptSig = <<>> THEN 0
    ELSE IF Last(scriptSig)[1] = "push" /\ Last(scriptSig)[2][1] = "script"
         THEN GetSigOpCount(Last(scriptSig)[2][2], TRUE) ELSE 0
=============================================================================
