------------------------------- MODULE Codecs -------------------------------
(***************************************************************************)
(* The conversions between values and their text or wire form: base 58     *)
(* with its check bytes, addresses and secrets (base58.h), base 64, base   *)
(* 32, hexadecimal and amounts of money (util.cpp), the compact size       *)
(* (serialize.h) and the compact form of a target (bignum.h).              *)
(*                                                                         *)
(* Bytes are 0 .. 255 and a text is a sequence of digits, that is of       *)
(* positions in the alphabet in question, with Space and Other for all     *)
(* characters outside it.  Widths that only make the numbers large are     *)
(* constants.  Each state is one input.                                    *)
(***************************************************************************)
EXTENDS Integers, Sequences, FiniteSets, SequencesExt

CONSTANTS
    Bytes,       \* the bytes tried
    MaxLen,      \* the longest byte string tried
    CheckSize,   \* check bytes: 4 in the code
    IdSize,      \* bytes of a key or script hash: 20 in the code
    SecretSize,  \* bytes of a secret: 32 in the code
    Decimals,    \* decimal places of an amount: 8 in the code
    MaxWhole,    \* digits of an amount before the point: 10 in the code
    Amounts,     \* amounts tried
    Sizes,       \* sizes tried
    Targets      \* targets tried

VARIABLE input

codecVars == <<input>>

Space == 100
Other == 101
Pad   == 102

Strings(n) == UNION {[1 .. k -> Bytes] : k \in 0 .. n}
DropSpace(s) ==
    IF \A i \in DOMAIN s : s[i] = Space THEN <<>>
    ELSE SubSeq(s, SelectInSeq(s, LAMBDA c : c # Space), Len(s))
LeadingZeros(s) ==
    IF \A i \in DOMAIN s : s[i] = 0 THEN Len(s) ELSE SelectInSeq(s, LAMBDA c : c # 0) - 1
Zeros(n) == [i \in 1 .. n |-> 0]

----------------------------------------------------------------------------
(* Base 58. *)

(* BN_div of a number, as big-endian digits to the base 256, by 58. *)
DivMod58(s) ==
    FoldLeft(LAMBDA acc, b : [quo |-> Append(acc.quo, (acc.rem * 256 + b) \div 58),
                              rem |-> (acc.rem * 256 + b) % 58],
             [quo |-> <<>>, rem |-> 0], s)

RECURSIVE Digits58(_)
Digits58(s) ==
    IF \A i \in DOMAIN s : s[i] = 0 THEN <<>>
    ELSE Append(Digits58(DivMod58(s).quo), DivMod58(s).rem)

EncodeBase58(s) == Zeros(LeadingZeros(s)) \o Digits58(s)

(* The number times 58 plus a digit, as little-endian bytes. *)
MulAdd58(le, digit) ==
    LET r == FoldLeft(LAMBDA acc, b : [out |-> Append(acc.out, (b * 58 + acc.carry) % 256),
                                       carry |-> (b * 58 + acc.carry) \div 256],
                      [out |-> <<>>, carry |-> digit], le)
    IN  IF r.carry > 0 THEN Append(r.out, r.carry) ELSE r.out

(* CBigNum::getvch: a zero byte keeps a high last byte from being a sign. *)
Getvch(le) == IF le # <<>> /\ Last(le) >= 128 THEN Append(le, 0) ELSE le

(* Mutant: the sign byte stays. *)
TrimSignNever(v) == v

TrimSign(v) ==
    IF Len(v) >= 2 /\ Last(v) = 0 /\ v[Len(v) - 1] >= 128 THEN Front(v) ELSE v

Invalid == <<Other>>

(* Space before and after the digits is dropped, anything else is refused. *)
Decoded58(text, end) ==
    IF \E i \in end .. Len(text) : text[i] # Space THEN Invalid
    ELSE Zeros(LeadingZeros(SubSeq(text, 1, end - 1)))
           \o Reverse(TrimSign(Getvch(FoldLeft(MulAdd58, <<>>, SubSeq(text, 1, end - 1)))))

DecodeBase58(s) ==
    LET text == DropSpace(s)
    IN  Decoded58(text, IF \E i \in DOMAIN text : text[i] >= 58
                        THEN SelectInSeq(text, LAMBDA c : c >= 58) ELSE Len(text) + 1)

(* The first bytes of a hash: any function of the data will do. *)
Check(s) == [i \in 1 .. CheckSize |-> (FoldLeft(LAMBDA a, b : a * 7 + b + 1, i, s)) % 256]

EncodeBase58Check(s) == EncodeBase58(s \o Check(s))

Checked(s, body) ==
    IF SubSeq(s, Len(s) - CheckSize + 1, Len(s)) = Check(body) THEN body ELSE <<>>

DecodeBase58Check(text) ==
    LET s == DecodeBase58(text)
    IN  IF s = Invalid \/ Len(s) < CheckSize THEN <<>>
        ELSE Checked(s, SubSeq(s, 1, Len(s) - CheckSize))

(* An address or a secret: the version byte and the data. *)
TextOf(version, data) == EncodeBase58Check(<<version>> \o data)

SetString(text) ==
    LET s == DecodeBase58Check(text)
    IN  IF s = <<>> THEN [version |-> 0, data |-> <<>>] ELSE [version |-> s[1], data |-> Tail(s)]

Kinds == {"key", "script", "hybrid"}
Version(kind, test) ==
    CASE kind = "key"    -> IF test THEN 111 ELSE 56
      [] kind = "script" -> IF test THEN 52 ELSE 63
      [] kind = "hybrid" -> IF test THEN 106 ELSE 58
SecretVersion(test) == (Version("key", test) + 128) % 256

(* CCoinAddress::IsValid and Get, on the network given. *)
Get(addr, test) ==
    {[kind |-> k, id |-> addr.data] : k \in {k \in Kinds : Version(k, test) = addr.version
                                                          /\ Len(addr.data) = IdSize}}

(* CCoinSecret: a compressed key has one more byte, a 1. *)
SetSecret(secret, compressed) == IF compressed THEN Append(secret, 1) ELSE secret
IsSecret(s, test) ==
    /\ s.version = SecretVersion(test)
    /\ Len(s.data) \in {SecretSize, SecretSize + 1}
    /\ Len(s.data) = SecretSize + 1 => Last(s.data) = 1
GetSecret(s) ==
    [secret |-> SubSeq(s.data, 1, SecretSize), compressed |-> Len(s.data) = SecretSize + 1]

----------------------------------------------------------------------------
(* Base 64 and base 32: groups of `bits' bits, texts padded to a multiple of *)
(* `group' digits. *)

RECURSIVE Emit(_, _, _)
(* Whole digits of the bits that are held. *)
Emit(st, bits, held) ==
    IF held < bits THEN [st EXCEPT !.held = held]
    ELSE LET rest == 2 ^ (held - bits)
         IN  Emit([out |-> Append(st.out, st.left \div rest), left |-> st.left % rest, held |-> 0],
                  bits, held - bits)

Regroup(s, from, to) ==
    FoldLeft(LAMBDA st, d : Emit([st EXCEPT !.left = @ * 2 ^ from + d], to, st.held + from),
             [out |-> <<>>, left |-> 0, held |-> 0], s)

EncodeBits(s, bits, group) ==
    LET r == Regroup(s, 8, bits)
        text == IF r.held = 0 THEN r.out ELSE Append(r.out, r.left * 2 ^ (bits - r.held))
    IN  text \o [i \in 1 .. (-Len(text)) % group |-> Pad]

(* The digits up to the first other character; what is left of the last     *)
(* group must be zero, less than a digit, and followed by its padding. *)
DecodeBits(text, bits, group) ==
    LET end == IF \E i \in DOMAIN text : text[i] >= Space
               THEN SelectInSeq(text, LAMBDA c : c >= Space) ELSE Len(text) + 1
        r == Regroup(SubSeq(text, 1, end - 1), bits, 8)
        pads == (-(end - 1)) % group
    IN  IF pads > 0 /\ (\/ r.held >= bits \/ r.left # 0
                        \/ \E i \in end .. end + pads - 1 : i > Len(text) \/ text[i] # Pad)
        THEN Invalid ELSE r.out

EncodeBase64(s) == EncodeBits(s, 6, 4)
DecodeBase64(text) == DecodeBits(text, 6, 4)
EncodeBase32(s) == EncodeBits(s, 5, 8)
DecodeBase32(text) == DecodeBits(text, 5, 8)

(* Two digits for a byte, and a space between two bytes if asked for. *)
HexStr(s, fSpaces) ==
    FoldLeft(LAMBDA text, b : text \o (IF fSpaces /\ text # <<>> THEN <<Space>> ELSE <<>>)
                                   \o <<b \div 16, b % 16>>,
             <<>>, s)

RECURSIVE ParseHex(_)
(* Pairs of digits, with space before a pair but not within it; the first   *)
(* other character ends the value. *)
ParseHex(text) ==
    LET t == DropSpace(text)
    IN  IF Len(t) < 2 \/ \E i \in 1 .. 2 : t[i] >= 16 THEN <<>>
        ELSE <<t[1] * 16 + t[2]>> \o ParseHex(SubSeq(t, 3, Len(t)))

----------------------------------------------------------------------------
(* Money: [sign, whole, frac], with digit sequences. *)

Coin == 10 ^ Decimals
RECURSIVE Decimal(_)
Decimal(n) == IF n < 10 THEN <<n>> ELSE Append(Decimal(n \div 10), n % 10)

(* Zeros at the end go, two decimals stay. *)
RECURSIVE Trim(_)
Trim(frac) == IF Len(frac) > 2 /\ Last(frac) = 0 THEN Trim(Front(frac)) ELSE frac

FormatMoney(n) ==
    LET abs == IF n > 0 THEN n ELSE -n
        d   == Decimal(abs % Coin)
    IN  [sign |-> n < 0, whole |-> Decimal(abs \div Coin),
         frac |-> Trim(Zeros(Decimals - Len(d)) \o d)]

Units(frac) ==
    FoldLeft(LAMBDA acc, d : [sum |-> acc.sum + acc.mult * d, mult |-> acc.mult \div 10],
             [sum |-> 0, mult |-> Coin \div 10], frac).sum

(* A sign is not a digit; decimals beyond the last place are not space. *)
ParseMoney(t) ==
    IF t.sign \/ Len(t.frac) > Decimals \/ Len(t.whole) > MaxWhole THEN Invalid
    ELSE <<FoldLeft(LAMBDA a, d : a * 10 + d, 0, t.whole) * Coin + Units(t.frac)>>

----------------------------------------------------------------------------
(* Compact sizes, little-endian. *)

MAX_SIZE == 33554432
LittleEndian(n, width) == [i \in 1 .. width |-> (n \div 256 ^ (i - 1)) % 256]
Value(s) == FoldLeft(LAMBDA a, b : a * 256 + b, 0, Reverse(s))

WriteCompactSize(n) ==
    CASE n < 253                  -> <<n>>
      [] 253 <= n /\ n <= 65535   -> <<253>> \o LittleEndian(n, 2)
      [] OTHER                    -> <<254>> \o LittleEndian(n, 4)

Canonical(n, marker) ==
    CASE marker = 253 -> n >= 253
      [] marker = 254 -> n > 65535

(* A nine byte size is either not canonical or too large. *)
ReadCompactSize(s) ==
    LET n == IF s[1] < 253 THEN s[1] ELSE Value(Tail(s))
    IN  IF s[1] = 255 \/ (s[1] >= 253 /\ ~Canonical(n, s[1])) \/ n > MAX_SIZE
        THEN Invalid ELSE <<n>>

----------------------------------------------------------------------------
(* Compact targets: the number of bytes and the first three of them, as      *)
(* OpenSSL writes a number: big-endian, a first byte below 128. *)

RECURSIVE BigEndian(_)
BigEndian(n) == IF n = 0 THEN <<>> ELSE Append(BigEndian(n \div 256), n % 256)

Mpi(n) == LET s == BigEndian(n) IN IF s # <<>> /\ s[1] >= 128 THEN <<0>> \o s ELSE s

GetCompact(n) ==
    LET s == Mpi(n)
    IN  [size |-> Len(s), word |-> [i \in 1 .. 3 |-> IF i <= Len(s) THEN s[i] ELSE 0]]

(* A first byte with its high bit set makes the number negative. *)
SetCompact(c) ==
    LET s == [i \in 1 .. c.size |-> IF i <= 3 THEN c.word[i] ELSE 0]
        magnitude == FoldLeft(LAMBDA a, b : a * 256 + b, 0, [s EXCEPT ![1] = @ % 128])
    IN  IF c.size = 0 THEN 0 ELSE IF s[1] >= 128 THEN -magnitude ELSE magnitude

----------------------------------------------------------------------------
Pick(kind, value) == [kind |-> kind, value |-> value]
CodecInit == input = Pick("none", 0)
CodecNext ==
    /\ input.kind = "none"
    /\ \/ \E s \in Strings(MaxLen) : input' = Pick("bytes", s)
       \/ \E n \in Amounts : input' = Pick("amount", n)
       \/ \E n \in Sizes : input' = Pick("size", n)
       \/ \E n \in Targets : input' = Pick("target", n)
CodecSpec == CodecInit /\ [][CodecNext]_codecVars

(* Spaces around a text, as a user may paste it. *)
Pasted(text) == <<Space>> \o text \o <<Space, Space>>

AddressIs(addr, kind, here, id) ==
    \A there \in BOOLEAN :
        Get(addr, there) = IF here = there THEN {[kind |-> kind, id |-> id]} ELSE {}
SecretIs(addr, compressed, here, secret) ==
    /\ \A there \in BOOLEAN : IsSecret(addr, there) <=> (here = there)
    /\ GetSecret(addr) = [secret |-> secret, compressed |-> compressed]

(* Every encoding is undone by its decoding, at the bytes where digits, sign *)
(* bytes and leading zeros meet (base58.h:44-103, util.cpp:301-873); an      *)
(* address and a secret keep kind, network and data and belong to no other   *)
(* kind or network (base58.h:293-334, 451-472). *)
EncodingsInverse ==
    LET s == input.value
    IN  /\ input.kind = "bytes" =>
             /\ DecodeBase58(Pasted(EncodeBase58(s))) = s
             /\ DecodeBase58Check(EncodeBase58Check(s)) = s
             /\ DecodeBase64(EncodeBase64(s)) = s
             /\ DecodeBase32(EncodeBase32(s)) = s
             /\ \A spaces \in BOOLEAN : ParseHex(Pasted(HexStr(s, spaces))) = s
             /\ Len(s) = IdSize =>
                  \A k \in Kinds, here \in BOOLEAN :
                    AddressIs(SetString(TextOf(Version(k, here), s)), k, here, s)
             /\ Len(s) = SecretSize =>
                  \A c, here \in BOOLEAN :
                    SecretIs(SetString(TextOf(SecretVersion(here), SetSecret(s, c))), c, here, s)
        /\ input.kind = "amount" =>
             ParseMoney(FormatMoney(s)) = IF s < 0 THEN Invalid ELSE <<s>>

(* A size is read as it was written, and no other bytes are read as it       *)
(* (serialize.h:217-244); a target keeps its first bytes and its sign, and   *)
(* its compact form does not change when it is taken again (bignum.h:292-    *)
(* 314). *)
NumbersKept ==
    LET n == input.value
    IN  /\ input.kind = "size" =>
             /\ ReadCompactSize(WriteCompactSize(n)) = IF n <= MAX_SIZE THEN <<n>> ELSE Invalid
             /\ \A marker \in {253, 254} :
                  LET s == <<marker>> \o LittleEndian(n, IF marker = 253 THEN 2 ELSE 4)
                  IN  ReadCompactSize(s) # Invalid => s = WriteCompactSize(ReadCompactSize(s)[1])
        /\ input.kind = "target" =>
             LET c == GetCompact(n)
             IN  /\ GetCompact(SetCompact(c)) = c
                 /\ n - SetCompact(c) \in 0 .. 256 ^ (IF c.size > 3 THEN c.size - 3 ELSE 0) - 1
=============================================================================
