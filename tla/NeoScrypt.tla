----------------------------- MODULE NeoScrypt -----------------------------
(***************************************************************************)
(* The proof-of-work hash in C (neoscrypt.c): BLAKE2s with its unrolled    *)
(* rounds, SHA-256, HMAC and PBKDF2, Salsa20 and ChaCha20, the block mixer *)
(* with its short cuts, FastKDF as it is written down and as it is         *)
(* optimised, and the engine that puts them together for a profile.        *)
(*                                                                         *)
(* A 32-bit word is the pair of its halves, the high one first; a buffer   *)
(* is a sequence of bytes.  The tests are in the state: job is what is     *)
(* hashed next.                                                            *)
(***************************************************************************)
EXTENDS Integers, Sequences

Bits == INSTANCE Bitwise

CONSTANTS
    Blake2sAnswers,   \* [input, key, output]: keyed BLAKE2s (RFC 7693)
    ScryptAnswers,    \* [password, Nfactor, rfactor, output]: scrypt (RFC 7914), salt = password
    KdfInputs,        \* [password, salt, mode]: inputs of FastKDF
    MixInputs         \* [X, mixer]: blocks to mix, and the mixer

VARIABLE job

powVars == <<job>>

BLOCK_SIZE == 64
DIGEST_SIZE == 32
Half == 65536

XorBytes == [a \in 0 .. 255 |-> [b \in 0 .. 255 |-> Bits!^^(a, b)]]
XorHalf(a, b) == 256 * XorBytes[a \div 256][b \div 256] + XorBytes[a % 256][b % 256]
AndHalf(a, b) == (a + b - XorHalf(a, b)) \div 2

Xor(a, b) == <<XorHalf(a[1], b[1]), XorHalf(a[2], b[2])>>
And(a, b) == <<AndHalf(a[1], b[1]), AndHalf(a[2], b[2])>>
Or(a, b) == <<a[1] + b[1] - AndHalf(a[1], b[1]), a[2] + b[2] - AndHalf(a[2], b[2])>>
Add(a, b) ==
    LET low == a[2] + b[2]
    IN  <<(a[1] + b[1] + low \div Half) % Half, low % Half>>
ROTL32(a, n) ==
    LET k == n % 16
        b == IF n < 16 THEN a ELSE <<a[2], a[1]>>
    IN  <<((b[1] * 2^k) % Half) + b[2] \div 2^(16 - k), ((b[2] * 2^k) % Half) + b[1] \div 2^(16 - k)>>
ROTR32(a, n) == ROTL32(a, 32 - n)
ShiftRight(a, n) == <<a[1] \div 2^n, a[2] \div 2^n + ((a[1] * 2^(16 - n)) % Half)>>

Word(n) == <<n \div Half, n % Half>>
Ones == <<Half - 1, Half - 1>>
LittleWord(s, i) == <<s[i + 3] * 256 + s[i + 2], s[i + 1] * 256 + s[i]>>
BigWord(s, i) == <<s[i] * 256 + s[i + 1], s[i + 2] * 256 + s[i + 3]>>
LittleBytes(w) == <<w[2] % 256, w[2] \div 256, w[1] % 256, w[1] \div 256>>
BigBytes(w) == <<w[1] \div 256, w[1] % 256, w[2] \div 256, w[2] % 256>>
Zeros(n) == [i \in 1 .. n |-> 0]
First(s, n) == SubSeq(s, 1, n)
From(s, n) == SubSeq(s, n, Len(s))

\* Sequences of words to bytes and back.
Bytes(ws, op(_)) == [i \in 1 .. 4 * Len(ws) |-> op(ws[(i + 3) \div 4])[((i - 1) % 4) + 1]]
Words(s) == [i \in 1 .. Len(s) \div 4 |-> LittleWord(s, 4 * i - 3)]
XorAll(a, b) == [i \in DOMAIN a |-> Xor(a[i], b[i])]
XorSeq(a, b) == [i \in DOMAIN a |-> XorBytes[a[i]][b[i]]]

\* neoscrypt_xor and neoscrypt_copy into a buffer at an offset from 0.
XorInto(buf, at, s) == [i \in DOMAIN buf |-> IF i - at \in DOMAIN s THEN XorBytes[buf[i]][s[i - at]] ELSE buf[i]]
CopyInto(buf, at, s) == [i \in DOMAIN buf |-> IF i - at \in DOMAIN s THEN s[i - at] ELSE buf[i]]

IV == <<<<\h6A09, \hE667>>, <<\hBB67, \hAE85>>, <<\h3C6E, \hF372>>, <<\hA54F, \hF53A>>,
    <<\h510E, \h527F>>, <<\h9B05, \h688C>>, <<\h1F83, \hD9AB>>, <<\h5BE0, \hCD19>>>>

-----------------------------------------------------------------------------
(* BLAKE2s.  S is [h, t, f, buf], with the buffered bytes in buf.          *)

Quads == <<<<1, 5, 9, 13>>, <<2, 6, 10, 14>>, <<3, 7, 11, 15>>, <<4, 8, 12, 16>>,
           <<1, 6, 11, 16>>, <<2, 7, 12, 13>>, <<3, 8, 9, 14>>, <<4, 5, 10, 15>>>>

\* The message words of the eight mixes of each round.
Round0 == <<0, 1, 2, 3, 4, 5, 6, 7, 8, 9, 10, 11, 12, 13, 14, 15>>
Round1 == <<14, 10, 4, 8, 9, 15, 13, 6, 1, 12, 0, 2, 11, 7, 5, 3>>
Round2 == <<11, 8, 12, 0, 5, 2, 15, 13, 10, 14, 3, 6, 7, 1, 9, 4>>
Round3 == <<7, 9, 3, 1, 13, 12, 11, 14, 2, 6, 5, 10, 4, 0, 15, 8>>
Round4 == <<9, 0, 5, 7, 2, 4, 10, 15, 14, 1, 11, 12, 6, 8, 3, 13>>
Round5 == <<2, 12, 6, 10, 0, 11, 8, 3, 4, 13, 7, 5, 15, 14, 1, 9>>
Round6 == <<12, 5, 1, 15, 14, 13, 4, 10, 0, 7, 6, 3, 9, 2, 8, 11>>
Round7 == <<13, 11, 7, 14, 12, 1, 3, 9, 5, 0, 15, 4, 8, 6, 2, 10>>
Round8 == <<6, 15, 14, 9, 11, 3, 0, 8, 12, 2, 13, 7, 1, 4, 10, 5>>
\* Mutant: two message words of the last round in the wrong order.
Round9Swapped == <<10, 2, 8, 4, 7, 6, 1, 5, 15, 11, 14, 9, 3, 12, 13, 0>>

Round9 == <<10, 2, 8, 4, 7, 6, 1, 5, 15, 11, 9, 14, 3, 12, 13, 0>>

Rounds == <<Round0, Round1, Round2, Round3, Round4, Round5, Round6, Round7, Round8, Round9>>

\* One line of a mix each, and the four lines that are repeated with other
\* rotations.
LineA(v, q, x) == [v EXCEPT ![q[1]] = Add(Add(@, v[q[2]]), x)]
LineD(v, q, n) == [v EXCEPT ![q[4]] = ROTL32(Xor(@, v[q[1]]), n)]
LineC(v, q) == [v EXCEPT ![q[3]] = Add(@, v[q[4]])]
LineB(v, q, n) == [v EXCEPT ![q[2]] = ROTL32(Xor(@, v[q[3]]), n)]
HalfMix(v, q, x, d, b) == LineB(LineC(LineD(LineA(v, q, x), q, d), q), q, b)

\* The rotations are to the right by 16, 12, 8 and 7.
Mix(v, q, x, y) == HalfMix(HalfMix(v, q, x, 16, 20), q, y, 24, 25)

\* L is [v, n]: the words, and the mixes done.
RECURSIVE MixAll(_, _)
MixAll(L, m) ==
    LET word(i) == m[Rounds[L.n \div 8 + 1][2 * (L.n % 8) + i] + 1]
    IN  IF L.n = 80 THEN L.v
        ELSE MixAll([v |-> Mix(L.v, Quads[(L.n % 8) + 1], word(1), word(2)), n |-> L.n + 1], m)

Compressed(S, v) == [S EXCEPT !.h = [i \in 1 .. 8 |-> Xor(@[i], Xor(v[i], v[i + 8]))]]

blake2s_compress(S) ==
    Compressed(S, MixAll([v |-> S.h \o First(IV, 4) \o
                                  <<Xor(Word(S.t), IV[5]), IV[6], Xor(S.f, IV[7]), IV[8]>>, n |-> 0],
                         Words(First(S.buf, BLOCK_SIZE))))

RECURSIVE blake2s_update(_, _)
blake2s_update(S, input) ==
    LET fill == 2 * BLOCK_SIZE - Len(S.buf)
        full == blake2s_compress([S EXCEPT !.buf = @ \o First(input, fill), !.t = @ + BLOCK_SIZE])
    IN  IF Len(input) > fill
        THEN blake2s_update([full EXCEPT !.buf = From(@, BLOCK_SIZE + 1)], From(input, fill + 1))
        ELSE [S EXCEPT !.buf = @ \o input]

blake2s_init(key_size, output_size) ==
    [h |-> [IV EXCEPT ![1] = Xor(@, <<257, key_size * 256 + output_size>>)],
     t |-> 0, f |-> Word(0), buf |-> <<>>]

FinalBlock(S) ==
    blake2s_compress([S EXCEPT !.t = @ + Len(S.buf), !.f = Ones, !.buf = @ \o Zeros(2 * BLOCK_SIZE - Len(@))])

blake2s_final(S) ==
    FinalBlock(IF Len(S.buf) > BLOCK_SIZE
               THEN [blake2s_compress([S EXCEPT !.t = @ + BLOCK_SIZE]) EXCEPT !.buf = From(@, BLOCK_SIZE + 1)]
               ELSE S)

neoscrypt_blake2s(input, key, output_size) ==
    LET keyed == blake2s_update(blake2s_init(Len(key), output_size), key \o Zeros(BLOCK_SIZE - Len(key)))
    IN  First(Bytes(blake2s_final(blake2s_update(keyed, input)).h, LittleBytes), output_size)

-----------------------------------------------------------------------------
(* SHA-256, HMAC and PBKDF2.  S is [H, T, buffer].                         *)

sha256_constants == <<
    <<\h428A, \h2F98>>, <<\h7137, \h4491>>, <<\hB5C0, \hFBCF>>, <<\hE9B5, \hDBA5>>,
    <<\h3956, \hC25B>>, <<\h59F1, \h11F1>>, <<\h923F, \h82A4>>, <<\hAB1C, \h5ED5>>,
    <<\hD807, \hAA98>>, <<\h1283, \h5B01>>, <<\h2431, \h85BE>>, <<\h550C, \h7DC3>>,
    <<\h72BE, \h5D74>>, <<\h80DE, \hB1FE>>, <<\h9BDC, \h6A7>>, <<\hC19B, \hF174>>,
    <<\hE49B, \h69C1>>, <<\hEFBE, \h4786>>, <<\hFC1, \h9DC6>>, <<\h240C, \hA1CC>>,
    <<\h2DE9, \h2C6F>>, <<\h4A74, \h84AA>>, <<\h5CB0, \hA9DC>>, <<\h76F9, \h88DA>>,
    <<\h983E, \h5152>>, <<\hA831, \hC66D>>, <<\hB003, \h27C8>>, <<\hBF59, \h7FC7>>,
    <<\hC6E0, \hBF3>>, <<\hD5A7, \h9147>>, <<\h6CA, \h6351>>, <<\h1429, \h2967>>,
    <<\h27B7, \hA85>>, <<\h2E1B, \h2138>>, <<\h4D2C, \h6DFC>>, <<\h5338, \hD13>>,
    <<\h650A, \h7354>>, <<\h766A, \hABB>>, <<\h81C2, \hC92E>>, <<\h9272, \h2C85>>,
    <<\hA2BF, \hE8A1>>, <<\hA81A, \h664B>>, <<\hC24B, \h8B70>>, <<\hC76C, \h51A3>>,
    <<\hD192, \hE819>>, <<\hD699, \h624>>, <<\hF40E, \h3585>>, <<\h106A, \hA070>>,
    <<\h19A4, \hC116>>, <<\h1E37, \h6C08>>, <<\h2748, \h774C>>, <<\h34B0, \hBCB5>>,
    <<\h391C, \hCB3>>, <<\h4ED8, \hAA4A>>, <<\h5B9C, \hCA4F>>, <<\h682E, \h6FF3>>,
    <<\h748F, \h82EE>>, <<\h78A5, \h636F>>, <<\h84C8, \h7814>>, <<\h8CC7, \h208>>,
    <<\h90BE, \hFFFA>>, <<\hA450, \h6CEB>>, <<\hBEF9, \hA3F7>>, <<\hC671, \h78F2>>>>

Ch(x, y, z) == Xor(z, And(x, Xor(y, z)))
Maj(x, y, z) == Or(And(Or(x, y), z), And(x, y))
Xor3(a, b, c) == Xor(a, Xor(b, c))
S0(x) == Xor3(ROTR32(x, 2), ROTR32(x, 13), ROTR32(x, 22))
S1(x) == Xor3(ROTR32(x, 6), ROTR32(x, 11), ROTR32(x, 25))
G0(x) == Xor3(ROTR32(x, 7), ROTR32(x, 18), ShiftRight(x, 3))
G1(x) == Xor3(ROTR32(x, 17), ROTR32(x, 19), ShiftRight(x, 10))

RECURSIVE Schedule(_)
Schedule(w) ==
    IF Len(w) = 64 THEN w
    ELSE LET back(n) == w[Len(w) + 1 - n]
         IN  Schedule(Append(w, Add(Add(G1(back(2)), back(7)), Add(G0(back(15)), back(16)))))

Rotated(r, t0, t1) == <<Add(t0, t1), r[1], r[2], r[3], Add(r[4], t0), r[5], r[6], r[7]>>

RECURSIVE STEP(_, _)
STEP(L, w) ==
    LET r == L.r
        i == L.n + 1
    IN  IF L.n = 64 THEN r
        ELSE STEP([r |-> Rotated(r, Add(Add(Add(r[8], S1(r[5])), Ch(r[5], r[6], r[7])), Add(sha256_constants[i], w[i])),
                                    Add(S0(r[1]), Maj(r[1], r[2], r[3]))), n |-> i], w)

AddedState(S, r) == [S EXCEPT !.H = [i \in 1 .. 8 |-> Add(@[i], r[i])], !.T = @ + BLOCK_SIZE * 8]

RECURSIVE sha256_blocks(_, _)
sha256_blocks(S, in) ==
    IF in = <<>> THEN S
    ELSE sha256_blocks(AddedState(S, STEP([r |-> S.H, n |-> 0], Schedule([i \in 1 .. 16 |-> BigWord(in, 4 * i - 3)]))),
                       From(in, BLOCK_SIZE + 1))

hash_init == [H |-> IV, T |-> 0, buffer |-> <<>>]

\* Whole blocks of the input, and the rest kept.
WholeBlocks(S, in, size) == [sha256_blocks(S, First(in, size)) EXCEPT !.buffer = From(in, size + 1)]

hash_update(S, in) ==
    LET size == Len(S.buffer) + Len(in)
    IN  WholeBlocks(S, S.buffer \o in, size - (size % BLOCK_SIZE))

hash_finish(S) ==
    LET left == Len(S.buffer)
        size == Zeros(4) \o BigBytes(Word(S.T + left * 8))
        pad  == IF left <= 55 THEN 55 - left ELSE 119 - left
    IN  Bytes(sha256_blocks(S, S.buffer \o <<128>> \o Zeros(pad) \o size).H, BigBytes)

hmac_init(key) ==
    LET pads(k) == [inner |-> hash_update(hash_init, XorInto([i \in 1 .. BLOCK_SIZE |-> 54], 0, k)),
                    outer |-> hash_update(hash_init, XorInto([i \in 1 .. BLOCK_SIZE |-> 92], 0, k))]
    IN  pads(IF Len(key) <= BLOCK_SIZE THEN key ELSE hash_finish(hash_update(hash_init, key)))

hmac_update(st, m) == [st EXCEPT !.inner = hash_update(@, m)]
hmac_finish(st) == hash_finish(hash_update(st.outer, hash_finish(st.inner)))

\* U1 ^ U2 ^ ... of one block of output.
RECURSIVE Iterated(_, _, _, _)
Iterated(pw, u, ti, n) ==
    LET next(u2) == Iterated(pw, u2, XorSeq(ti, u2), n - 1)
    IN  IF n = 1 THEN ti ELSE next(hmac_finish(hmac_update(pw, u)))

RECURSIVE pbkdf2_blocks(_, _, _, _, _)
pbkdf2_blocks(pw, salted, i, N, output_len) ==
    LET size     == IF output_len > DIGEST_SIZE THEN DIGEST_SIZE ELSE output_len
        block(u) == First(Iterated(pw, u, u, N), size)
    IN  IF output_len <= 0 THEN <<>>
        ELSE block(hmac_finish(hmac_update(salted, BigBytes(Word(i)))))
               \o pbkdf2_blocks(pw, salted, i + 1, N, output_len - DIGEST_SIZE)

neoscrypt_pbkdf2_sha256(password, salt, N, output_len) ==
    LET from(pw) == pbkdf2_blocks(pw, hmac_update(pw, salt), 1, N, output_len) IN from(hmac_init(password))

-----------------------------------------------------------------------------
(* Salsa20, ChaCha20 and the block mixer.  A block is 16 words.            *)

SalsaQuads == <<<<1, 5, 9, 13>>, <<6, 10, 14, 2>>, <<11, 15, 3, 7>>, <<16, 4, 8, 12>>,
                <<1, 2, 3, 4>>, <<6, 7, 8, 5>>, <<11, 12, 9, 10>>, <<16, 13, 14, 15>>>>

SalsaLine(x, to, a, b, n) == [x EXCEPT ![to] = Xor(@, ROTL32(Add(x[a], x[b]), n))]
SalsaQuarter(x, q) ==
    SalsaLine(SalsaLine(SalsaLine(SalsaLine(x, q[2], q[1], q[4], 7), q[3], q[2], q[1], 9),
                        q[4], q[3], q[2], 13), q[1], q[4], q[3], 18)

ChachaQuarter(x, q) == HalfMix(HalfMix(x, q, Word(0), 16, 12), q, Word(0), 8, 7)

\* L is [x, n]: the words, and the quarters left, eight to a double round.
RECURSIVE Quarters(_, _)
Quarters(L, chacha) ==
    IF L.n = 0 THEN L.x
    ELSE LET at == 8 - ((L.n - 1) % 8)
         IN  Quarters([x |-> IF chacha THEN ChachaQuarter(L.x, Quads[at]) ELSE SalsaQuarter(L.x, SalsaQuads[at]),
                       n |-> L.n - 1], chacha)

AddAll(X, x) == [i \in DOMAIN X |-> Add(X[i], x[i])]
neoscrypt_salsa(X, rounds) == AddAll(X, Quarters([x |-> X, n |-> 4 * rounds], FALSE))
neoscrypt_chacha(X, rounds) == AddAll(X, Quarters([x |-> X, n |-> 4 * rounds], TRUE))
Mixed(X, m) == IF m.chacha THEN neoscrypt_chacha(X, m.rounds) ELSE neoscrypt_salsa(X, m.rounds)

\* The short cuts for r = 1 and r = 2, and the code for any r.
Chain(Y, x, m) == Append(Y, Mixed(XorAll(x, Y[Len(Y)]), m))
blkmix_1(X, m) == Tail(Chain(Chain(<<X[2]>>, X[1], m), X[2], m))
Swapped(Y) == <<Y[2], Y[4], Y[3], Y[5]>>
blkmix_2(X, m) == Swapped(Chain(Chain(Chain(Chain(<<X[4]>>, X[1], m), X[2], m), X[3], m), X[4], m))

RECURSIVE Chained(_, _, _)
Chained(X, Y, m) ==
    IF Len(Y) > Len(X) THEN Tail(Y) ELSE Chained(X, Chain(Y, X[Len(Y)], m), m)

Unzipped(Y, r) == [i \in 1 .. 2 * r |-> IF i <= r THEN Y[2 * i - 1] ELSE Y[2 * (i - r)]]
blkmix_any(X, m) == Unzipped(Chained(X, <<X[Len(X)]>>, m), Len(X) \div 2)

neoscrypt_blkmix(X, m) ==
    CASE Len(X) = 2 -> blkmix_1(X, m)
      [] Len(X) = 4 -> blkmix_2(X, m)
      [] OTHER      -> blkmix_any(X, m)

-----------------------------------------------------------------------------
(* FastKDF: the buffers A and B are longer than the ring they stand for,   *)
(* so that a key or an input is one piece of them.                         *)

KdfSize == 256

RECURSIVE SumOf(_, _)
SumOf(s, n) == IF n = 0 THEN 0 ELSE s[n] + SumOf(s, n - 1)

Filled(s, extra) ==
    [i \in 1 .. KdfSize + extra |-> IF i <= KdfSize THEN s[((i - 1) % Len(s)) + 1] ELSE s[i - KdfSize]]

Mirrored(B, p) ==
    IF p < 32 THEN CopyInto(B, KdfSize + p, SubSeq(B, p + 1, 32))
    ELSE IF KdfSize - p < 32 THEN CopyInto(B, 0, SubSeq(B, KdfSize + 1, p + 32))
    ELSE B

KdfOutput(A, B, p, output_len) ==
    LET a == KdfSize - p
        n == IF output_len > KdfSize THEN KdfSize ELSE output_len
    IN  IF a >= n THEN XorSeq(SubSeq(B, p + 1, p + n), A)
        ELSE XorSeq(SubSeq(B, p + 1, p + a), A) \o XorSeq(SubSeq(B, 1, n - a), From(A, a + 1))

blake2s_IV_P_XOR == [IV EXCEPT ![1] = <<\h6B08, \hC647>>]

IntegratedBlake2s(input, key) ==
    LET last(keyed) == blake2s_compress([keyed EXCEPT !.t = 128, !.f = Ones, !.buf = input])
    IN  Bytes(last(blake2s_compress([h |-> blake2s_IV_P_XOR, t |-> 64, f |-> Word(0),
                                     buf |-> key \o Zeros(32)])).h, LittleBytes)

\* One turn after the PRF, the new place q being the sum of its output, and
\* the turns left.
NextSalt(S, out, q) == [B |-> Mirrored(XorInto(S.B, q, out), q), p |-> q, n |-> S.n - 1]

RECURSIVE KdfLoop(_, _, _)
KdfLoop(A, S, opt) ==
    LET input     == SubSeq(A, S.p + 1, S.p + 64)
        key       == SubSeq(S.B, S.p + 1, S.p + 32)
        turn(out) == NextSalt(S, out, SumOf(out, 32) % KdfSize)
    IN  IF S.n = 0 THEN S
        ELSE KdfLoop(A, turn(IF opt THEN IntegratedBlake2s(input, key) ELSE neoscrypt_blake2s(input, key, 32)), opt)

BufferedKdf(password, salt, opt, N, output_len) ==
    LET output(A, S) == KdfOutput(A, S.B, S.p, output_len)
        A0 == Filled(password, 64)
    IN  output(A0, KdfLoop(A0, [B |-> Filled(salt, 32), p |-> 0, n |-> N], opt))

neoscrypt_fastkdf(password, salt, N, output_len) == BufferedKdf(password, salt, FALSE, N, output_len)
neoscrypt_fastkdf_opt(password, salt, mode) ==
    BufferedKdf(password, salt, TRUE, 32, IF mode = 0 THEN 256 ELSE 32)

-----------------------------------------------------------------------------
(* The engine.  A profile is [scrypt, kdf, extended, rfactor, Nfactor].    *)

RECURSIVE Stored(_, _, _, _)
Stored(X, V, N, m) ==
    IF Len(V) = N THEN [X |-> X, V |-> V] ELSE Stored(neoscrypt_blkmix(X, m), Append(V, X), N, m)

XorBlocks(X, Y) == [i \in DOMAIN X |-> XorAll(X[i], Y[i])]

RECURSIVE Revisited(_, _, _, _)
Revisited(X, V, n, m) ==
    IF n = 0 THEN X
    ELSE LET j == X[Len(X)][1][2] % Len(V)
         IN  Revisited(neoscrypt_blkmix(XorBlocks(X, V[j + 1]), m), V, n - 1, m)

SMix(X, N, m) == LET revisit(s) == Revisited(s.X, s.V, N, m) IN revisit(Stored(X, <<>>, N, m))

Blocks(s) ==
    LET cut(ws) == [b \in 1 .. Len(ws) \div 16 |-> SubSeq(ws, 16 * b - 15, 16 * b)] IN cut(Words(s))
BlockBytes(X) == Bytes([i \in 1 .. 16 * Len(X) |-> X[(i - 1) \div 16 + 1][((i - 1) % 16) + 1]], LittleBytes)

Cost(profile) ==
    CASE profile.extended -> [N |-> 2^(profile.Nfactor + 1), r |-> 2^profile.rfactor]
      [] profile.scrypt   -> [N |-> 1024, r |-> 1]
      [] OTHER            -> [N |-> 128, r |-> 2]

DeriveIn(password, r, profile) ==
    IF profile.kdf = 1 THEN neoscrypt_pbkdf2_sha256(password, password, 1, r * 2 * BLOCK_SIZE)
    ELSE neoscrypt_fastkdf_opt(password, password, 0)

Engine(X, N, profile) ==
    LET rounds == IF profile.scrypt THEN 8 ELSE 20
        salsa  == SMix(X, N, [chacha |-> FALSE, rounds |-> rounds])
        chacha == SMix(X, N, [chacha |-> TRUE, rounds |-> rounds])
    IN  IF profile.scrypt THEN salsa ELSE XorBlocks(salsa, chacha)

DeriveOut(password, salt, profile) ==
    IF profile.kdf = 1 THEN neoscrypt_pbkdf2_sha256(password, salt, 1, 32)
    ELSE neoscrypt_fastkdf_opt(password, salt, 1)

neoscrypt(password, profile) ==
    LET c == Cost(profile)
    IN  DeriveOut(password, BlockBytes(Engine(Blocks(DeriveIn(password, c.r, profile)), c.N, profile)), profile)

-----------------------------------------------------------------------------

Job(kind, value) == [kind |-> kind, value |-> value]
PowInit == job = Job("none", 0)
PowNext ==
    /\ job.kind = "none"
    /\ \/ \E x \in Blake2sAnswers : job' = Job("blake2s", x)
       \/ \E x \in ScryptAnswers : job' = Job("scrypt", x)
       \/ \E x \in KdfInputs : job' = Job("kdf", x)
       \/ \E x \in MixInputs : job' = Job("mix", x)
PowSpec == PowInit /\ [][PowNext]_powVars

\* FastKDF on rings: no byte is stored twice.
RECURSIVE RingLoop(_, _)
RingLoop(A, S) ==
    LET at(ring, len) == [i \in 1 .. len |-> ring[((S.p + i - 1) % KdfSize) + 1]]
        changed(out, q) ==
          [B |-> [i \in 1 .. KdfSize |-> LET k == ((i - 1 - q) % KdfSize) + 1
                                         IN  IF k <= 32 THEN XorBytes[S.B[i]][out[k]] ELSE S.B[i]],
           p |-> q, n |-> S.n - 1]
        turn(out) == changed(out, SumOf(out, 32) % KdfSize)
    IN  IF S.n = 0 THEN S ELSE RingLoop(A, turn(neoscrypt_blake2s(at(A, 64), at(S.B, 32), 32)))

RingKdf(password, salt, output_len) ==
    LET output(A, S) == [i \in 1 .. output_len |-> XorBytes[S.B[((S.p + i - 1) % KdfSize) + 1]][A[i]]]
    IN  output(Filled(password, 0), RingLoop(Filled(password, 0), [B |-> Filled(salt, 0), p |-> 0, n |-> 32]))

(* Every node computes one hash of a block: the unrolled BLAKE2s gives the  *)
(* answers of RFC 7693 at the sizes where its buffer fills                  *)
(* (neoscrypt.c:523-1892, 1905-1972), the scrypt profile those of RFC 7914  *)
(* (neoscrypt.c:234-275, 2280-2398), FastKDF and its optimised form do on    *)
(* buffers with a repeated head what it does on rings (neoscrypt.c:1983-2069,*)
(* 2087-2168), and the mixer's short cuts what its general loop does         *)
(* (neoscrypt.c:2178-2252). *)
HashesRight ==
    LET x == job.value
    IN  /\ job.kind = "blake2s" => neoscrypt_blake2s(x.input, x.key, 32) = x.output
        /\ job.kind = "scrypt" =>
             neoscrypt(x.password, [scrypt |-> TRUE, kdf |-> 1, extended |-> TRUE,
                                    rfactor |-> x.rfactor, Nfactor |-> x.Nfactor]) = x.output
        /\ job.kind = "kdf" =>
             LET len == IF x.mode = 0 THEN 256 ELSE 32
                 all(ring) == /\ neoscrypt_fastkdf(x.password, x.salt, 32, len) = ring
                              /\ neoscrypt_fastkdf_opt(x.password, x.salt, x.mode) = ring
             IN  all(RingKdf(x.password, x.salt, len))
        /\ job.kind = "mix" => neoscrypt_blkmix(x.X, x.mixer) = blkmix_any(x.X, x.mixer)
=============================================================================
