-------------------------------- MODULE Md5 --------------------------------
(***************************************************************************)
(* The MD5 of zbaselib_md5.c: a message is given to update in pieces, the  *)
(* body works on whole blocks of 64 bytes, and final pads what is left.    *)
(*                                                                         *)
(* A word of 32 bits is the pair of its halves, as TLC's integers are too  *)
(* small for it.  A byte that was never written is Stale.                  *)
(***************************************************************************)
EXTENDS Integers, Sequences, Bitwise

LOCAL INSTANCE SequencesExt

CONSTANTS
    Messages,     \* what digests are made of: sequences of bytes
    Pieces,       \* how many bytes update is called with
    KnownDigests, \* records of a message and its digest, from RFC 1321, A.5
    Stale

ASSUME Md5Assumption ==
    /\ Messages \subseteq Seq(0 .. 255)
    /\ Pieces \subseteq Nat
    /\ Stale \in 0 .. 255

VARIABLES
    message,      \* the message that is being digested
    fed,          \* how many of its bytes update was called with
    ctx,          \* the context: bytes, the words a, b, c and d, buffer
    digest        \* history: the result of final, <<>> until then

md5Vars == <<message, fed, ctx, digest>>

-----------------------------------------------------------------------------
(* Words *)

Half == 65536

Plus(x, y) ==
    LET low == x[2] + y[2]
    IN  <<(x[1] + y[1] + (low \div Half)) % Half, low % Half>>

Invert(x)    == <<Half - 1 - x[1], Half - 1 - x[2]>>
BitAnd(x, y) == <<x[1] & y[1], x[2] & y[2]>>
BitOr(x, y)  == <<x[1] | y[1], x[2] | y[2]>>
BitXor(x, y) == <<x[1] ^^ y[1], x[2] ^^ y[2]>>

RotatedLess(x, n) ==
    <<((x[1] * 2 ^ n) % Half) + (x[2] \div 2 ^ (16 - n)),
      ((x[2] * 2 ^ n) % Half) + (x[1] \div 2 ^ (16 - n))>>
Rotated(x, n) ==
    IF n < 16 THEN RotatedLess(x, n) ELSE RotatedLess(<<x[2], x[1]>>, n - 16)

-----------------------------------------------------------------------------
(* zbaselib_md5_body *)

F(x, y, z) == BitXor(z, BitAnd(x, BitXor(y, z)))
G(x, y, z) == BitXor(y, BitAnd(z, BitXor(x, y)))
H(x, y, z) == BitXor(BitXor(x, y), z)
I(x, y, z) == BitXor(y, BitOr(x, Invert(z)))

(* For every round which word each of its steps takes, and how far the     *)
(* four steps after which a, b, c and d are in their places again rotate.  *)
Order == <<
    <<0, 1, 2, 3, 4, 5, 6, 7, 8, 9, 10, 11, 12, 13, 14, 15>>,
    <<1, 6, 11, 0, 5, 10, 15, 4, 9, 14, 3, 8, 13, 2, 7, 12>>,
    <<5, 8, 11, 14, 1, 4, 7, 10, 13, 0, 3, 6, 9, 12, 15, 2>>,
    <<0, 7, 14, 5, 12, 3, 10, 1, 8, 15, 6, 13, 4, 11, 2, 9>> >>

Shifts == << <<7, 12, 17, 22>>, <<5, 9, 14, 20>>, <<4, 11, 16, 23>>, <<6, 10, 15, 21>> >>

Addends == <<
    <<\hd76a, \ha478>>, <<\he8c7, \hb756>>, <<\h2420, \h70db>>, <<\hc1bd, \hceee>>,
    <<\hf57c, \h0faf>>, <<\h4787, \hc62a>>, <<\ha830, \h4613>>, <<\hfd46, \h9501>>,
    <<\h6980, \h98d8>>, <<\h8b44, \hf7af>>, <<\hffff, \h5bb1>>, <<\h895c, \hd7be>>,
    <<\h6b90, \h1122>>, <<\hfd98, \h7193>>, <<\ha679, \h438e>>, <<\h49b4, \h0821>>,
    <<\hf61e, \h2562>>, <<\hc040, \hb340>>, <<\h265e, \h5a51>>, <<\he9b6, \hc7aa>>,
    <<\hd62f, \h105d>>, <<\h0244, \h1453>>, <<\hd8a1, \he681>>, <<\he7d3, \hfbc8>>,
    <<\h21e1, \hcde6>>, <<\hc337, \h07d6>>, <<\hf4d5, \h0d87>>, <<\h455a, \h14ed>>,
    <<\ha9e3, \he905>>, <<\hfcef, \ha3f8>>, <<\h676f, \h02d9>>, <<\h8d2a, \h4c8a>>,
    <<\hfffa, \h3942>>, <<\h8771, \hf681>>, <<\h6d9d, \h6122>>, <<\hfde5, \h380c>>,
    <<\ha4be, \hea44>>, <<\h4bde, \hcfa9>>, <<\hf6bb, \h4b60>>, <<\hbebf, \hbc70>>,
    <<\h289b, \h7ec6>>, <<\heaa1, \h27fa>>, <<\hd4ef, \h3085>>, <<\h0488, \h1d05>>,
    <<\hd9d4, \hd039>>, <<\he6db, \h99e5>>, <<\h1fa2, \h7cf8>>, <<\hc4ac, \h5665>>,
    <<\hf429, \h2244>>, <<\h432a, \hff97>>, <<\hab94, \h23a7>>, <<\hfc93, \ha039>>,
    <<\h655b, \h59c3>>, <<\h8f0c, \hcc92>>, <<\hffef, \hf47d>>, <<\h8584, \h5dd1>>,
    <<\h6fa8, \h7e4f>>, <<\hfe2c, \he6e0>>, <<\ha301, \h4314>>, <<\h4e08, \h11a1>>,
    <<\hf753, \h7e82>>, <<\hbd3a, \hf235>>, <<\h2ad7, \hd2bb>>, <<\heb86, \hd391>> >>

Round(i) == ((i - 1) \div 16) + 1

Mixed(i, w) ==
    CASE Round(i) = 1 -> F(w[2], w[3], w[4])
      [] Round(i) = 2 -> G(w[2], w[3], w[4])
      [] Round(i) = 3 -> H(w[2], w[3], w[4])
      [] Round(i) = 4 -> I(w[2], w[3], w[4])

(* SET and GET: the little-endian word n of a block.                       *)
Get(b, n) == <<b[4 * n + 4] * 256 + b[4 * n + 3], b[4 * n + 2] * 256 + b[4 * n + 1]>>

(* STEP number i.  The words are named anew after each step, so that the   *)
(* one that was changed is b of the next step.                             *)
Step(b, w, i) ==
    LET x   == Get(b, Order[Round(i)][((i - 1) % 16) + 1])
        sum == Plus(Plus(w[1], Mixed(i, w)), Plus(x, Addends[i]))
        new == Plus(Rotated(sum, Shifts[Round(i)][((i - 1) % 4) + 1]), w[2])
    IN  <<w[4], new, w[2], w[3]>>

Body(words, b) ==
    LET out == FoldLeft(LAMBDA w, i : Step(b, w, i), words, [i \in 1 .. 64 |-> i])
    IN  [k \in 1 .. 4 |-> Plus(words[k], out[k])]

Blocks(bytes) ==
    [k \in 1 .. Len(bytes) \div 64 |-> SubSeq(bytes, 64 * k - 63, 64 * k)]
BodyOfAll(words, bytes) == FoldLeft(Body, words, Blocks(bytes))

-----------------------------------------------------------------------------
(* The calls *)

StartWords == << <<\h6745, \h2301>>, <<\hefcd, \hab89>>,
                 <<\h98ba, \hdcfe>>, <<\h1032, \h5476>> >>

NoContext == [bytes |-> 0, words |-> << >>, buffer |-> << >>]

(* zbaselib_md5_init *)
Start(m) ==
    /\ ctx.words = << >> /\ digest = << >>
    /\ message' = m /\ fed' = 0
    /\ ctx' = [bytes |-> 0, words |-> StartWords, buffer |-> [i \in 1 .. 64 |-> Stale]]
    /\ UNCHANGED digest

(* The buffer with data copied to it, behind the first used bytes.         *)
Copied(buffer, used, data) ==
    [i \in 1 .. 64 |-> IF i - used \in DOMAIN data THEN data[i - used] ELSE buffer[i]]

(* The bytes of data that update works on at once when used bytes are in   *)
(* the buffer: those that fill it up, then whole blocks of the rest.       *)
Filling(used, n) == IF used = 0 THEN 0 ELSE 64 - used

Update(n) ==
    LET used  == ctx.bytes % 64
        data  == SubSeq(message, fed + 1, fed + n)
        first == Filling(used, n)
        whole == ((n - first) \div 64) * 64
        mid   == IF used = 0 THEN ctx.words
                 ELSE Body(ctx.words, Copied(ctx.buffer, used, SubSeq(data, 1, first)))
    IN  /\ ctx.words # << >> /\ fed + n <= Len(message)
        /\ fed' = fed + n
        /\ ctx' = IF used # 0 /\ n < first
                  THEN [ctx EXCEPT !.bytes = @ + n,
                                   !.buffer = Copied(@, used, data)]
                  ELSE [bytes  |-> ctx.bytes + n,
                        words  |-> BodyOfAll(mid, SubSeq(data, first + 1, first + whole)),
                        buffer |-> Copied(
                            IF used = 0 THEN ctx.buffer
                            ELSE Copied(ctx.buffer, used, SubSeq(data, 1, first)),
                            0, SubSeq(data, first + whole + 1, n))]
        /\ UNCHANGED <<message, digest>>

ZeroBytes(n) == [i \in 1 .. n |-> 0]

(* ctx->bytes in bits, as 8 bytes; no message here has 2^21 bytes, so that *)
(* the upper five are 0.                                                   *)
LengthBytes(n) ==
    [i \in 1 .. 8 |-> IF i <= 3 THEN ((8 * n) \div 256 ^ (i - 1)) % 256 ELSE 0]

WordBytes(w) == <<w[2] % 256, w[2] \div 256, w[1] % 256, w[1] \div 256>>

(* Whether the length still fits into the block that used bytes are in.    *)
TooTight_NoRoom(used) == 64 - used <= 8
NoRoom(used) == 64 - used < 8

Padded(used) ==
    LET marked == Copied(ctx.buffer, used, <<128>>)
    IN  IF NoRoom(used + 1)
        THEN [words  |-> Body(ctx.words, Copied(marked, used + 1, ZeroBytes(64 - used - 1))),
              buffer |-> Copied(marked, 0, ZeroBytes(56))]
        ELSE [words  |-> ctx.words,
              buffer |-> Copied(marked, used + 1, ZeroBytes(56 - used - 1))]

Final ==
    LET padded == Padded(ctx.bytes % 64)
        words  == Body(padded.words, Copied(padded.buffer, 56, LengthBytes(ctx.bytes)))
    IN  /\ ctx.words # << >>
        /\ digest' = FlattenSeq([k \in 1 .. 4 |-> WordBytes(words[k])])
        /\ ctx' = NoContext
        /\ UNCHANGED <<message, fed>>

-----------------------------------------------------------------------------
Md5Init == message = << >> /\ fed = 0 /\ ctx = NoContext /\ digest = << >>

(* A caller that has fed all of the message asks for the digest.           *)
Md5Next ==
    \/ \E m \in Messages : Start(m)
    \/ \E n \in Pieces : Update(n)
    \/ fed = Len(message) /\ Final

Md5Spec == Md5Init /\ [][Md5Next]_md5Vars

-----------------------------------------------------------------------------
(* Properties *)

(* RFC 1321, 3.1 and 3.2: the message, a bit 1, as many bits 0 as it takes *)
(* to end 64 bits before a block does, and the length.                     *)
PaddedMessage ==
    LET zeros == CHOOSE z \in 0 .. 63 : (Len(message) + 1 + z) % 64 = 56
    IN  message \o <<128>> \o ZeroBytes(zeros) \o LengthBytes(Len(message))

Rfc1321Digest ==
    LET words == BodyOfAll(StartWords, PaddedMessage)
    IN  FlattenSeq([k \in 1 .. 4 |-> WordBytes(words[k])])

(* However the message was cut into calls of update, also into empty ones, *)
(* ones that end with a block and ones that span several, and whatever the *)
(* buffer held before, the digest is that of the padded message; and it is *)
(* the one that RFC 1321 gives for the messages of its test suite.         *)
Md5DigestOfMessage ==
    digest # << >> =>
        /\ digest = Rfc1321Digest
        /\ \A known \in KnownDigests : known.message = message => known.digest = digest
=============================================================================
