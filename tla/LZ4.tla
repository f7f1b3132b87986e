-------------------------------- MODULE LZ4 --------------------------------
(***************************************************************************)
(* The bundled LZ4 block coder.  Bytes are 0..BYTE and a token is two      *)
(* halves of 0..NIBBLE, so that the long forms of the lengths occur in     *)
(* short inputs; positions count from 0 as in the code.                    *)
(***************************************************************************)
EXTENDS Naturals, Sequences, FiniteSetsExt

CONSTANTS
    NIBBLE,         \* 15
    BYTE,           \* 255
    HASHTABLESIZE,  \* 4096
    SKIP            \* 64: searches after which the step grows

ASSUME BytesAssumption == NIBBLE \in Nat \ {0} /\ BYTE + 1 = (NIBBLE + 1) * (NIBBLE + 1)

MINMATCH == 4
LASTLITERALS == 5
MFLIMIT == MINMATCH + LASTLITERALS
MaxOffset == (BYTE + 1) * (BYTE + 1) - 1
Failed == <<BYTE + 1>>      \* no block and no page: return 0, return -1

LZ4_compressBound(n) == n + n \div BYTE + 16

At(src, i) == src[i + 1]
Slice(src, from, to) == SubSeq(src, from + 1, to)
LZ4_read32(src, i) == Slice(src, i, i + 4)

\* A hash of four bytes; the table is small enough for collisions.
LZ4_hash4(v) == (v[1] + 2 * v[2] + 3 * v[3] + 5 * v[4]) % HASHTABLESIZE

Least(n) == Min({n, NIBBLE})
Token(ll, ml) == Least(ll) * (NIBBLE + 1) + Least(ml)

LengthBytes_Exact(n) ==
    IF n <= NIBBLE THEN <<>>
    ELSE [i \in 1 .. ((n - NIBBLE) \div BYTE) |-> BYTE] \o <<(n - NIBBLE) % BYTE>>

\* The bytes behind the token for a length that does not fit its half.
LengthBytes(n) ==
    IF n < NIBBLE THEN <<>>
    ELSE [i \in 1 .. ((n - NIBBLE) \div BYTE) |-> BYTE] \o <<(n - NIBBLE) % BYTE>>

\* Find a match: [ip, match, htable], with ip = Len(src) when there is none.
RECURSIVE FindMatch(_, _, _, _, _)
FindMatch(src, forwardip, step, nb, htable) ==
    LET h == LZ4_hash4(LZ4_read32(src, forwardip))
        match == htable[h]
        table == [htable EXCEPT ![h] = forwardip]
        next == forwardip + step
    IN  IF next > Len(src) - MFLIMIT
        THEN [ip |-> Len(src), match |-> 0, htable |-> table]
        ELSE IF \/ match = Len(src)
                \/ forwardip - match > MaxOffset
                \/ LZ4_read32(src, match) # LZ4_read32(src, forwardip)
             THEN FindMatch(src, next, nb \div SKIP + 1, nb + 1, table)
             ELSE [ip |-> forwardip, match |-> match, htable |-> table]

\* How far a match extends backwards, and how far beyond its first four bytes.
CatchUp(src, ip, match, anchor) ==
    Max({k \in 0 .. Min({ip - anchor, match}) :
            \A j \in 1 .. k : At(src, ip - j) = At(src, match - j)})

MatchLength(src, ip, match) ==
    LET room == Len(src) - LASTLITERALS - (ip + MINMATCH)
    IN  IF room <= 0 THEN 0
        ELSE Max({k \in 0 .. room : \A j \in 0 .. k - 1 :
                    At(src, ip + MINMATCH + j) = At(src, match + MINMATCH + j)})

LastLiterals(src, anchor, dst) ==
    LET ll == Len(src) - anchor
    IN  IF Len(dst) + ll + 1 + ll \div (BYTE + 1) + 4 > LZ4_compressBound(Len(src)) THEN Failed
        ELSE dst \o <<Token(ll, 0)>> \o LengthBytes(ll) \o Slice(src, anchor, Len(src))

\* The loop of LZ4_compress_default: one sequence (literals, match) a round.
RECURSIVE EncodeFrom(_, _, _, _, _)
EncodeFrom(src, from, anchor, htable, dst) ==
    LET found == FindMatch(src, from, 1, 1, htable)
        back == CatchUp(src, found.ip, found.match, anchor)
        ip == found.ip - back
        match == found.match - back
        ll == ip - anchor
        ml == MatchLength(src, ip, match)
        end == ip + MINMATCH + ml
        out == dst \o <<Token(ll, ml)>> \o LengthBytes(ll) \o Slice(src, anchor, ip)
                   \o <<(ip - match) % (BYTE + 1), (ip - match) \div (BYTE + 1)>> \o LengthBytes(ml)
    IN  IF found.ip = Len(src) THEN LastLiterals(src, anchor, dst)
        ELSE IF Len(dst) + 1 + ll + (2 + 1 + LASTLITERALS) + ll \div (BYTE + 1) > LZ4_compressBound(Len(src))
        THEN Failed
        ELSE IF end > Len(src) - MFLIMIT THEN LastLiterals(src, end, out)
        ELSE EncodeFrom(src, end + 1, end,
                        [found.htable EXCEPT ![LZ4_hash4(LZ4_read32(src, end - 2))] = end - 2], out)

\* compress() gives the coder room for LZ4_compressBound bytes.
LZ4_compress_default(src) ==
    IF Len(src) < MFLIMIT THEN LastLiterals(src, 0, <<>>)
    ELSE EncodeFrom(src, 1, 0, [h \in 0 .. HASHTABLESIZE - 1 |-> Len(src)], <<>>)

\* A length with its extra bytes at ip: [n, ip], with ip = Len(src) + 1 when they run out.
RECURSIVE ReadLength(_, _, _)
ReadLength(src, ip, n) ==
    IF ip >= Len(src) THEN [n |-> n, ip |-> Len(src) + 1]
    ELSE IF At(src, ip) = BYTE /\ ip + 1 < Len(src) THEN ReadLength(src, ip + 1, n + BYTE)
    ELSE [n |-> n + At(src, ip), ip |-> ip + 1]

Length(src, ip, half) ==
    IF half = NIBBLE THEN ReadLength(src, ip, half) ELSE [n |-> half, ip |-> ip]

\* A match repeats itself when it reaches into its own copy.
CopyMatch(dst, offset, ml) ==
    [i \in 0 .. ml - 1 |-> dst[Len(dst) - offset + 1 + (i % offset)]]

RECURSIVE Decode(_, _, _, _)
Decode(src, ip, dst, dstCapacity) ==
    LET token == At(src, ip)
        lits == Length(src, ip + 1, token \div (NIBBLE + 1))
        out == dst \o Slice(src, lits.ip, lits.ip + lits.n)
        at == lits.ip + lits.n
        offset == At(src, at) + (BYTE + 1) * At(src, at + 1)
        match == Length(src, at + 2, token % (NIBBLE + 1))
        ml == match.n + MINMATCH
        copy == CopyMatch(out, offset, ml)
    IN  IF ip >= Len(src) \/ Len(dst) + lits.n > dstCapacity \/ at > Len(src) THEN Failed
        ELSE IF at = Len(src) THEN out
        ELSE IF \/ at + 2 >= Len(src)
                \/ offset = 0 \/ offset > Len(out)
                \/ match.ip > Len(src) \/ Len(out) + ml > dstCapacity
        THEN Failed
        ELSE Decode(src, match.ip, out \o [i \in 1 .. ml |-> copy[i - 1]], dstCapacity)

\* The code does not guard its reads of the token, the offset and the length bytes, nor an
\* offset of zero; a block with any of these fails here, and blocks of the coder never do.
LZ4_decompress_safe(src, dstCapacity) == Decode(src, 0, <<>>, dstCapacity)
=============================================================================
