----------------------------- MODULE MCDataFile -----------------------------
(* Instances of DataFile for TLC, with the LZ4 coder on bytes of four bits. *)
EXTENDS DataFile, LZ4

\* Serialised schemas of one length: two with as many fields and bytes as read_schema
\* accepts, one of them the default, and one with more fields.
A == <<1, 5>>
B == <<2, 6>>
C == <<1, 7>>
MCSchemas == {A, B, C}

Run(n, v) == [i \in 1 .. n |-> v]

\* Pages that fit their slot under both compressions: a full page that LZ4 shortens by
\* one byte, and a page of two bytes that it makes longer.  Sessions with another schema
\* only read.
FittingContents == (A :> {Run(12, 1), <<1, 2>>}) @@ (B :> {}) @@ (C :> {})

\* Full pages of rows without repetitions, and short ones.
AnyContents == (A :> {[i \in 1 .. 12 |-> i], <<1, 2>>}) @@ (B :> {Run(12, 3)}) @@ (C :> {})

\* Every short text of two letters, and longer texts with every period up to 16, which
\* need length bytes for their literals or for their matches.
Texts ==
    UNION {[1 .. n -> 0 .. 1] : n \in 0 .. 11}
        \cup {[i \in 1 .. n |-> (i % k)] : n \in 12 .. 40, k \in 1 .. 16}

(* What LZ4_compress_default makes of a page fits LZ4_compressBound bytes   *)
(* and LZ4_decompress_safe restores it, whatever the collisions of the hash *)
(* table and the overlaps of the matches.  Evaluated when the file is new.  *)
LZ4RoundTrip ==
    opens = 0 =>
        \A text \in Texts :
            LET block == LZ4_compress_default(text)
            IN  /\ block # Failed
                /\ Len(block) <= LZ4_compressBound(Len(text))
                /\ LZ4_decompress_safe(block, Len(text)) = text
=============================================================================
