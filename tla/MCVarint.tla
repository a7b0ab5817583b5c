------------------------------ MODULE MCVarint ------------------------------
(***************************************************************************)
(* TLC instance of Varint: two payload bits per byte, every buffer over    *)
(* the byte values chosen in the .cfg.                                     *)
(***************************************************************************)
EXTENDS Varint

CONSTANT InputBytes

MCInputs == [Index -> InputBytes]

\* "Fully compatible with encoding of the Protocol Buffers, capable of mutual
\* serialization/deserialization" (README.md:26): so a varint with more
\* groups than T has, which other implementations write for a negative int32,
\* is truncated to T as well.
LongVarintTruncates ==
    call = "decode" /\ status = "ok" => n = NumberFrom(buf, 0)[i] % Word
=============================================================================
