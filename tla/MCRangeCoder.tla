--------------------------- MODULE MCRangeCoder ----------------------------
(* Bytes of four values, so numbers below 256; the rarest, the likeliest   *)
(* and the even chance; every sequence of up to five bits, and every       *)
(* stream of up to one byte that no encoder wrote.                         *)
EXTENDS RangeCoder

ShortStreams == UNION {[1 .. n -> 0 .. Byte - 1] : n \in 0 .. 1}
=============================================================================
