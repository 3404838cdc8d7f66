--------------------------- MODULE MCOpusPackets ---------------------------
(***************************************************************************)
(* Packets of every framing, with bytes of 16 values: a number of frames   *)
(* up to 3, 4 for padding and 8 for different sizes; sizes from 12 on have *)
(* two cells, and 15 is padding of 14 cells and more to come.              *)
(***************************************************************************)
EXTENDS Integers, Sequences

(* Tables of contents by their last two bits, for frames that last less    *)
(* than half of a packet and those that last half of it, of all modes.     *)
Framed(f) == {8 * 16 + f, 3 * 32 + 4 + f, 3 * 8 + f}

Openings(m) == UNION {[1 .. n -> {0, 1, 2, 12, 15}] : n \in 0 .. m}

Filled(from, fill) == {from \o [i \in 1 .. n |-> 5] : n \in fill}

PacketsAsked ==
  {[toc |-> t, cells |-> c] : t \in Framed(0) \cup Framed(1), c \in UNION {Filled(<<9>>, 0 .. 14), {<<>>}}}
  \cup {[toc |-> t, cells |-> c] :
          t \in Framed(2), c \in UNION {Filled(p, {0, 1, 11, 12, 13, 14}) : p \in Openings(2)}}
  \cup {[toc |-> t, cells |-> <<ch>> \o c] :
          t \in Framed(3), ch \in 0 .. 15, c \in UNION {Filled(p, {0, 1, 2, 13, 14, 16}) : p \in Openings(3)}}
=============================================================================
