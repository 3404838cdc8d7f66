---------------------------- MODULE MCOpusRange ----------------------------
(* What is asked of small frames of symbols of three bits.                 *)
EXTENDS Integers, Sequences

RangeAsked ==
  {[kind |-> "icdf", ends |-> <<5, 6, 15, 16>>],
   [kind |-> "icdf", ends |-> <<63, 64>>],
   [kind |-> "bits", bits |-> 2], [kind |-> "bits", bits |-> 5],
   [kind |-> "uint", ft |-> 5], [kind |-> "uint", ft |-> 18],
   [kind |-> "laplace", fs |-> 20, decay |-> 20], [kind |-> "laplace", fs |-> 40, decay |-> 2],
   [kind |-> "step", qn |-> 4], [kind |-> "triangle", qn |-> 6]}

Frames(of, n) == [1 .. n -> of]

RangeSmall == Frames({0, 4, 7}, 3) \cup Frames({0, 7}, 4) \cup Frames({3, 7}, 5)
=============================================================================
