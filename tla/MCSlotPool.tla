---------------------------- MODULE MCSlotPool -----------------------------
(* Two slots, and codebooks that are close to one another, of a kind, far  *)
(* apart by their shapes, and of words none of which is used.              *)
EXTENDS SlotPool

Book(shape, len) == [shape |-> shape, len |-> len]
MCBooks == {Book("m", <<1, 1>>), Book("m", <<2, 2>>), Book("m", <<9, 9>>),
            Book("m", <<0, 0>>), Book("n", <<1, 1>>)}
=============================================================================
