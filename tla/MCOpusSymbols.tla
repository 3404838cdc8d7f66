---------------------------- MODULE MCOpusSymbols ----------------------------
(***************************************************************************)
(* Sequences of symbols for OpusSymbols, and its constants: small enough   *)
(* that counts are halved, tables grow, keys collide, indices repeat and   *)
(* values escape within a few symbols.                                     *)
(***************************************************************************)
EXTENDS Integers, SequencesExt

LOCAL Icdf(site, v) == [kind |-> "icdf", table |-> <<5, 2, 1>>, site |-> site, v |-> v]
LOCAL Logp(site, v) == [kind |-> "logp", site |-> site, logp |-> 2, v |-> v]
LOCAL Coarse(c, v) == [kind |-> "laplace", fs0 |-> 8, decay |-> 6, b |-> 1, c |-> c, intra |-> 0,
                       LM |-> 1, v |-> v]
LOCAL Theta(step, qn, v) == [kind |-> "theta", qn |-> qn, step |-> step, n |-> 4, b |-> 1, v |-> v]
LOCAL Fine(c, v) == [kind |-> "bits", nb |-> 2, fine |-> TRUE, b |-> 1, c |-> c, v |-> v]
LOCAL Raw(nb, v) == [kind |-> "bits", nb |-> nb, fine |-> FALSE, b |-> 1, c |-> 0, v |-> v]
LOCAL Uint(site, size, v) == [kind |-> "uint", site |-> site, V |-> size, b |-> 1, v |-> v]
LOCAL Index(n, k, size, v) ==
  [kind |-> "uint", site |-> 1, V |-> size, b |-> 1, pulses |-> <<n, k>>, v |-> v]

LOCAL Mixed ==
  {Icdf(1, 2), Icdf(2, 0), Logp(1, 1), Logp(2, 0), Coarse(0, -1), Coarse(1, 5), Coarse(1, -2),
   Theta(TRUE, 4, 3), Theta(FALSE, 4, 2), Fine(0, 3), Fine(1, 1), Raw(5, 19), Uint(1, 3, 2),
   Uint(2, 11, 10)}

(* V(4, 2) = 32, V(3, 2) = 18 and V(2, 2) = 8; the last has no geometry.   *)
LOCAL Indices ==
  {Index(4, 2, 32, v) : v \in {0, 17, 31}} \cup {Index(3, 2, 18, v) : v \in {5, 17}}
  \cup {Index(2, 2, 8, 6)} \cup {Index(4, 2, 30, v) : v \in {0, 17, 29}}

LOCAL AllIndices == {Index(4, 2, 32, v) : v \in 0 .. 31} \cup {Index(3, 3, 38, v) : v \in 0 .. 37}

LOCAL Sequences(set, n) == [1 .. n -> set]

Symbols ==
  Sequences(Mixed, 3) \cup Sequences(Indices, 3) \cup Sequences(AllIndices, 1)
  \cup Sequences({Icdf(1, 0), Icdf(1, 2), Uint(1, 7, 3)}, 6)
  \cup {[i \in 1 .. 12 |-> Fine(i % 2, v)] : v \in 0 .. 3}

(* Contexts collide that have alphabets of one size.                       *)
CollidingHash(key, pr) == (Len(pr.f) * 13) % 64

(* A tag is what the lower bits of a key have.                             *)
LowBits(key) == IF key[1] = "logp" THEN <<key[3], key[4]>> ELSE Tail(key)

FirstSlot(key) == IF key[1] = "logp" THEN key[2] ELSE 0

Weight(fs0, v) == IF v = 0 THEN fs0 ELSE 2
=============================================================================
