-------------------------- MODULE TuneSearchProofs -------------------------
(***************************************************************************)
(* The search of codec.c, for any plan, budget and sizes of candidates:    *)
(* between trials the output is the best candidate and nothing else, the   *)
(* best is the first of the smallest, and two candidates at most are ever  *)
(* in the output.                                                          *)
(***************************************************************************)
EXTENDS TuneSearch, SequenceTheorems, FiniteSetTheorems, TLAPS

Tunes == [alim : Nat, lr : Nat, flags : SUBSET {"CLS", "MATCH"}]
Axes == {"default", "CLS", "MATCH", "alim", "lr"}
Steps == [axis : Axes, val : Nat]

-----------------------------------------------------------------------------
(* The plan.                                                               *)

LEMMA Joined ==
  ASSUME NEW x \in Seq(Steps), NEW y \in Seq(Steps)
  PROVE  \A m, n \in Nat : Len(x) = m /\ Len(y) = n =>
           /\ x \o y \in Seq(Steps) /\ Len(x \o y) = m + n
           /\ \A k \in 1 .. m : (x \o y)[k] = x[k]
           /\ \A k \in m + 1 .. m + n : (x \o y)[k] = y[k - m]
<1>1. TAKE m, n \in Nat
<1>2. HAVE Len(x) = m /\ Len(y) = n
<1> DEFINE z == x \o y
<1>3. /\ z \in Seq(Steps) /\ Len(z) = Len(x) + Len(y)
      /\ \A k \in 1 .. Len(x) + Len(y) : z[k] = IF k <= Len(x) THEN x[k] ELSE y[k - Len(x)]
  BY ConcatProperties
<1> HIDE DEF z
<1>4. /\ Len(z) = m + n
      /\ \A k \in 1 .. m + n : z[k] = IF k <= m THEN x[k] ELSE y[k - m]
  BY <1>2, <1>3
<1>5. \A k \in 1 .. m : z[k] = x[k]
  BY <1>4
<1>6. \A k \in m + 1 .. m + n : z[k] = y[k - m]
  BY <1>4
<1>7. QED
  BY <1>3, <1>4, <1>5, <1>6 DEF z

LEMMA PlanShape ==
  /\ Len(TRY_ALIM) \in Nat /\ Len(TRY_LR) \in Nat
  /\ Plan \in Seq(Steps) /\ Len(Plan) = 3 + Len(TRY_ALIM) + Len(TRY_LR)
  /\ \A k \in 1 .. 3 : Plan[k].axis \notin {"alim", "lr"}
  /\ \A k \in 4 .. 3 + Len(TRY_ALIM) : Plan[k].axis = "alim"
  /\ \A k \in 4 + Len(TRY_ALIM) .. 3 + Len(TRY_ALIM) + Len(TRY_LR) : Plan[k].axis = "lr"
<1> DEFINE f == <<[axis |-> "default", val |-> 0], [axis |-> "CLS", val |-> 0],
                  [axis |-> "MATCH", val |-> 0]>>
           a == [k \in DOMAIN TRY_ALIM |-> [axis |-> "alim", val |-> TRY_ALIM[k]]]
           r == [k \in DOMAIN TRY_LR |-> [axis |-> "lr", val |-> TRY_LR[k]]]
           na == Len(TRY_ALIM)
           nr == Len(TRY_LR)
<1>1. /\ na \in Nat /\ DOMAIN TRY_ALIM = 1 .. na /\ \A k \in 1 .. na : TRY_ALIM[k] \in Nat
      /\ nr \in Nat /\ DOMAIN TRY_LR = 1 .. nr /\ \A k \in 1 .. nr : TRY_LR[k] \in Nat
  BY TuneAssumption, LenProperties, ElementOfSeq DEF na, nr
<1>2. f \in Seq(Steps) /\ Len(f) = 3 /\ \A k \in 1 .. 3 : f[k].axis \notin {"alim", "lr"}
  <2>1. \A x \in {"default", "CLS", "MATCH"} : [axis |-> x, val |-> 0] \in Steps
    BY DEF Steps, Axes
  <2>2. f \in Seq(Steps) /\ Len(f) = 3
    BY <2>1
  <2>3. \A k \in 1 .. 3 : f[k].axis \notin {"alim", "lr"}
    <3>1. f[1].axis = "default" /\ f[2].axis = "CLS" /\ f[3].axis = "MATCH"
      OBVIOUS
    <3>2. \A k \in 1 .. 3 : k = 1 \/ k = 2 \/ k = 3
      OBVIOUS
    <3>3. QED
      BY <3>1, <3>2
  <2>4. QED
    BY <2>2, <2>3
<1>3. a \in Seq(Steps) /\ Len(a) = na /\ \A k \in 1 .. na : a[k].axis = "alim"
  <2>1. \A k \in 1 .. na : [axis |-> "alim", val |-> TRY_ALIM[k]] \in Steps
    BY <1>1 DEF Steps, Axes
  <2>2. a = [k \in 1 .. na |-> [axis |-> "alim", val |-> TRY_ALIM[k]]]
    BY <1>1
  <2> HIDE DEF na
  <2>3. QED
    BY <1>1, <2>1, <2>2
<1>4. r \in Seq(Steps) /\ Len(r) = nr /\ \A k \in 1 .. nr : r[k].axis = "lr"
  <2>1. \A k \in 1 .. nr : [axis |-> "lr", val |-> TRY_LR[k]] \in Steps
    BY <1>1 DEF Steps, Axes
  <2>2. r = [k \in 1 .. nr |-> [axis |-> "lr", val |-> TRY_LR[k]]]
    BY <1>1
  <2> HIDE DEF nr
  <2>3. QED
    BY <1>1, <2>1, <2>2
<1>5. Plan = (f \o a) \o r
  BY DEF Plan
<1> HIDE DEF f, a, r, na, nr
<1>6. /\ f \o a \in Seq(Steps) /\ Len(f \o a) = 3 + na
      /\ \A k \in 1 .. 3 : (f \o a)[k] = f[k]
      /\ \A k \in 4 .. 3 + na : (f \o a)[k] = a[k - 3]
  <2>1. na \in Nat /\ 3 \in Nat /\ 3 + 1 = 4
    BY <1>1
  <2>2. /\ f \o a \in Seq(Steps) /\ Len(f \o a) = 3 + na
        /\ \A k \in 1 .. 3 : (f \o a)[k] = f[k]
        /\ \A k \in 3 + 1 .. 3 + na : (f \o a)[k] = a[k - 3]
    <3>1. \A m, n \in Nat : Len(f) = m /\ Len(a) = n =>
            /\ f \o a \in Seq(Steps) /\ Len(f \o a) = m + n
            /\ \A k \in 1 .. m : (f \o a)[k] = f[k]
            /\ \A k \in m + 1 .. m + n : (f \o a)[k] = a[k - m]
      BY <1>2, <1>3, Joined, Zenon
    <3>2. QED
      BY <1>2, <1>3, <2>1, <3>1, Zenon
  <2>3. QED
    BY <2>1, <2>2, Zenon
<1>7. /\ Plan \in Seq(Steps) /\ Len(Plan) = 3 + na + nr
      /\ \A k \in 1 .. 3 + na : Plan[k] = (f \o a)[k]
      /\ \A k \in 4 + na .. 3 + na + nr : Plan[k] = r[k - (3 + na)]
  <2>1. nr \in Nat /\ 3 + na \in Nat /\ (3 + na) + 1 = 4 + na
    BY <1>1
  <2>2. /\ Plan \in Seq(Steps) /\ Len(Plan) = (3 + na) + nr
        /\ \A k \in 1 .. 3 + na : Plan[k] = (f \o a)[k]
        /\ \A k \in (3 + na) + 1 .. (3 + na) + nr : Plan[k] = r[k - (3 + na)]
    <3>1. \A m, n \in Nat : Len(f \o a) = m /\ Len(r) = n =>
            /\ (f \o a) \o r \in Seq(Steps) /\ Len((f \o a) \o r) = m + n
            /\ \A k \in 1 .. m : ((f \o a) \o r)[k] = (f \o a)[k]
            /\ \A k \in m + 1 .. m + n : ((f \o a) \o r)[k] = r[k - m]
      BY <1>4, <1>6, Joined, Zenon
    <3>2. QED
      BY <1>4, <1>5, <1>6, <2>1, <3>1, Zenon
  <2>3. QED
    BY <2>1, <2>2, Zenon
<1>8. \A k \in 1 .. 3 : Plan[k].axis \notin {"alim", "lr"}
  <2>1. \A k \in 1 .. 3 : k \in 1 .. 3 + na
    BY <1>1
  <2>2. QED
    BY <1>2, <1>6, <1>7, <2>1
<1>9. \A k \in 4 .. 3 + na : Plan[k].axis = "alim"
  <2>1. TAKE k \in 4 .. 3 + na
  <2>2. Plan[k] = a[k - 3] /\ k - 3 \in 1 .. na
    <3>1. k \in 1 .. 3 + na /\ k - 3 \in 1 .. na
      BY <1>1
    <3>2. QED
      BY <1>6, <1>7, <3>1
  <2>3. QED
    BY <1>3, <2>2
<1>10. \A k \in 4 + na .. 3 + na + nr : Plan[k].axis = "lr"
  <2>1. TAKE k \in 4 + na .. 3 + na + nr
  <2>2. Plan[k] = r[k - (3 + na)] /\ k - (3 + na) \in 1 .. nr
    BY <1>1, <1>7 DEF na, nr
  <2>3. QED
    BY <1>4, <2>2
<1>11. QED
  BY <1>1, <1>7, <1>8, <1>9, <1>10 DEF na, nr

(* Leaving an axis goes forward, and to the end of the plan at most.       *)
LEMMA AfterForward ==
  ASSUME NEW n \in 1 .. Len(Plan)
  PROVE  After(n) \in n + 1 .. Len(Plan) + 1
<1> DEFINE na == Len(TRY_ALIM)
           nr == Len(TRY_LR)
           Leaves(m) == /\ m \in DOMAIN Plan => Plan[m].axis # Plan[n].axis
                        /\ \A k \in n .. m - 1 : Plan[k].axis = Plan[n].axis
<1>1. /\ na \in Nat /\ nr \in Nat /\ Len(Plan) = 3 + na + nr /\ DOMAIN Plan = 1 .. Len(Plan)
  BY PlanShape, LenProperties
<1>2. CASE Plan[n].axis \in {"alim", "lr"}
  <2>1. \E m \in n + 1 .. Len(Plan) + 1 : Leaves(m)
    <3>1. n >= 4
      BY <1>1, <1>2, PlanShape
    <3>2. CASE n <= 3 + na
      <4>1. 4 + na \in n + 1 .. Len(Plan) + 1
        BY <1>1, <3>2
      <4>2. \A k \in n .. 3 + na : Plan[k].axis = "alim"
        BY <1>1, <3>1, PlanShape
      <4>3. Plan[n].axis = "alim"
        BY <1>1, <3>1, <3>2, PlanShape
      <4>4. 4 + na \in DOMAIN Plan => Plan[4 + na].axis = "lr"
        BY <1>1, PlanShape
      <4>5. 4 + na - 1 = 3 + na
        BY <1>1
      <4>6. Leaves(4 + na)
        BY <4>2, <4>3, <4>4, <4>5
      <4>7. QED
        BY <4>1, <4>6
    <3>3. CASE n > 3 + na
      <4>1. \A k \in n .. Len(Plan) : Plan[k].axis = "lr"
        BY <1>1, <3>3, PlanShape
      <4>2. Plan[n].axis = "lr"
        BY <1>1, <3>3, PlanShape
      <4>3. Len(Plan) + 1 \notin DOMAIN Plan /\ Len(Plan) + 1 - 1 = Len(Plan)
        BY <1>1
      <4>4. Leaves(Len(Plan) + 1)
        BY <4>1, <4>2, <4>3
      <4>5. QED
        BY <1>1, <4>4
    <3>4. QED
      BY <1>1, <3>2, <3>3
  <2>2. After(n) = CHOOSE m \in n + 1 .. Len(Plan) + 1 : Leaves(m)
    BY <1>2 DEF After
  <2> HIDE DEF Leaves
  <2>3. QED
    BY <2>1, <2>2
<1>3. CASE Plan[n].axis \notin {"alim", "lr"}
  BY <1>1, <1>3 DEF After
<1>4. QED
  BY <1>2, <1>3

LEMMA TuneTyped ==
  ASSUME s.bt \in Tunes, NEW n \in 1 .. Len(Plan)
  PROVE  Tune(Plan[n]) \in Tunes
<1>1. Plan[n] \in Steps
  BY PlanShape, ElementOfSeq
<1>2. Default \in Tunes
  BY TuneAssumption DEF Tunes
<1>3. Plan[n].axis \in Axes /\ Plan[n].val \in Nat
  BY <1>1 DEF Steps
<1>4. CASE Plan[n].axis \in {"default"}
  BY <1>2, <1>4 DEF Tune
<1>5. CASE Plan[n].axis \in {"CLS", "MATCH"}
  <2>1. Tune(Plan[n]) = [s.bt EXCEPT !.flags = @ \cup {Plan[n].axis}]
    BY <1>5 DEF Tune
  <2>2. QED
    BY <1>5, <2>1 DEF Tunes
<1>6. CASE Plan[n].axis = "alim"
  <2>1. Tune(Plan[n]) = [s.bt EXCEPT !.alim = Plan[n].val]
    BY <1>6 DEF Tune
  <2>2. QED
    BY <1>3, <2>1 DEF Tunes
<1>7. CASE Plan[n].axis = "lr"
  <2>1. Tune(Plan[n]) = [s.bt EXCEPT !.lr = Plan[n].val]
    BY <1>7 DEF Tune
  <2>2. QED
    BY <1>3, <2>1 DEF Tunes
<1>8. QED
  BY <1>3, <1>4, <1>5, <1>6, <1>7 DEF Axes

-----------------------------------------------------------------------------
(* The invariant.                                                          *)

Candidates == [tune : Tunes, len : Sizes]
Bests == [have : BOOLEAN, blen : {0} \cup Sizes, bt : Tunes, left : Nat]

Types ==
  /\ output \in Seq(Tunes)
  /\ s \in Bests /\ (s.have <=> s.blen > 0)
  /\ total \in Nat
  /\ next \in 1 .. Len(Plan) + 1
  /\ cand.tune \in Tunes
  /\ phase \notin {"plan", "done", "fatal"} => cand \in Candidates /\ next <= Len(Plan)
  /\ moved \in Nat
  /\ tried \in Seq(Candidates)
  /\ phase \in {"plan", "pack", "packed", "move", "cut", "done", "fatal"}
  /\ Len(tried) + s.left \in {total - 1, total}
  /\ phase \notin {"pack", "fatal"} => Len(tried) + s.left = total
  /\ phase = "pack" => Len(tried) + s.left = total - 1

(* The first n cells are of tune t; all behind them are.                   *)
Foremost(n, t) == n <= Len(output) /\ \A i \in 1 .. n : output[i] = t
Behind(n, t) == \A i \in 1 .. Len(output) : i > n => output[i] = t

OnlyTwo == \E a, b \in Tunes : \A i \in 1 .. Len(output) : output[i] \in {a, b}

Cells ==
  /\ OnlyTwo
  /\ phase \in {"plan", "done"} => Len(output) = s.blen /\ Foremost(s.blen, s.bt)
  /\ phase \in {"pack", "packed"} =>
       /\ Foremost(s.blen, s.bt) /\ Behind(s.blen, cand.tune)
       /\ Len(output) <= s.blen + cand.len
       /\ phase = "packed" => Len(output) = s.blen + cand.len
  /\ phase = "move" =>
       /\ s.blen = cand.len /\ s.bt = cand.tune /\ cand.len <= Len(output)
       /\ Behind(Len(output) - cand.len, cand.tune)
       /\ moved <= cand.len /\ Foremost(moved, cand.tune)
  /\ phase = "cut" => Foremost(s.blen, s.bt)

(* The best is the first of the smallest of the first n candidates.        *)
BestOf(n) ==
  /\ s.have <=> n > 0
  /\ n > 0 => \E k \in 1 .. n :
                /\ tried[k] = [tune |-> s.bt, len |-> s.blen]
                /\ \A j \in 1 .. n : IF j < k THEN tried[j].len > s.blen ELSE tried[j].len >= s.blen

Ranking ==
  /\ phase \in {"plan", "pack", "move", "cut", "done"} => BestOf(Len(tried))
  /\ phase = "packed" => /\ Len(tried) > 0 /\ tried[Len(tried)] = cand
                         /\ BestOf(Len(tried) - 1)

IInv == Types /\ Cells /\ Ranking

LEMMA SizesAreNat == (\A n \in Sizes : n \in Nat /\ n > 0) /\ \A n \in Searches : n \in Nat
BY SizeAssumption

LEMMA OutputFacts ==
  ASSUME Types
  PROVE  /\ Len(output) \in Nat /\ \A i \in 1 .. Len(output) : output[i] \in Tunes
         /\ Len(tried) \in Nat /\ \A i \in 1 .. Len(tried) : tried[i] \in Candidates
         /\ s.blen \in Nat /\ s.left \in Nat /\ s.bt \in Tunes /\ s.have \in BOOLEAN
         /\ s.blen \in {0} \cup Sizes
         /\ phase \notin {"plan", "done", "fatal"} =>
              cand.len \in Sizes /\ cand.len \in Nat /\ cand.len > 0 /\ cand.tune \in Tunes
<1>1. Len(output) \in Nat /\ \A i \in 1 .. Len(output) : output[i] \in Tunes
  BY LenProperties, ElementOfSeq DEF Types
<1>2. Len(tried) \in Nat /\ \A i \in 1 .. Len(tried) : tried[i] \in Candidates
  BY LenProperties, ElementOfSeq DEF Types
<1>3. s \in Bests
  BY DEF Types
<1>4. s.blen \in {0} \cup Sizes /\ s.left \in Nat /\ s.bt \in Tunes /\ s.have \in BOOLEAN
  BY <1>3 DEF Bests
<1>5. phase \notin {"plan", "done", "fatal"} => cand.len \in Sizes /\ cand.tune \in Tunes
  BY DEF Types, Candidates
<1>6. s.blen \in Nat
  BY <1>4, SizesAreNat
<1>7. QED
  BY <1>1, <1>2, <1>4, <1>5, <1>6, SizesAreNat

LEMMA InitIInv == Init => IInv
<1>1. SUFFICES ASSUME Init PROVE IInv
  OBVIOUS
<1>2. PICK n \in Searches :
        /\ s = [have |-> FALSE, blen |-> 0, bt |-> Default, left |-> Budget(n)]
        /\ total = Budget(n)
  BY <1>1 DEF Init
<1>3. n \in Nat /\ Budget(n) \in Nat
  BY SizesAreNat DEF Budget
<1>4. /\ output = <<>> /\ next = 1 /\ moved = 0 /\ tried = <<>> /\ phase = "plan"
      /\ cand = [tune |-> Default, len |-> 0]
  BY <1>1 DEF Init
<1>5. Default \in Tunes
  BY TuneAssumption DEF Tunes
<1>6. Types
  <2>1. s \in Bests /\ ~s.have /\ s.blen = 0 /\ s.left = total /\ total \in Nat
    BY <1>2, <1>3, <1>5 DEF Bests
  <2>2. next \in 1 .. Len(Plan) + 1
    BY <1>4, PlanShape
  <2>3. Len(tried) + s.left = total
    BY <1>4, <2>1
  <2>4. output \in Seq(Tunes) /\ tried \in Seq(Candidates)
    BY <1>4
  <2>5. cand.tune \in Tunes
    BY <1>4, <1>5
  <2>6. QED
    BY <1>4, <2>1, <2>2, <2>3, <2>4, <2>5 DEF Types
<1>7. Cells
  BY <1>2, <1>4, <1>5 DEF Cells, OnlyTwo, Foremost
<1>8. Ranking
  BY <1>2, <1>4 DEF Ranking, BestOf
<1>9. QED
  BY <1>6, <1>7, <1>8 DEF IInv

LEMMA TrialKeeps ==
  ASSUME IInv, Trial
  PROVE  IInv'
<1> USE DEF Trial
<1>1. PICK len \in Sizes : cand' = [tune |-> Tune(Plan[next]), len |-> len]
  OBVIOUS
<1>2. /\ output' = output /\ total' = total /\ next' = next /\ moved' = moved /\ tried' = tried
      /\ phase = "plan" /\ phase' = "pack" /\ s' = [s EXCEPT !.left = s.left - 1] /\ s.left > 0
      /\ next <= Len(Plan)
  BY DEF Affords
<1>3. Types /\ Cells /\ Ranking
  BY DEF IInv
<1>4. next \in 1 .. Len(Plan)
  BY <1>2, <1>3, PlanShape DEF Types
<1>5. cand' \in Candidates /\ cand'.tune \in Tunes
  BY <1>1, <1>3, <1>4, OutputFacts, TuneTyped DEF Candidates
<1>6. s \in Bests /\ s.left \in Nat
  BY <1>3, OutputFacts DEF Types
<1>7. s' \in Bests /\ s'.have = s.have /\ s'.blen = s.blen /\ s'.bt = s.bt /\ s'.left = s.left - 1
  <2>1. s.left - 1 \in Nat
    BY <1>2, <1>6
  <2>2. QED
    BY <1>2, <1>6, <2>1 DEF Bests
<1>8. Types'
  <2>1. Len(tried) + s.left = total /\ Len(tried) \in Nat /\ total \in Nat
    BY <1>2, <1>3, OutputFacts DEF Types
  <2>2. Len(tried') + s'.left = total' - 1
    BY <1>2, <1>6, <1>7, <2>1
  <2>3. QED
    BY <1>2, <1>3, <1>5, <1>7, <2>2 DEF Types
<1>9. Cells'
  <2>1. Len(output) = s.blen /\ Foremost(s.blen, s.bt) /\ OnlyTwo /\ s.blen \in Nat
    BY <1>2, <1>3, OutputFacts DEF Cells
  <2>2. Foremost(s.blen, s.bt)' /\ OnlyTwo'
    BY <1>2, <1>7, <2>1 DEF Foremost, OnlyTwo
  <2>3. Behind(s.blen, cand.tune)'
    BY <1>2, <1>7, <2>1 DEF Behind
  <2>4. cand'.len \in Nat
    BY <1>5, SizesAreNat DEF Candidates
  <2>5. Len(output') <= s'.blen + cand'.len
    BY <1>2, <1>7, <2>1, <2>4
  <2>6. QED
    BY <1>2, <2>2, <2>3, <2>5 DEF Cells
<1>10. Ranking'
  <2>1. BestOf(Len(tried))
    BY <1>2, <1>3 DEF Ranking
  <2>2. BestOf(Len(tried))'
    BY <1>2, <1>7, <2>1 DEF BestOf
  <2>3. QED
    BY <1>2, <2>2 DEF Ranking
<1>11. QED
  BY <1>8, <1>9, <1>10 DEF IInv

LEMMA UnaffordableKeeps ==
  ASSUME IInv, Unaffordable
  PROVE  IInv'
<1>1. /\ output' = output /\ s' = s /\ total' = total /\ cand' = cand /\ moved' = moved
      /\ tried' = tried /\ phase' = phase /\ phase = "plan" /\ next' = After(next)
      /\ next <= Len(Plan)
  BY DEF Unaffordable
<1>2. Types /\ Cells /\ Ranking
  BY DEF IInv
<1>3. next \in 1 .. Len(Plan) /\ Len(Plan) \in Nat
  BY <1>1, <1>2, PlanShape DEF Types
<1>4. next' \in 1 .. Len(Plan) + 1
  <2>1. After(next) \in next + 1 .. Len(Plan) + 1
    BY <1>3, AfterForward
  <2>2. QED
    BY <1>1, <1>3, <2>1
<1>5. Types'
  BY <1>1, <1>2, <1>4 DEF Types
<1>6. Cells' /\ Ranking'
  BY <1>1, <1>2 DEF Cells, Ranking, OnlyTwo, Foremost, Behind, BestOf
<1>7. QED
  BY <1>5, <1>6 DEF IInv

LEMMA PackKeeps ==
  ASSUME IInv, pack_once
  PROVE  IInv'
<1>1. Types /\ Cells /\ Ranking
  BY DEF IInv
<1>2. /\ phase = "pack" /\ s' = s /\ total' = total /\ next' = next /\ cand' = cand
      /\ moved' = moved
  BY DEF pack_once
<1>3. /\ Len(output) \in Nat /\ s.blen \in Nat /\ cand.len \in Nat /\ cand.len > 0
      /\ cand.tune \in Tunes /\ s.bt \in Tunes /\ Len(tried) \in Nat /\ s.left \in Nat
  BY <1>1, <1>2, OutputFacts
<1>4. (IF s.have THEN s.blen ELSE 0) = s.blen
  BY <1>1, <1>3 DEF Types
<1>5. /\ Foremost(s.blen, s.bt) /\ Behind(s.blen, cand.tune) /\ Len(output) <= s.blen + cand.len
      /\ s.blen <= Len(output) /\ OnlyTwo
  BY <1>1, <1>2 DEF Cells, Foremost
<1>6. CASE Len(output) - s.blen < cand.len
  <2>1. output' = Append(output, cand.tune) /\ phase' = phase /\ tried' = tried
    BY <1>4, <1>6, Zenon DEF pack_once
  <2>2. /\ output' \in Seq(Tunes) /\ Len(output') = Len(output) + 1
        /\ \A i \in 1 .. Len(output) : output'[i] = output[i]
        /\ output'[Len(output) + 1] = cand.tune
    BY <1>1, <1>3, <2>1, AppendProperties DEF Types
  <2>3. Types'
    BY <1>1, <1>2, <2>1, <2>2 DEF Types
  <2>4. Foremost(s.blen, s.bt)'
    BY <1>2, <1>3, <1>5, <2>2 DEF Foremost
  <2>5. Behind(s.blen, cand.tune)'
    <3>1. SUFFICES ASSUME NEW i \in 1 .. Len(output'), i > s.blen PROVE output'[i] = cand.tune
      BY <1>2 DEF Behind
    <3>2. CASE i \in 1 .. Len(output)
      BY <1>5, <2>2, <3>1, <3>2 DEF Behind
    <3>3. CASE i = Len(output) + 1
      BY <2>2, <3>3
    <3>4. QED
      BY <1>3, <2>2, <3>2, <3>3
  <2>6. OnlyTwo'
    <3>1. \A i \in 1 .. Len(output') : output'[i] \in {s.bt, cand.tune}
      <4>1. TAKE i \in 1 .. Len(output')
      <4>2. CASE i <= s.blen
        BY <1>2, <1>3, <2>4, <4>2 DEF Foremost
      <4>3. CASE i > s.blen
        BY <1>2, <2>5, <4>3 DEF Behind
      <4>4. QED
        BY <1>3, <2>2, <4>2, <4>3
    <3>2. QED
      BY <1>3, <3>1 DEF OnlyTwo
  <2>7. Len(output') <= s.blen + cand.len
    BY <1>3, <1>6, <2>2
  <2>8. Cells'
    BY <1>2, <2>1, <2>4, <2>5, <2>6, <2>7 DEF Cells
  <2>9. Ranking'
    BY <1>1, <1>2, <2>1 DEF Ranking, BestOf
  <2>10. QED
    BY <2>3, <2>8, <2>9 DEF IInv
<1>7. CASE ~(Len(output) - s.blen < cand.len)
  <2>1. output' = output /\ phase' = "packed" /\ tried' = Append(tried, cand)
    BY <1>4, <1>7, Zenon DEF pack_once
  <2>2. cand \in Candidates /\ tried \in Seq(Candidates)
    BY <1>1, <1>2 DEF Types
  <2>3. /\ tried' \in Seq(Candidates) /\ Len(tried') = Len(tried) + 1
        /\ \A i \in 1 .. Len(tried) : tried'[i] = tried[i]
        /\ tried'[Len(tried) + 1] = cand
    BY <1>3, <2>1, <2>2, AppendProperties
  <2>4. Types'
    <3>1. Len(tried) + s.left = total - 1 /\ total \in Nat
      BY <1>1, <1>2 DEF Types
    <3>2. Len(tried') + s'.left = total'
      BY <1>2, <1>3, <2>3, <3>1
    <3>3. QED
      BY <1>1, <1>2, <2>1, <2>3, <3>2 DEF Types
  <2>5. Cells'
    <3>1. Len(output) = s.blen + cand.len
      BY <1>3, <1>5, <1>7
    <3>2. QED
      BY <1>2, <1>5, <2>1, <3>1 DEF Cells, Foremost, Behind, OnlyTwo
  <2>6. Ranking'
    <3>1. BestOf(Len(tried))
      BY <1>1, <1>2 DEF Ranking
    <3>2. Len(tried') - 1 = Len(tried) /\ Len(tried') > 0
      BY <1>3, <2>3
    <3> DEFINE n == Len(tried)
    <3>3. \A i \in 1 .. n : tried'[i] = tried[i]
      BY <2>3
    <3>4. BestOf(n) /\ n \in Nat
      BY <1>3, <3>1
    <3> HIDE DEF n
    <3>5. (Len(tried) - 1)' = n
      BY <3>2 DEF n
    <3>6. BestOf(Len(tried) - 1)'
      BY <1>2, <3>3, <3>4, <3>5 DEF BestOf
    <3>7. QED
      BY <1>2, <2>1, <2>3, <3>2, <3>6 DEF Ranking
  <2>7. QED
    BY <2>4, <2>5, <2>6 DEF IInv
<1>8. QED
  BY <1>6, <1>7

LEMMA KeepKeeps ==
  ASSUME IInv, Keep
  PROVE  IInv'
<1>1. Types /\ Cells /\ Ranking
  BY DEF IInv
<1>2. /\ phase = "packed" /\ output' = output /\ total' = total /\ next' = next
      /\ cand' = cand /\ tried' = tried /\ moved' = 0
      /\ phase' = IF Start > 0 THEN "move" ELSE "cut"
      /\ s' = [s EXCEPT !.have = TRUE, !.blen = cand.len, !.bt = cand.tune]
      /\ ~s.have \/ cand.len < s.blen
  BY DEF Keep, Helps
<1>3. /\ Len(output) \in Nat /\ s.blen \in Nat /\ cand.len \in Sizes /\ cand.len \in Nat
      /\ cand.len > 0 /\ cand.tune \in Tunes /\ s.bt \in Tunes /\ Len(tried) \in Nat
      /\ s.left \in Nat /\ \A i \in 1 .. Len(tried) : tried[i] \in Candidates
  BY <1>1, <1>2, OutputFacts
<1>4. /\ Behind(s.blen, cand.tune) /\ Len(output) = s.blen + cand.len /\ OnlyTwo
  BY <1>1, <1>2 DEF Cells
<1>5. s' \in Bests /\ s'.have = TRUE /\ s'.blen = cand.len /\ s'.bt = cand.tune /\ s'.left = s.left
  <2>1. s \in Bests /\ TRUE \in BOOLEAN /\ cand.len \in {0} \cup Sizes
    BY <1>1, <1>3 DEF Types
  <2>2. QED
    BY <1>2, <1>3, <2>1 DEF Bests
<1>6. Types'
  BY <1>1, <1>2, <1>3, <1>5 DEF Types
<1>7. Start = s.blen
  BY <1>3, <1>4 DEF Start
<1>8. Cells'
  <2>1. OnlyTwo'
    BY <1>2, <1>4 DEF OnlyTwo
  <2>2. CASE Start > 0
    <3>1. phase' = "move" /\ Len(output) - cand.len = s.blen
      BY <1>2, <1>3, <1>4, <2>2
    <3>2. Behind(Len(output) - cand.len, cand.tune)'
      BY <1>2, <1>4, <3>1 DEF Behind
    <3>3. Foremost(moved, cand.tune)' /\ moved' <= cand'.len /\ cand'.len <= Len(output')
      BY <1>2, <1>3, <1>4 DEF Foremost
    <3>4. QED
      BY <1>2, <1>5, <2>1, <3>1, <3>2, <3>3 DEF Cells
  <2>3. CASE ~(Start > 0)
    <3>1. phase' = "cut" /\ s.blen = 0 /\ Len(output) = cand.len
      BY <1>2, <1>3, <1>4, <1>7, <2>3
    <3>2. Foremost(s.blen, s.bt)'
      BY <1>2, <1>3, <1>4, <1>5, <3>1 DEF Foremost, Behind
    <3>3. QED
      BY <2>1, <3>1, <3>2 DEF Cells
  <2>4. QED
    BY <2>2, <2>3
<1>9. Ranking'
  <2> DEFINE n == Len(tried)
  <2>1. n \in Nat /\ n > 0 /\ tried[n] = cand /\ BestOf(n - 1)
    BY <1>1, <1>2, <1>3 DEF Ranking
  <2> HIDE DEF n
  <2>2. cand = [tune |-> cand.tune, len |-> cand.len]
    BY <1>1, <1>2 DEF Types, Candidates
  <2>3. \A j \in 1 .. n - 1 : tried[j].len > cand.len
    <3>1. TAKE j \in 1 .. n - 1
    <3>2. s.have
      BY <2>1 DEF BestOf
    <3>3. tried[j].len \in Nat
      BY <1>3, <2>1, SizesAreNat DEF Candidates, n
    <3>4. tried[j].len >= s.blen
      <4>1. n - 1 > 0 /\ j \in 1 .. n - 1
        BY <2>1, <3>1
      <4> DEFINE m == n - 1
      <4>2. BestOf(m) /\ m > 0 /\ j \in 1 .. m
        BY <2>1, <4>1
      <4> HIDE DEF m
      <4>3. PICK k \in 1 .. m :
              IF j < k THEN tried[j].len > s.blen ELSE tried[j].len >= s.blen
        BY <4>2 DEF BestOf
      <4>4. QED
        BY <1>3, <3>3, <4>3
    <3>5. QED
      BY <1>2, <1>3, <3>2, <3>3, <3>4
  <2>4. BestOf(n)'
    <3>1. n \in 1 .. n /\ tried'[n] = [tune |-> s'.bt, len |-> s'.blen]
      BY <1>2, <1>5, <2>1, <2>2
    <3>2. ASSUME NEW j \in 1 .. n
          PROVE  IF j < n THEN tried'[j].len > s'.blen ELSE tried'[j].len >= s'.blen
      <4>1. CASE j < n
        BY <1>2, <1>5, <2>1, <2>3, <4>1
      <4>2. CASE j = n
        BY <1>2, <1>3, <1>5, <2>1, <4>2
      <4>3. QED
        BY <2>1, <4>1, <4>2
    <3>3. n' = n
      BY <1>2 DEF n
    <3>4. \E k \in 1 .. n : /\ tried'[k] = [tune |-> s'.bt, len |-> s'.blen]
                            /\ \A j \in 1 .. n : IF j < k THEN tried'[j].len > s'.blen
                                                 ELSE tried'[j].len >= s'.blen
      BY <3>1, <3>2
    <3>5. QED
      BY <1>5, <2>1, <3>3, <3>4 DEF BestOf
  <2>5. phase' # "packed"
    BY <1>2
  <2>6. QED
    BY <2>4, <2>5 DEF Ranking, n
<1>10. QED
  BY <1>6, <1>8, <1>9 DEF IInv

LEMMA DropKeeps ==
  ASSUME IInv, Drop
  PROVE  IInv'
<1>1. Types /\ Cells /\ Ranking
  BY DEF IInv
<1>2. /\ phase = "packed" /\ output' = output /\ s' = s /\ total' = total /\ next' = next
      /\ cand' = cand /\ tried' = tried /\ moved' = moved /\ phase' = "cut"
      /\ s.have /\ ~(cand.len < s.blen)
  BY DEF Drop, Helps
<1>3. /\ s.blen \in Nat /\ cand.len \in Nat /\ Len(tried) \in Nat
      /\ \A i \in 1 .. Len(tried) : tried[i] \in Candidates
  BY <1>1, <1>2, OutputFacts
<1>4. Types'
  BY <1>1, <1>2 DEF Types
<1>5. Cells'
  <2>1. Foremost(s.blen, s.bt) /\ OnlyTwo
    BY <1>1, <1>2 DEF Cells
  <2>2. QED
    BY <1>2, <2>1 DEF Cells, Foremost, OnlyTwo
<1>6. Ranking'
  <2> DEFINE n == Len(tried)
  <2>1. n \in Nat /\ n > 0 /\ tried[n] = cand /\ BestOf(n - 1)
    BY <1>1, <1>2, <1>3 DEF Ranking
  <2> HIDE DEF n
  <2>2. n - 1 > 0
    BY <1>2, <2>1 DEF BestOf
  <2>3. PICK k \in 1 .. n - 1 :
          /\ tried[k] = [tune |-> s.bt, len |-> s.blen]
          /\ \A j \in 1 .. n - 1 : IF j < k THEN tried[j].len > s.blen ELSE tried[j].len >= s.blen
    BY <2>1, <2>2 DEF BestOf
  <2>4. k \in 1 .. n
    BY <2>1
  <2>5. ASSUME NEW j \in 1 .. n
        PROVE  IF j < k THEN tried[j].len > s.blen ELSE tried[j].len >= s.blen
    <3>1. CASE j \in 1 .. n - 1
      BY <2>3, <3>1
    <3>2. CASE j = n
      BY <1>2, <1>3, <2>1, <2>4, <3>2
    <3>3. QED
      BY <2>1, <3>1, <3>2
  <2>6. BestOf(n)
    BY <1>2, <2>1, <2>3, <2>4, <2>5 DEF BestOf
  <2>7. QED
    BY <1>2, <2>6 DEF Ranking, BestOf, n
<1>7. QED
  BY <1>4, <1>5, <1>6 DEF IInv

LEMMA MoveKeeps ==
  ASSUME IInv, bf_move
  PROVE  IInv'
<1>1. Types /\ Cells /\ Ranking
  BY DEF IInv
<1>2. /\ phase = "move" /\ s' = s /\ total' = total /\ next' = next /\ cand' = cand
      /\ tried' = tried
  BY DEF bf_move
<1>3. /\ Len(output) \in Nat /\ s.blen \in Nat /\ cand.len \in Nat /\ cand.tune \in Tunes
      /\ moved \in Nat
  BY <1>1, <1>2, OutputFacts DEF Types
<1>4. /\ s.blen = cand.len /\ s.bt = cand.tune /\ cand.len <= Len(output)
      /\ Behind(Len(output) - cand.len, cand.tune)
      /\ moved <= cand.len /\ Foremost(moved, cand.tune) /\ OnlyTwo
  BY <1>1, <1>2 DEF Cells
<1>5. Ranking'
  <2>1. phase' \in {"move", "cut"}
    BY <1>2 DEF bf_move
  <2>2. QED
    BY <1>1, <1>2, <2>1 DEF Ranking, BestOf
<1>6. CASE moved < cand.len
  <2> DEFINE i == moved + 1
             j == MoveSource(moved)
  <2>1. output' = [output EXCEPT ![i] = output[j]] /\ moved' = i /\ phase' = phase
    BY <1>6 DEF bf_move
  <2>2. i \in 1 .. Len(output) /\ j \in 1 .. Len(output) /\ j > Len(output) - cand.len
    BY <1>3, <1>4, <1>6 DEF MoveSource
  <2>3. output[j] = cand.tune
    BY <1>4, <2>2 DEF Behind
  <2> HIDE DEF j
  <2>4. /\ output' \in Seq(Tunes) /\ Len(output') = Len(output)
        /\ \A k \in 1 .. Len(output) : output'[k] = IF k = i THEN cand.tune ELSE output[k]
    BY <1>1, <1>3, <2>1, <2>2, <2>3, ExceptSeq DEF Types
  <2>5. Types'
    BY <1>1, <1>2, <1>3, <2>1, <2>4 DEF Types
  <2>6. Behind(Len(output) - cand.len, cand.tune)'
    BY <1>2, <1>3, <1>4, <2>4 DEF Behind
  <2>7. Foremost(moved, cand.tune)'
    BY <1>2, <1>3, <1>4, <1>6, <2>1, <2>2, <2>4 DEF Foremost
  <2>8. OnlyTwo'
    <3>1. PICK a \in Tunes, b \in Tunes : \A k \in 1 .. Len(output) : output[k] \in {a, b}
      BY <1>4 DEF OnlyTwo
    <3>2. cand.tune \in {a, b}
      BY <2>2, <2>3, <3>1
    <3>3. \A k \in 1 .. Len(output') : output'[k] \in {a, b}
      BY <2>4, <3>1, <3>2
    <3>4. QED
      BY <3>3 DEF OnlyTwo
  <2>9. moved' <= cand.len
    BY <1>3, <1>6, <2>1
  <2>10. Cells'
    BY <1>2, <1>4, <2>1, <2>4, <2>6, <2>7, <2>8, <2>9 DEF Cells
  <2>11. QED
    BY <1>5, <2>5, <2>10 DEF IInv
<1>7. CASE ~(moved < cand.len)
  <2>1. phase' = "cut" /\ output' = output /\ moved' = moved
    BY <1>7 DEF bf_move
  <2>2. Types'
    BY <1>1, <1>2, <2>1 DEF Types
  <2>3. Foremost(s.blen, s.bt)
    BY <1>3, <1>4, <1>7 DEF Foremost
  <2>4. Cells'
    BY <1>2, <1>4, <2>1, <2>3 DEF Cells, Foremost, OnlyTwo
  <2>5. QED
    BY <1>5, <2>2, <2>4 DEF IInv
<1>8. QED
  BY <1>6, <1>7

LEMMA ResizeKeeps ==
  ASSUME IInv, bf_resize
  PROVE  IInv'
<1>1. Types /\ Cells /\ Ranking
  BY DEF IInv
<1>2. /\ phase = "cut" /\ phase' = "plan" /\ output' = SubSeq(output, 1, s.blen)
      /\ next' = next + 1 /\ s' = s /\ total' = total /\ cand' = cand /\ moved' = moved
      /\ tried' = tried
  BY DEF bf_resize
<1>3. /\ Len(output) \in Nat /\ \A i \in 1 .. Len(output) : output[i] \in Tunes
      /\ s.blen \in Nat /\ s.bt \in Tunes
  BY <1>1, OutputFacts
<1>4. s.blen <= Len(output) /\ \A i \in 1 .. s.blen : output[i] = s.bt
  BY <1>1, <1>2 DEF Cells, Foremost
<1>5. /\ output' \in Seq(Tunes) /\ Len(output') = s.blen
      /\ \A i \in 1 .. s.blen : output'[i] = s.bt
  <2>1. \A i \in 1 .. s.blen : output[i] \in Tunes
    BY <1>3, <1>4
  <2>2. 1 \in Int /\ s.blen \in Int
    BY <1>3
  <2>3. /\ SubSeq(output, 1, s.blen) \in Seq(Tunes)
        /\ Len(SubSeq(output, 1, s.blen)) = IF 1 <= s.blen THEN s.blen - 1 + 1 ELSE 0
        /\ \A i \in 1 .. s.blen - 1 + 1 : SubSeq(output, 1, s.blen)[i] = output[1 + i - 1]
    BY <2>1, <2>2, SubSeqProperties
  <2>4. \A i \in 1 .. s.blen : i \in 1 .. s.blen - 1 + 1 /\ 1 + i - 1 = i
    BY <1>3
  <2>5. QED
    BY <1>2, <1>3, <1>4, <2>3, <2>4
<1>6. Types'
  <2>1. next' \in 1 .. Len(Plan) + 1
    BY <1>1, <1>2, PlanShape DEF Types
  <2>2. QED
    BY <1>1, <1>2, <1>5, <2>1 DEF Types
<1>7. Cells'
  BY <1>2, <1>3, <1>5 DEF Cells, Foremost, OnlyTwo
<1>8. Ranking'
  BY <1>1, <1>2 DEF Ranking, BestOf
<1>9. QED
  BY <1>6, <1>7, <1>8 DEF IInv

LEMMA NextIInv == IInv /\ [Next]_vars => IInv'
<1>1. ASSUME IInv, Fatal PROVE IInv'
  BY <1>1 DEF Fatal, IInv, Types, Cells, Ranking, OnlyTwo
<1>2. ASSUME IInv, Close PROVE IInv'
  BY <1>2 DEF Close, IInv, Types, Cells, Ranking, OnlyTwo, Foremost, BestOf
<1>3. ASSUME IInv, UNCHANGED vars PROVE IInv'
  <2>1. /\ output' = output /\ s' = s /\ total' = total /\ next' = next /\ cand' = cand
        /\ moved' = moved /\ tried' = tried /\ phase' = phase
    BY <1>3 DEF vars
  <2>2. Types'
    BY <1>3, <2>1 DEF IInv, Types
  <2>3. Cells'
    BY <1>3, <2>1 DEF IInv, Cells, OnlyTwo, Foremost, Behind
  <2>4. Ranking'
    BY <1>3, <2>1 DEF IInv, Ranking, BestOf
  <2>5. QED
    BY <2>2, <2>3, <2>4 DEF IInv
<1>4. QED
  BY <1>1, <1>2, <1>3, TrialKeeps, UnaffordableKeeps, PackKeeps, KeepKeeps, DropKeeps, MoveKeeps,
     ResizeKeeps DEF Next

LEMMA Inductive == Spec => []IInv
BY InitIInv, NextIInv, PTL DEF Spec

-----------------------------------------------------------------------------
(* The search keeps its types, its place in the plan and its budget.       *)
THEOREM TypeCorrect == Spec => []TypeOK
<1>1. IInv => TypeOK
  <2>1. SUFFICES ASSUME IInv PROVE TypeOK
    OBVIOUS
  <2>2. Types
    BY <2>1 DEF IInv
  <2>3. QED
    BY <2>2, OutputFacts DEF Types, TypeOK
<1>2. QED
  BY Inductive, <1>1, PTL

(* Whatever sizes the candidates come to and however the moves overlap,    *)
(* the best is untouched while others are packed, and all there is between *)
(* trials.                                                                 *)
THEOREM BestIsKept == Spec => []BestKept
<1>1. IInv => BestKept
  <2>1. SUFFICES ASSUME IInv PROVE BestKept
    OBVIOUS
  <2>2. Types /\ Cells
    BY <2>1 DEF IInv
  <2>3. /\ Len(output) \in Nat /\ \A i \in 1 .. Len(output) : output[i] \in Tunes
        /\ s.blen \in Nat /\ s.bt \in Tunes
    BY <2>2, OutputFacts
  <2> DEFINE best == Archive([tune |-> s.bt, len |-> s.blen])
  <2>4. best = [i \in 1 .. s.blen |-> s.bt]
    BY DEF Archive
  <2>5. best \in Seq(Tunes) /\ Len(best) = s.blen /\ \A i \in 1 .. s.blen : best[i] = s.bt
    BY <2>3, <2>4
  <2> HIDE DEF best
  <2>6. ASSUME phase \in {"plan", "done"}
        PROVE  output = IF s.have THEN best ELSE <<>>
    <3>1. output \in Seq(Tunes) /\ Len(output) = s.blen /\ \A i \in 1 .. s.blen : output[i] = s.bt
      BY <2>2, <2>6 DEF Types, Cells, Foremost
    <3>2. output = best
      BY <2>5, <3>1, SeqEqual
    <3>3. ~s.have => output = <<>>
      BY <2>2, <2>3, <3>1 DEF Types
    <3>4. QED
      BY <3>2, <3>3
  <2>7. ASSUME phase \in {"pack", "packed"}
        PROVE  SubSeq(output, 1, s.blen) = best
    <3>1. s.blen <= Len(output) /\ \A i \in 1 .. s.blen : output[i] = s.bt
      BY <2>2, <2>7 DEF Cells, Foremost
    <3>2. \A i \in 1 .. s.blen : output[i] \in Tunes
      BY <2>3, <3>1
    <3>3. 1 \in Int /\ s.blen \in Int
      BY <2>3
    <3> DEFINE q == SubSeq(output, 1, s.blen)
    <3>4. /\ q \in Seq(Tunes)
          /\ Len(q) = IF 1 <= s.blen THEN s.blen - 1 + 1 ELSE 0
          /\ \A i \in 1 .. s.blen - 1 + 1 : q[i] = output[1 + i - 1]
      BY <3>2, <3>3, SubSeqProperties
    <3> HIDE DEF q
    <3>5. \A i \in 1 .. s.blen : i \in 1 .. s.blen - 1 + 1 /\ 1 + i - 1 = i
      BY <2>3
    <3>6. Len(q) = s.blen /\ \A i \in 1 .. s.blen : q[i] = s.bt
      BY <2>3, <3>1, <3>4, <3>5
    <3>7. q = best
      BY <2>5, <3>4, <3>6, SeqEqual
    <3>8. QED
      BY <3>7 DEF q
  <2>8. QED
    BY <2>6, <2>7 DEF BestKept, best
<1>2. QED
  BY Inductive, <1>1, PTL

(* The tune that is kept is the first of the best of all that were tried.  *)
THEOREM FirstOfSmallest == Spec => []Smallest
<1>1. IInv => Smallest
  <2>1. SUFFICES ASSUME IInv, phase \in {"plan", "done"}, tried # <<>> PROVE Smallest
    BY DEF Smallest
  <2>2. Types /\ BestOf(Len(tried))
    BY <2>1 DEF IInv, Ranking
  <2>3. Len(tried) > 0 /\ DOMAIN tried = 1 .. Len(tried)
    BY <2>1, <2>2, EmptySeq, LenProperties DEF Types
  <2>4. QED
    BY <2>2, <2>3 DEF BestOf, Smallest
<1>2. QED
  BY Inductive, <1>1, PTL

(* At no time do the cells of three candidates stand in the output.        *)
THEOREM TwoCandidates == Spec => []TwoAtMost
<1>1. IInv => TwoAtMost
  <2>1. SUFFICES ASSUME IInv PROVE TwoAtMost
    OBVIOUS
  <2>2. Types /\ Cells
    BY <2>1 DEF IInv
  <2>3. ToSet(output) = {output[i] : i \in 1 .. Len(output)}
    BY <2>2, LenProperties DEF ToSet, Types
  <2>4. PICK a \in Tunes, b \in Tunes : \A i \in 1 .. Len(output) : output[i] \in {a, b}
    BY <2>2 DEF Cells, OnlyTwo
  <2>5. IsFiniteSet({a} \cup {b}) /\ Cardinality({a} \cup {b}) <= 2
    <3>1. IsFiniteSet({a}) /\ Cardinality({a}) = 1
      BY FS_Singleton
    <3>2. /\ IsFiniteSet({a} \cup {b})
          /\ Cardinality({a} \cup {b}) = IF b \in {a} THEN Cardinality({a}) ELSE Cardinality({a}) + 1
      BY <3>1, FS_AddElement
    <3>3. QED
      BY <3>1, <3>2
  <2>6. Cardinality(ToSet(output)) <= 2
    <3>1. ToSet(output) \in SUBSET ({a} \cup {b})
      BY <2>3, <2>4
    <3>2. /\ IsFiniteSet(ToSet(output))
          /\ Cardinality(ToSet(output)) <= Cardinality({a} \cup {b})
      BY <2>5, <3>1, FS_Subset
    <3>3. Cardinality(ToSet(output)) \in Nat /\ Cardinality({a} \cup {b}) \in Nat
      BY <2>5, <3>2, FS_CardinalityType
    <3>4. QED
      BY <2>5, <3>2, <3>3
  <2>7. ASSUME phase \in {"plan", "done"} PROVE Cardinality(ToSet(output)) <= 1
    <3>1. ToSet(output) \in SUBSET {s.bt}
      BY <2>2, <2>3, <2>7 DEF Cells, Foremost
    <3>2. IsFiniteSet({s.bt}) /\ Cardinality({s.bt}) = 1
      BY FS_Singleton
    <3>3. QED
      BY <3>1, <3>2, FS_Subset
  <2>8. QED
    BY <2>6, <2>7 DEF TwoAtMost
<1>2. QED
  BY Inductive, <1>1, PTL
=============================================================================
