---------------------------- MODULE FormatProofs ----------------------------
(***************************************************************************)
(* What holds of the coders of Ogg streams, for all values of their        *)
(* constants.                                                              *)
(*                                                                         *)
(* The model slots of vorbis.c, for any codebooks and pool: no codebook is *)
(* coded with what another left in its slot or what was learnt before a    *)
(* reset, no link ages the slots of the headers it coded, and no codebook  *)
(* has two slots.  The first two hold however slots are chosen among those *)
(* in use: nothing has to be known of distances and use counts.  For the   *)
(* third the sum that a distance is has to be a number, and zero for equal *)
(* lengths, and the search for the nearest has to find one.                *)
(*                                                                         *)
(* The framing of Opus packets by opusmode.c, for packets of any bytes:    *)
(* one that the packer takes comes back byte for byte, and one it cannot   *)
(* lay out again it leaves raw.                                            *)
(*                                                                         *)
(* The context table of opusmode.c, for symbols of any alphabets and any   *)
(* hash: it stays a map, and the symbols that are coded in contexts come   *)
(* back.                                                                   *)
(***************************************************************************)
EXTENDS SlotPool, OpusPackets, OpusSymbols, NatFacts, SequenceTheorems, TLAPS

IsPool(s) == Len(s) \in 0 .. NSlots /\ s = [k \in 1 .. Len(s) |-> s[k]]

Typed ==
  /\ solid \in BOOLEAN /\ reused \in BOOLEAN /\ ar \in BOOLEAN
  /\ IsPool(sl)
  /\ ai \in SUBSET Slots /\ ad \in SUBSET Slots /\ st \in SUBSET Slots
  /\ su \in Seq(Seq(Slots))
  /\ links \in Nat
  /\ phase # "idle" => cur \in DOMAIN su /\ links # 0
  /\ region \in [Regions -> SUBSET Ages] /\ coded \in SUBSET Regions

(* What the flags say, once there is an arena.                             *)
FlagsTell ==
  IF ar THEN \A k \in Slots : /\ k \in ai => k \in ad /\ region[k] \subseteq {"now"}
                              /\ k \notin ad => region[k] = {}
        ELSE coded = {} /\ \A k \in Regions : region[k] = {}

(* A slot that is still free has not been coded with since the last reset. *)
FreeUnseeded == ar => \A k \in ai : k <= Len(sl)

(* When slots change hands, and in a solid file always.                    *)
FreeWhenNeeded == solid \/ phase = "headers" => FreeUnseeded

SetupsInPool == solid => \A n \in DOMAIN su : \A j \in DOMAIN su[n] : su[n][j] <= Len(sl)

Touched == phase # "idle" /\ ~reused => \A j \in DOMAIN su[cur] : su[cur][j] \in st

CodedOwn == phase = "audio" => \A k \in coded \ {0} : \E j \in DOMAIN su[cur] : su[cur][j] = k

IInv ==
  /\ Typed
  /\ FlagsTell
  /\ FreeWhenNeeded
  /\ SetupsInPool
  /\ Touched
  /\ CodedOwn
  /\ region[0] \subseteq {"now"}
  /\ phase = "headers" => coded = {} /\ ~reused
  /\ links = 0 => ~ar
  /\ Fresh

-----------------------------------------------------------------------------
(* Pools.                                                                  *)

(* The slots of a pool.                                                    *)
LEMMA PoolDomain ==
  ASSUME NEW s, IsPool(s)
  PROVE  DOMAIN s = 1 .. Len(s) /\ DOMAIN s \subseteq Slots
BY PoolAssumption DEF IsPool, Slots

(* A pool with another slot in a place.                                    *)
LEMMA PoolExcept ==
  ASSUME NEW s, IsPool(s), NEW k \in DOMAIN s, NEW x
  PROVE  /\ k \in Slots /\ k <= Len(s) /\ Len(s) \in Nat
         /\ IsPool([s EXCEPT ![k] = x]) /\ Len([s EXCEPT ![k] = x]) = Len(s)
<1> DEFINE t == [s EXCEPT ![k] = x]
           S == {s[i] : i \in DOMAIN s} \cup {x}
<1>1. DOMAIN s = 1 .. Len(s) /\ Len(s) \in Nat /\ k \in Slots /\ k <= Len(s)
  BY PoolDomain, PoolAssumption DEF IsPool
<1>2. t \in [1 .. Len(s) -> S]
  BY <1>1 DEF IsPool
<1>3. t \in Seq(S)
  BY <1>1, <1>2, SeqDef
<1>4. Len(t) = Len(s) /\ DOMAIN t = 1 .. Len(t)
  BY <1>1, <1>2, <1>3, LenProperties
<1>5. t = [i \in 1 .. Len(t) |-> t[i]]
  BY <1>2, <1>4
<1>6. QED
  BY <1>1, <1>4, <1>5 DEF IsPool

(* A pool whose slots are all changed.                                     *)
LEMMA PoolMap ==
  ASSUME NEW s, IsPool(s), NEW t, DOMAIN t = DOMAIN s, t = [k \in DOMAIN t |-> t[k]]
  PROVE  IsPool(t) /\ Len(t) = Len(s)
<1> DEFINE S == {t[i] : i \in DOMAIN t}
<1>1. DOMAIN s = 1 .. Len(s) /\ Len(s) \in Nat
  BY PoolDomain, PoolAssumption DEF IsPool
<1>2. t \in [1 .. Len(s) -> S]
  BY <1>1
<1>3. t \in Seq(S)
  BY <1>1, <1>2, SeqDef
<1>4. Len(t) = Len(s) /\ DOMAIN t = 1 .. Len(t)
  BY <1>1, <1>2, <1>3, LenProperties
<1>5. QED
  BY <1>4 DEF IsPool

(* A pool with one slot more.                                              *)
LEMMA PoolAppend ==
  ASSUME NEW s, IsPool(s), Len(s) < NSlots, NEW x
  PROVE  IsPool(Append(s, x)) /\ Len(Append(s, x)) = Len(s) + 1
<1> DEFINE S == {s[i] : i \in DOMAIN s} \cup {x}
           t == Append(s, x)
<1>1. DOMAIN s = 1 .. Len(s) /\ Len(s) \in Nat /\ NSlots \in Nat
  BY PoolDomain, PoolAssumption DEF IsPool
<1>2. s \in [1 .. Len(s) -> S]
  BY <1>1 DEF IsPool
<1>3. s \in Seq(S) /\ x \in S
  BY <1>1, <1>2, SeqDef
<1>4. t \in Seq(S) /\ Len(t) = Len(s) + 1
  BY <1>3, AppendProperties
<1>5. t = [i \in 1 .. Len(t) |-> t[i]]
  BY <1>4, LenProperties, ElementOfSeq
<1>6. QED
  BY <1>1, <1>4, <1>5 DEF IsPool

-----------------------------------------------------------------------------
(* The invariant holds before any link.                                    *)
LEMMA InitIInv == Init => IInv
<1> SUFFICES ASSUME Init PROVE IInv
  OBVIOUS
<1>1. NSlots \in Nat \ {0} /\ Len(sl) = 0 /\ DOMAIN su = {}
  BY PoolAssumption DEF Init
<1>2. IsPool(sl)
  BY <1>1 DEF Init, IsPool
<1>3. su \in Seq(Seq(Slots))
  BY DEF Init
<1>4. 0 \in Regions
  BY <1>1 DEF Regions
<1>5. region \in [Regions -> SUBSET Ages]
  BY DEF Init
<1>6. Typed
  BY <1>1, <1>2, <1>3, <1>5 DEF Typed, Init
<1>7. QED
  BY <1>1, <1>4, <1>6 DEF IInv, Init, FlagsTell, FreeWhenNeeded, FreeUnseeded, SetupsInPool, Touched,
     CodedOwn, Fresh

-----------------------------------------------------------------------------
(* Codebooks.                                                              *)

(* What the four ways to a slot have in common.                            *)
LEMMA GivenKeeps ==
  ASSUME IInv, NEW k \in Slots, Given(k),
         IsPool(sl'), Len(sl') >= Len(sl), k <= Len(sl'),
         ai' \in SUBSET ai, \A j \in Slots \ {k} : j \in ai => j \in ai',
         region' \in [Regions -> SUBSET Ages],
         \A j \in Regions : j # k => region'[j] = region[j],
         region[k] = {} => region'[k] = {},
         ar /\ k \in ai' => region'[k] = region[k]
  PROVE  IInv'
<1> USE DEF Given, Touch, link
<1>1. NSlots \in Nat \ {0} /\ 0 \in Regions /\ Slots \subseteq Regions
  BY PoolAssumption DEF Slots, Regions
<1>2. /\ phase = "headers" /\ phase' = "headers" /\ cur \in DOMAIN su /\ links' = links /\ links # 0
      /\ cur' = cur /\ reused' = reused /\ ~reused /\ coded' = {} /\ coded = {} /\ ar' = ar
  BY DEF IInv, Typed
<1>3. /\ su' \in Seq(Seq(Slots)) /\ DOMAIN su' = DOMAIN su
      /\ \A n \in DOMAIN su : n # cur => su'[n] = su[n]
      /\ DOMAIN su'[cur] = 1 .. Len(su[cur]) + 1 /\ su'[cur][Len(su[cur]) + 1] = k
      /\ \A j \in DOMAIN su[cur] : su'[cur][j] = su[cur][j]
      /\ DOMAIN su[cur] = 1 .. Len(su[cur])
  <2>1. su \in Seq(Seq(Slots)) /\ su[cur] \in Seq(Slots)
    BY <1>2, ElementOfSeq DEF IInv, Typed
  <2> DEFINE a == Append(su[cur], k)
  <2>2. /\ a \in Seq(Slots) /\ DOMAIN a = 1 .. Len(su[cur]) + 1 /\ a[Len(su[cur]) + 1] = k
        /\ \A j \in 1 .. Len(su[cur]) : a[j] = su[cur][j]
        /\ DOMAIN su[cur] = 1 .. Len(su[cur])
    BY <2>1, AppendProperties, LenProperties
  <2>3. su' = [su EXCEPT ![cur] = a]
    OBVIOUS
  <2> HIDE DEF a
  <2>4. su' \in Seq(Seq(Slots))
    BY <1>2, <2>1, <2>2, <2>3, ExceptSeq
  <2>5. DOMAIN su' = DOMAIN su /\ su'[cur] = a /\ \A n \in DOMAIN su : n # cur => su'[n] = su[n]
    BY <1>2, <2>3
  <2>6. QED
    BY <2>2, <2>4, <2>5
<1>4. Typed'
  BY <1>1, <1>2, <1>3 DEF IInv, Typed
<1>5. FlagsTell'
  <2>1. CASE ~ar
    <3>1. \A j \in Regions : region[j] = {}
      BY <2>1 DEF IInv, FlagsTell
    <3>2. \A j \in Regions : region'[j] = {}
      BY <1>1, <3>1
    <3>3. QED
      BY <1>2, <2>1, <3>2 DEF FlagsTell
  <2>2. CASE ar
    <3>1. \A j \in Slots : /\ j \in ai => j \in ad /\ region[j] \subseteq {"now"}
                           /\ j \notin ad => region[j] = {}
      BY <2>2 DEF IInv, FlagsTell
    <3>2. \A j \in Slots : /\ j \in ai' => j \in ad /\ region'[j] \subseteq {"now"}
                           /\ j \notin ad => region'[j] = {}
      BY <1>1, <2>2, <3>1
    <3>3. QED
      BY <1>2, <2>2, <3>2 DEF FlagsTell
  <2>3. QED
    BY <2>1, <2>2 DEF IInv, Typed
<1>6. FreeWhenNeeded'
  BY <1>1, <1>2 DEF IInv, FreeWhenNeeded, FreeUnseeded, Typed, IsPool, Slots
<1>7. SetupsInPool'
  <2> SUFFICES ASSUME solid, NEW n \in DOMAIN su, NEW j \in DOMAIN su'[n] PROVE su'[n][j] <= Len(sl')
    BY <1>3 DEF SetupsInPool
  <2>1. CASE n # cur \/ j \in DOMAIN su[cur]
    <3>1. j \in DOMAIN su[n] /\ su'[n][j] = su[n][j]
      BY <1>3, <2>1
    <3>2. su[n][j] <= Len(sl)
      BY <3>1 DEF IInv, SetupsInPool
    <3>3. su[n] \in Seq(Slots)
      BY ElementOfSeq DEF IInv, Typed
    <3>4. su[n][j] \in Nat
      BY <1>1, <3>1, <3>3, LenProperties, ElementOfSeq DEF Slots
    <3>5. QED
      BY <3>1, <3>2, <3>4 DEF IInv, Typed, IsPool
  <2>2. CASE n = cur /\ j \notin DOMAIN su[cur]
    BY <1>3, <2>2, SMTT(30)
  <2>3. QED
    BY <2>1, <2>2
<1>8. Touched'
  <2>1. \A j \in DOMAIN su[cur] : su[cur][j] \in st
    BY <1>2 DEF IInv, Touched
  <2>2. QED
    BY <1>2, <1>3, <2>1 DEF Touched
<1>9. CodedOwn' /\ Fresh' /\ (links = 0 => ~ar)'
  BY <1>2 DEF CodedOwn, Fresh
<1>10. region'[0] \subseteq {"now"}
  BY <1>1 DEF IInv, Slots
<1>11. QED
  BY <1>2, <1>4, <1>5, <1>6, <1>7, <1>8, <1>9, <1>10 DEF IInv

(* A codebook that shares a slot.                                          *)
LEMMA ShareKeeps == ASSUME IInv, NEW b \in Books, Share(b) PROVE IInv'
<1>1. PICK k \in DOMAIN sl : sl' = [sl EXCEPT ![k].use = @ + 1] /\ Given(k)
  BY DEF Share
<1>2. IsPool(sl)
  BY DEF IInv, Typed
<1> DEFINE x == [sl[k] EXCEPT !.use = @ + 1]
<1>3. sl' = [sl EXCEPT ![k] = x]
  BY <1>1
<1> HIDE DEF x
<1>4. k \in Slots /\ k <= Len(sl') /\ IsPool(sl') /\ Len(sl') >= Len(sl)
  <2>1. /\ k \in Slots /\ k <= Len(sl) /\ Len(sl) \in Nat
        /\ IsPool([sl EXCEPT ![k] = x]) /\ Len([sl EXCEPT ![k] = x]) = Len(sl)
    BY <1>2, PoolExcept
  <2>2. QED
    BY <1>3, <2>1
<1>5. ai' = ai /\ region' = region /\ region \in [Regions -> SUBSET Ages]
  BY DEF Share, IInv, Typed
<1>6. QED
  BY <1>1, <1>4, <1>5, GivenKeeps

(* One that goes on with what another learnt.                              *)
LEMMA RefitKeeps == ASSUME IInv, NEW b \in Books, Refit(b) PROVE IInv'
<1>1. PICK k \in DOMAIN sl : sl' = [sl EXCEPT ![k] = pool_take(b, Seed(k))] /\ Given(k)
  BY DEF Refit
<1>2. IsPool(sl)
  BY DEF IInv, Typed
<1> DEFINE x == pool_take(b, Seed(k))
<1>3. sl' = [sl EXCEPT ![k] = x]
  BY <1>1
<1> HIDE DEF x
<1>4. k \in Slots /\ k <= Len(sl') /\ IsPool(sl') /\ Len(sl') >= Len(sl)
  <2>1. /\ k \in Slots /\ k <= Len(sl) /\ Len(sl) \in Nat
        /\ IsPool([sl EXCEPT ![k] = x]) /\ Len([sl EXCEPT ![k] = x]) = Len(sl)
    BY <1>2, PoolExcept
  <2>2. QED
    BY <1>3, <2>1
<1>5. ai' = ai /\ region' = region /\ region \in [Regions -> SUBSET Ages]
  BY DEF Refit, IInv, Typed
<1>6. QED
  BY <1>1, <1>4, <1>5, GivenKeeps

(* A region that forgets whose it is.                                      *)
LEMMA AgeRegion ==
  ASSUME IInv, NEW k \in Slots, region' = [region EXCEPT ![k] = Age(@)]
  PROVE  /\ region' \in [Regions -> SUBSET Ages]
         /\ \A j \in Regions : j # k => region'[j] = region[j]
         /\ region[k] = {} => region'[k] = {}
<1>1. k \in Regions /\ region \in [Regions -> SUBSET Ages]
  BY PoolAssumption DEF IInv, Typed, Slots, Regions
<1>2. region'[k] = Age(region[k]) /\ Age(region[k]) \in SUBSET Ages
  BY <1>1 DEF Age, Ages
<1>3. QED
  BY <1>1, <1>2 DEF Age

(* One that takes the place of another.                                    *)
LEMMA EvictKeeps == ASSUME IInv, NEW b \in Books, Evict(b) PROVE IInv'
<1>1. PICK k \in DOMAIN sl : /\ sl' = [sl EXCEPT ![k] = pool_take(b, Seed(k))] /\ Given(k)
                             /\ ai' = ai \ {k} /\ region' = [region EXCEPT ![k] = Age(@)]
  BY DEF Evict, Unseed
<1>2. IsPool(sl)
  BY DEF IInv, Typed
<1> DEFINE x == pool_take(b, Seed(k))
<1>3. sl' = [sl EXCEPT ![k] = x]
  BY <1>1
<1> HIDE DEF x
<1>4. k \in Slots /\ k <= Len(sl') /\ IsPool(sl') /\ Len(sl') >= Len(sl)
  <2>1. /\ k \in Slots /\ k <= Len(sl) /\ Len(sl) \in Nat
        /\ IsPool([sl EXCEPT ![k] = x]) /\ Len([sl EXCEPT ![k] = x]) = Len(sl)
    BY <1>2, PoolExcept
  <2>2. QED
    BY <1>3, <2>1
<1>5. /\ region' \in [Regions -> SUBSET Ages]
      /\ \A j \in Regions : j # k => region'[j] = region[j]
      /\ region[k] = {} => region'[k] = {}
  BY <1>1, <1>4, AgeRegion
<1>6. QED
  BY <1>1, <1>4, <1>5, GivenKeeps

(* The slot that is taken is beyond the pool, and so not seeded.           *)
LEMMA TakeFreeKeeps == ASSUME IInv, NEW b \in Books, TakeFree(b) PROVE IInv'
<1> DEFINE k == Len(sl) + 1
<1>1. /\ sl' = Append(sl, pool_take(b, 0)) /\ Given(k) /\ Len(sl) < NSlots
      /\ ai' = ai /\ region' = [region EXCEPT ![k] = Age(@)]
  BY DEF TakeFree, HasRoom
<1>2. IsPool(sl) /\ Len(sl) \in Nat /\ NSlots \in Nat
  BY PoolAssumption DEF IInv, Typed, IsPool
<1>3. k \in Slots /\ IsPool(sl') /\ Len(sl') = Len(sl) + 1
  BY <1>1, <1>2, PoolAppend DEF Slots
<1>4. /\ region' \in [Regions -> SUBSET Ages]
      /\ \A j \in Regions : j # k => region'[j] = region[j]
      /\ region[k] = {} => region'[k] = {}
  BY <1>1, <1>3, AgeRegion
<1>5. ~(ar /\ k \in ai')
  BY <1>1, <1>2 DEF IInv, Given, FreeWhenNeeded, FreeUnseeded
<1> HIDE DEF k
<1>6. QED
  <2>1. k <= Len(sl') /\ Len(sl') >= Len(sl)
    BY <1>2, <1>3 DEF k
  <2>2. QED
    BY <1>1, <1>3, <1>4, <1>5, <2>1, GivenKeeps

-----------------------------------------------------------------------------
(* Links.                                                                  *)

(* A link begins with what the pool has learnt, or with nothing seeded.    *)
LEMMA EnterKeeps ==
  ASSUME IInv, Enter
  PROVE  /\ IsPool(sl') /\ ai' \in SUBSET Slots /\ region' \in [Regions -> SUBSET Ages]
         /\ FlagsTell' /\ FreeUnseeded' /\ region'[0] \subseteq {"now"}
         /\ solid' = solid /\ ar' = ar /\ ad' = ad /\ st' = {} /\ coded' = {}
         /\ links' \in Nat /\ links' # 0 /\ (solid => sl' = sl)
<1>1. /\ NSlots \in Nat \ {0} /\ 0 \in Regions /\ Slots \subseteq Regions /\ Slots = Regions \ {0}
      /\ region \in [Regions -> SUBSET Ages] /\ ai \in SUBSET Slots /\ ad \in SUBSET Slots
      /\ IsPool(sl) /\ links \in Nat /\ ar \in BOOLEAN /\ solid \in BOOLEAN
  BY PoolAssumption DEF Slots, Regions, IInv, Typed
<1>2. /\ solid' = solid /\ ar' = ar /\ ad' = ad /\ st' = {} /\ coded' = {}
      /\ links' \in Nat /\ links' # 0
  BY <1>1 DEF Enter
<1>3. CASE solid \/ links = 0
  <2>1. sl' = sl /\ ai' = ai /\ region' = region
    BY <1>3 DEF Enter
  <2>2. FlagsTell'
    BY <1>2, <2>1 DEF IInv, FlagsTell
  <2>3. FreeUnseeded'
    BY <1>2, <1>3, <2>1 DEF IInv, FreeWhenNeeded, FreeUnseeded
  <2>4. QED
    BY <1>1, <1>2, <2>1, <2>2, <2>3 DEF IInv
<1>4. CASE ~solid /\ links # 0
  <2>1. /\ sl' = <<>> /\ (ar => ai' = {}) /\ (~ar => ai' = ai)
        /\ region' = [k \in Regions |-> IF k = 0 THEN {} ELSE Age(region[k])]
    BY <1>4 DEF Enter, vb_reset
  <2>2. \A k \in Regions : Age(region[k]) \in SUBSET Ages /\ (region[k] = {} => Age(region[k]) = {})
    BY DEF Age, Ages
  <2>3. region' \in [Regions -> SUBSET Ages] /\ region'[0] \subseteq {"now"}
    BY <1>1, <2>1, <2>2
  <2>4. IsPool(sl')
    <3>1. Len(sl') = 0 /\ sl' = [k \in 1 .. 0 |-> sl'[k]]
      BY <2>1
    <3>2. QED
      BY <1>1, <3>1 DEF IsPool
  <2>5. ai' \in SUBSET Slots /\ FreeUnseeded'
    BY <1>1, <1>2, <2>1 DEF FreeUnseeded
  <2>6. FlagsTell'
    <3>1. CASE ar
      <4>1. \A k \in Slots : k \notin ad => region[k] = {}
        BY <3>1 DEF IInv, FlagsTell
      <4>2. \A k \in Slots : k \notin ad => region'[k] = {}
        BY <1>1, <2>1, <2>2, <4>1
      <4>3. QED
        BY <1>2, <2>1, <3>1, <4>2 DEF FlagsTell
    <3>2. CASE ~ar
      <4>1. \A k \in Regions : region[k] = {}
        BY <3>2 DEF IInv, FlagsTell
      <4>2. \A k \in Regions : region'[k] = {}
        BY <2>1, <2>2, <4>1
      <4>3. QED
        BY <1>2, <3>2, <4>2 DEF FlagsTell
    <3>3. QED
      BY <1>1, <3>1, <3>2
  <2>7. QED
    BY <1>2, <1>4, <2>3, <2>4, <2>5, <2>6
<1>5. QED
  BY <1>1, <1>3, <1>4

(* Headers coded (CodeHeaders).                                            *)
LEMMA CodeHeadersKeeps == ASSUME IInv, CodeHeaders PROVE IInv'
<1>1. /\ IsPool(sl') /\ ai' \in SUBSET Slots /\ region' \in [Regions -> SUBSET Ages]
      /\ FlagsTell' /\ FreeUnseeded' /\ region'[0] \subseteq {"now"}
      /\ solid' = solid /\ ar' = ar /\ ad' = ad /\ st' = {} /\ coded' = {}
      /\ links' \in Nat /\ links' # 0 /\ (solid => sl' = sl)
  BY EnterKeeps DEF CodeHeaders
<1>2. su' = Append(su, <<>>) /\ cur' = Len(su) + 1 /\ reused' = FALSE /\ phase' = "headers"
  BY DEF CodeHeaders
<1>3. su \in Seq(Seq(Slots)) /\ <<>> \in Seq(Slots)
  BY DEF IInv, Typed
<1>4. /\ su' \in Seq(Seq(Slots)) /\ DOMAIN su' = 1 .. Len(su) + 1 /\ su'[Len(su) + 1] = <<>>
      /\ \A n \in 1 .. Len(su) : su'[n] = su[n]
      /\ DOMAIN su = 1 .. Len(su) /\ Len(su) \in Nat
  BY <1>2, <1>3, AppendProperties, LenProperties
<1>5. Typed'
  <2>1. cur' \in DOMAIN su'
    BY <1>2, <1>4
  <2>2. {} \in SUBSET Slots /\ {} \in SUBSET Regions
    OBVIOUS
  <2>3. reused' \in BOOLEAN /\ solid' \in BOOLEAN /\ ar' \in BOOLEAN /\ ad' \in SUBSET Slots
    BY <1>1, <1>2 DEF IInv, Typed
  <2>4. QED
    BY <1>1, <1>4, <2>1, <2>2, <2>3 DEF Typed
<1>6. SetupsInPool'
  <2> SUFFICES ASSUME solid, NEW n \in DOMAIN su', NEW j \in DOMAIN su'[n] PROVE su'[n][j] <= Len(sl')
    BY <1>1 DEF SetupsInPool
  <2>1. n \in DOMAIN su /\ su'[n] = su[n]
    BY <1>4
  <2>2. QED
    BY <1>1, <2>1 DEF IInv, SetupsInPool
<1>7. Touched'
  BY <1>2, <1>4 DEF Touched
<1>8. QED
  BY <1>1, <1>2, <1>5, <1>6, <1>7 DEF IInv, FreeWhenNeeded, CodedOwn, Fresh

(* A setup that an earlier link had (vb_use).                              *)
LEMMA ReuseKeeps == ASSUME IInv, vb_use PROVE IInv'
<1>1. /\ IsPool(sl') /\ ai' \in SUBSET Slots /\ region' \in [Regions -> SUBSET Ages]
      /\ FlagsTell' /\ FreeUnseeded' /\ region'[0] \subseteq {"now"}
      /\ solid' = solid /\ ar' = ar /\ ad' = ad /\ st' = {} /\ coded' = {}
      /\ links' \in Nat /\ links' # 0 /\ (solid => sl' = sl)
  BY EnterKeeps DEF vb_use
<1>2. su' = su /\ cur' \in DOMAIN su /\ reused' = TRUE /\ phase' = "audio"
  BY DEF vb_use
<1>3. Typed'
  BY <1>1, <1>2 DEF IInv, Typed
<1>4. SetupsInPool'
  BY <1>1, <1>2 DEF IInv, SetupsInPool
<1>5. QED
  BY <1>1, <1>2, <1>3, <1>4 DEF IInv, FreeWhenNeeded, Touched, CodedOwn, Fresh

(* Headers through.                                                        *)
LEMMA HeadersDoneKeeps == ASSUME IInv, HeadersDone PROVE IInv'
<1> USE DEF HeadersDone, pool, arena
<1>1. Typed' /\ FlagsTell' /\ FreeWhenNeeded' /\ SetupsInPool' /\ Touched'
  BY DEF IInv, Typed, FlagsTell, FreeWhenNeeded, FreeUnseeded, SetupsInPool, Touched
<1>2. CodedOwn' /\ Fresh'
  BY DEF IInv, CodedOwn, Fresh
<1>3. QED
  BY <1>1, <1>2 DEF IInv

(* A region that is seeded has learnt nothing but "now", one that is not   *)
(* is cleared, or was never written.                                       *)
LEMMA PartitionKeeps == ASSUME IInv, Partition PROVE IInv'
<1>1. PICK j \in DOMAIN su[cur] : ar_slot(su[cur][j]) /\ coded' = coded \cup {0, su[cur][j]}
  BY DEF Partition
<1> DEFINE k == su[cur][j]
           seeded == IF ar THEN ai ELSE {}
           written == IF ar THEN ad ELSE {}
           left == IF k \in written \ seeded THEN {} ELSE region[k]
<1>2. /\ phase = "audio" /\ phase' = phase /\ solid' = solid /\ sl' = sl /\ st' = st /\ su' = su
      /\ cur' = cur /\ reused' = reused /\ links' = links
  BY DEF Partition, pool, link
<1>3. /\ ar' = TRUE /\ ai' = seeded \cup {k}
      /\ ad' = IF k \in seeded THEN written ELSE written \cup {k}
      /\ region' = [region EXCEPT ![k] = left \cup {"now"}, ![0] = @ \cup {"now"}]
  BY <1>1 DEF ar_slot
<1>4. /\ NSlots \in Nat \ {0} /\ 0 \in Regions /\ Slots \subseteq Regions /\ Slots = Regions \ {0}
      /\ region \in [Regions -> SUBSET Ages] /\ ai \in SUBSET Slots /\ ad \in SUBSET Slots
      /\ ar \in BOOLEAN /\ cur \in DOMAIN su /\ links # 0 /\ coded \in SUBSET Regions
      /\ su \in Seq(Seq(Slots))
  BY <1>2, PoolAssumption DEF Slots, Regions, IInv, Typed
<1>5. k \in Slots /\ k # 0 /\ k \in Regions
  <2>1. su[cur] \in Seq(Slots)
    BY <1>4, ElementOfSeq
  <2>2. k \in Slots
    BY <2>1, LenProperties, ElementOfSeq
  <2>3. QED
    BY <1>4, <2>2
<1>6. left \subseteq {"now"}
  <2>1. CASE ar
    BY <1>5, <2>1 DEF IInv, FlagsTell
  <2>2. CASE ~ar
    BY <1>5, <2>2 DEF IInv, FlagsTell
  <2>3. QED
    BY <1>4, <2>1, <2>2
<1>7. /\ region' \in [Regions -> SUBSET Ages] /\ region'[k] = {"now"} /\ region'[0] = {"now"}
      /\ \A r \in Regions \ {0, k} : region'[r] = region[r]
  <2>1. region'[k] = left \cup {"now"} /\ region'[0] = region[0] \cup {"now"}
    BY <1>3, <1>4, <1>5
  <2>2. \A r \in Regions \ {0, k} : region'[r] = region[r]
    <3>1. \A r \in Regions : r # 0 /\ r # k => region'[r] = region[r]
      BY <1>3, <1>4
    <3>2. QED
      BY <3>1
  <2>3. region[0] \subseteq {"now"}
    BY DEF IInv
  <2>4. DOMAIN region' = Regions /\ region' = [r \in Regions |-> region'[r]]
    BY <1>3, <1>4
  <2>5. \A r \in Regions : region'[r] \in SUBSET Ages
    BY <1>4, <1>6, <2>1, <2>2, <2>3 DEF Ages
  <2>6. QED
    BY <1>6, <2>1, <2>2, <2>3, <2>4, <2>5
<1>8. ai' \in SUBSET Slots /\ ad' \in SUBSET Slots /\ coded' \in SUBSET Regions
  BY <1>1, <1>3, <1>4, <1>5
<1>9. Typed'
  BY <1>2, <1>3, <1>7, <1>8 DEF IInv, Typed
<1>10. FlagsTell'
  <2>1. \A r \in Slots : /\ r \in seeded => r \in written /\ region[r] \subseteq {"now"}
                         /\ r \notin written => region[r] = {}
    BY <1>4 DEF IInv, FlagsTell
  <2>2. k \in ad'
    BY <1>3, <1>5, <2>1
  <2>3. \A r \in Slots \ {k} : /\ r \in ai' => r \in ad' /\ region'[r] \subseteq {"now"}
                               /\ r \notin ad' => region'[r] = {}
    BY <1>3, <1>4, <1>7, <2>1
  <2>4. QED
    BY <1>3, <1>5, <1>7, <2>2, <2>3 DEF FlagsTell
<1>11. FreeWhenNeeded'
  <2>1. CASE solid
    <3>1. k <= Len(sl)
      BY <1>4, <2>1 DEF IInv, SetupsInPool
    <3>2. \A r \in seeded : r <= Len(sl)
      BY <2>1 DEF IInv, FreeWhenNeeded, FreeUnseeded
    <3>3. QED
      BY <1>2, <1>3, <3>1, <3>2 DEF FreeWhenNeeded, FreeUnseeded
  <2>2. CASE ~solid
    BY <1>2, <2>2 DEF FreeWhenNeeded
  <2>3. QED
    BY <2>1, <2>2
<1>12. SetupsInPool' /\ Touched'
  BY <1>2 DEF IInv, SetupsInPool, Touched
<1>13. CodedOwn'
  BY <1>1, <1>2 DEF IInv, CodedOwn
<1>14. Fresh'
  BY <1>1, <1>4, <1>5, <1>7 DEF IInv, Fresh
<1>15. QED
  BY <1>2, <1>4, <1>7, <1>9, <1>10, <1>11, <1>12, <1>13, <1>14 DEF IInv

(* The end of a link (vb_endlink).                                         *)
LEMMA EndLinkKeeps == ASSUME IInv, vb_endlink PROVE IInv'
<1>1. /\ phase = "audio" /\ phase' = "idle" /\ st' = {} /\ solid' = solid /\ su' = su /\ cur' = cur
      /\ reused' = reused /\ links' = links /\ region' = region /\ coded' = coded
      /\ ar' = ar /\ ai' = ai /\ ad' = ad
  BY DEF vb_endlink, arena
<1>2. DOMAIN sl' = DOMAIN sl /\ sl' = [k \in DOMAIN sl' |-> sl'[k]]
  BY DEF vb_endlink
<1>3. IsPool(sl') /\ Len(sl') = Len(sl)
  <2>1. IsPool(sl)
    BY DEF IInv, Typed
  <2> DEFINE t == sl'
  <2>2. DOMAIN t = DOMAIN sl /\ t = [k \in DOMAIN t |-> t[k]]
    BY <1>2
  <2> HIDE DEF t
  <2>3. IsPool(t) /\ Len(t) = Len(sl)
    BY <2>1, <2>2, PoolMap
  <2>4. QED
    BY <2>3 DEF t
<1>4. Typed' /\ FlagsTell' /\ FreeWhenNeeded' /\ SetupsInPool'
  BY <1>1, <1>3 DEF IInv, Typed, FlagsTell, FreeWhenNeeded, FreeUnseeded, SetupsInPool
<1>5. Touched' /\ CodedOwn' /\ Fresh'
  BY <1>1 DEF IInv, Touched, CodedOwn, Fresh
<1>6. QED
  BY <1>1, <1>4, <1>5 DEF IInv

(* Every step keeps the invariant.                                         *)
LEMMA NextKeeps == IInv /\ [Next]_vars => IInv'
<1> SUFFICES ASSUME IInv, [Next]_vars PROVE IInv'
  OBVIOUS
<1>1. CASE CodeHeaders
  BY <1>1, CodeHeadersKeeps
<1>2. CASE vb_use
  BY <1>2, ReuseKeeps
<1>3. CASE Codebook
  <2>1. PICK b \in Books : pool_slot(b)
    BY <1>3 DEF Codebook
  <2>2. QED
    BY <2>1, ShareKeeps, TakeFreeKeeps, RefitKeeps, EvictKeeps DEF pool_slot
<1>4. CASE HeadersDone
  BY <1>4, HeadersDoneKeeps
<1>5. CASE Partition
  BY <1>5, PartitionKeeps
<1>6. CASE vb_endlink
  BY <1>6, EndLinkKeeps
<1>7. CASE UNCHANGED vars
  <2>1. Typed' /\ FlagsTell' /\ FreeWhenNeeded' /\ SetupsInPool'
    BY <1>7 DEF vars, pool, arena, link, IInv, Typed, FlagsTell, FreeWhenNeeded, FreeUnseeded, SetupsInPool
  <2>2. Touched' /\ CodedOwn' /\ Fresh'
    BY <1>7 DEF vars, pool, arena, link, IInv, Touched, CodedOwn, Fresh
  <2>3. QED
    BY <1>7, <2>1, <2>2 DEF vars, pool, arena, link, IInv
<1>8. QED
  BY <1>1, <1>2, <1>3, <1>4, <1>5, <1>6, <1>7 DEF Next

(* So it holds always.                                                     *)
LEMMA Invariant == Spec => []IInv
<1>1. QED
  BY InitIInv, NextKeeps, PTL DEF Spec

-----------------------------------------------------------------------------
(* Whatever a link codes a partition with, it or a link before it learnt   *)
(* from codebooks the slot was kept for, and since the last reset: the     *)
(* clearing that ar_slot puts off is never missed (vorbis.c:924-934).      *)
THEOREM NothingStale == Spec => []Fresh
<1>1. IInv => Fresh
  BY DEF IInv
<1>2. QED
  BY <1>1, Invariant, PTL

(* The end of a link that coded its own headers leaves the use counts of   *)
(* the slots it coded with (vorbis.c:218-222).                             *)
THEOREM OwnSlotsKeep == Spec => AgesNoneOfItsOwn
<1> DEFINE Keeps == phase = "audio" /\ phase' = "idle" /\ ~reused =>
                      \A k \in coded \cap DOMAIN sl : sl'[k].use = sl[k].use
<1>1. ASSUME IInv, Next PROVE Keeps
  <2> SUFFICES ASSUME phase = "audio", phase' = "idle", ~reused, NEW k \in coded \cap DOMAIN sl
               PROVE  sl'[k].use = sl[k].use
    OBVIOUS
  <2>1. vb_endlink
    <3>1. ~CodeHeaders /\ ~vb_use /\ ~HeadersDone
      BY DEF CodeHeaders, vb_use, HeadersDone, Enter
    <3>2. ~Codebook
      BY DEF Codebook, pool_slot, Share, TakeFree, Refit, Evict, Given
    <3>3. ~Partition
      BY DEF Partition, link
    <3>4. QED
      BY <1>1, <3>1, <3>2, <3>3 DEF Next
  <2>2. k # 0
    BY <1>1, PoolDomain, PoolAssumption DEF IInv, Typed, Slots
  <2>3. k \in st
    BY <1>1, <2>2 DEF IInv, CodedOwn, Touched
  <2>4. QED
    BY <2>1, <2>3 DEF vb_endlink
<1>2. ASSUME IInv, UNCHANGED vars PROVE Keeps
  BY <1>2 DEF vars, link
<1>3. IInv /\ [Next]_vars => Keeps
  BY <1>1, <1>2
<1>4. QED
  BY <1>3, Invariant, PTL DEF Spec, AgesNoneOfItsOwn

-----------------------------------------------------------------------------
(* Distances.                                                              *)

(* The distance to a slot that a codebook may share is a number, and zero  *)
(* when the lengths are the same.                                          *)
LEMMA DistSum ==
  ASSUME NEW b \in Books, NEW k \in Compatible(b), sl[k].len \in Seq(0 .. 255)
  PROVE  pool_dist(k, b) \in Nat /\ (sl[k].len = pool_cmp(b) => pool_dist(k, b) = 0)
<1> DEFINE S == DOMAIN b.len
           d(i) == sl[k].len[i] - pool_cmp(b)[i]
           apart(i) == IF d(i) < 0 THEN -d(i) ELSE d(i)
           Sum(f) == f = [s \in SUBSET S |->
                   IF s = {} THEN 0
                   ELSE apart(CHOOSE x \in s : TRUE) + f[s \ {CHOOSE x \in s : TRUE}]]
           it == CHOOSE f : Sum(f)
           h == [i \in S |-> apart(i)]
<1>1. pool_dist(k, b) = it[S]
  BY DEF pool_dist, MapThenSumSet, MapThenFoldSet
<1>2. S = 1 .. Len(b.len) /\ Len(b.len) \in Nat /\ IsFiniteSet(S) /\ b.len \in Seq(0 .. 32)
  <2>1. b.len \in Seq(0 .. 32)
    BY PoolAssumption
  <2>2. S = 1 .. Len(b.len) /\ Len(b.len) \in Nat
    BY <2>1, LenProperties
  <2>3. QED
    BY <2>1, <2>2, FS_Interval
<1> HIDE DEF S
<1>3. \A i \in S : /\ d(i) \in Int /\ d(i) <= 255 /\ 0 - d(i) <= 255
                   /\ sl[k].len = pool_cmp(b) => d(i) = 0
  <2>1. \A i \in S : b.len[i] \in 0 .. 32
    BY <1>2, ElementOfSeq
  <2>2. \A i \in S : pool_cmp(b)[i] \in 0 .. 255
    <3>1. \A i \in S : pool_cmp(b)[i] = IF b.len[i] = 0 THEN 255 ELSE b.len[i]
      BY DEF pool_cmp, Hole, S
    <3>2. ASSUME NEW i \in S PROVE pool_cmp(b)[i] \in 0 .. 255
      <4>1. b.len[i] \in 0 .. 32 /\ pool_cmp(b)[i] = IF b.len[i] = 0 THEN 255 ELSE b.len[i]
        BY <2>1, <3>1
      <4> DEFINE z == b.len[i]
      <4> HIDE DEF z
      <4>2. z \in 0 .. 32 /\ pool_cmp(b)[i] = IF z = 0 THEN 255 ELSE z
        BY <4>1 DEF z
      <4>3. QED
        BY <4>2
    <3>3. QED
      BY <3>2
  <2>3. \A i \in S : sl[k].len[i] \in 0 .. 255
    <3>1. Len(sl[k].len) = Len(b.len)
      BY DEF Compatible
    <3>2. QED
      BY <1>2, <3>1, ElementOfSeq
  <2>4. ASSUME NEW i \in S
        PROVE  /\ d(i) \in Int /\ d(i) <= 255 /\ 0 - d(i) <= 255
               /\ sl[k].len = pool_cmp(b) => d(i) = 0
    <3> DEFINE y == sl[k].len[i]
               z == pool_cmp(b)[i]
    <3>1. y \in 0 .. 255 /\ z \in 0 .. 255 /\ (sl[k].len = pool_cmp(b) => y = z) /\ d(i) = y - z
      BY <2>2, <2>3
    <3> HIDE DEF y, z
    <3>2. QED
      BY <3>1
  <2>5. QED
    BY <2>4
<1> HIDE DEF d
<1>4. /\ h \in [S -> Nat] /\ \A i \in S : h[i] <= 255
      /\ (sl[k].len = pool_cmp(b) => \A i \in S : h[i] = 0)
  <2>1. \A i \in S : /\ apart(i) \in Nat /\ apart(i) <= 255
                     /\ sl[k].len = pool_cmp(b) => apart(i) = 0
    <3> SUFFICES ASSUME NEW i \in S
                 PROVE  /\ apart(i) \in Nat /\ apart(i) <= 255
                        /\ sl[k].len = pool_cmp(b) => apart(i) = 0
      OBVIOUS
    <3> DEFINE z == d(i)
    <3>1. z \in Int /\ z <= 255 /\ 0 - z <= 255 /\ (sl[k].len = pool_cmp(b) => z = 0)
      BY <1>3
    <3>2. apart(i) = IF z < 0 THEN -z ELSE z
      OBVIOUS
    <3> HIDE DEF z, apart
    <3>3. QED
      BY <3>1, <3>2
  <2> HIDE DEF apart
  <2>2. QED
    BY <2>1
<1>5. \A f : Sums(f, S, h) <=> Sum(f)
  <2>1. \A i \in S : h[i] = apart(i)
    OBVIOUS
  <2>2. \A s \in SUBSET S : s # {} => (CHOOSE x \in s : TRUE) \in S
    OBVIOUS
  <2> HIDE DEF h, apart
  <2>3. QED
    BY <2>1, <2>2, ZenonT(60) DEF Sums
<1> HIDE DEF h, Sum, S
<1>6. \E f : Sums(f, S, h)
  BY <1>2, <1>4, SumsExist
<1>7. Sums(it, S, h)
  BY <1>5, <1>6
<1> HIDE DEF it
<1>8. \A T \in SUBSET S, B \in Nat :
        (\A x \in T : h[x] <= B) /\ (\A x \in S \ T : h[x] = 0)
          => it[S] \in Nat /\ it[S] <= B * Cardinality(T)
  BY <1>2, <1>4, <1>7, SumsBounded
<1>9. it[S] \in Nat
  <2>1. S \in SUBSET S /\ S \ S = {} /\ 255 \in Nat
    OBVIOUS
  <2>2. QED
    BY <1>4, <1>8, <2>1
<1>10. ASSUME sl[k].len = pool_cmp(b) PROVE it[S] = 0
  <2>1. it[S] \in Nat /\ it[S] <= 0 * Cardinality({}) /\ Cardinality({}) = 0
    BY <1>4, <1>8, <1>10, FS_EmptySet, SMTT(30)
  <2>2. QED
    BY <2>1
<1>11. QED
  BY <1>1, <1>9, <1>10

(* The lengths that slots are compared by.                                 *)
Lengths == \A k \in DOMAIN sl : sl[k].len \in Seq(0 .. 255)

(* A search for the nearest slot finds one, no further than any.           *)
LEMMA NearestExists ==
  ASSUME IsPool(sl), Lengths, NEW b \in Books, NEW j \in Compatible(b)
  PROVE  \E k \in DOMAIN sl : Nearest(b, k) /\ pool_dist(k, b) <= pool_dist(j, b)
<1>1. Compatible(b) \subseteq DOMAIN sl /\ DOMAIN sl \subseteq Nat
  BY PoolDomain DEF Compatible, Slots
<1>2. \A x \in Compatible(b) : pool_dist(x, b) \in Nat
  BY <1>1, DistSum DEF Lengths
<1> DEFINE D == {pool_dist(x, b) : x \in Compatible(b)}
<1>3. PICK m \in D : \A y \in D : m <= y
  <2>1. D \subseteq Nat /\ D # {}
    BY <1>2
  <2> HIDE DEF D
  <2>2. QED
    BY <2>1, Least
<1>4. m \in Nat /\ \A x \in Compatible(b) : m <= pool_dist(x, b)
  BY <1>2, <1>3
<1> DEFINE K == {x \in Compatible(b) : pool_dist(x, b) = m}
<1>5. PICK k \in K : \A y \in K : k <= y
  <2>1. K \subseteq Nat /\ K # {}
    BY <1>1, <1>3
  <2> HIDE DEF D, K
  <2>2. QED
    BY <2>1, Least
<1>6. k \in Compatible(b) /\ pool_dist(k, b) = m /\ k \in Nat
  BY <1>1, <1>5
<1>7. ASSUME NEW x \in Compatible(b), x < k PROVE pool_dist(x, b) > m
  <2>1. x \notin K
    BY <1>1, <1>5, <1>6, <1>7
  <2>2. pool_dist(x, b) # m
    BY <2>1
  <2>3. QED
    BY <1>2, <1>4, <2>2
<1>8. Nearest(b, k)
  BY <1>2, <1>4, <1>6, <1>7 DEF Nearest
<1>9. QED
  BY <1>1, <1>4, <1>6, <1>8

(* Equal lengths are no way apart.                                         *)
LEMMA NormZero == ASSUME NEW b \in Books PROVE Norm(b, 0) = 0
<1> DEFINE used == {i \in DOMAIN b.len : b.len[i] # 0}
<1>1. ~(0 >= Far)
  BY DEF Far
<1>2. CASE used # {}
  <2>1. IsFiniteSet(used)
    <3>1. b.len \in Seq(0 .. 32)
      BY PoolAssumption
    <3>2. DOMAIN b.len = 1 .. Len(b.len) /\ Len(b.len) \in Nat
      BY <3>1, LenProperties
    <3>3. IsFiniteSet(DOMAIN b.len) /\ used \subseteq DOMAIN b.len
      BY <3>2, FS_Interval
    <3> HIDE DEF used
    <3>4. QED
      BY <3>3, FS_Subset
  <2> DEFINE n == Cardinality(used)
  <2>2. n \in Nat /\ n # 0
    BY <1>2, <2>1, FS_CardinalityType, FS_EmptySet
  <2>3. Norm(b, 0) = (0 * 256) \div n
    BY <1>1, <1>2 DEF Norm
  <2> HIDE DEF n
  <2>4. QED
    BY <2>2, <2>3
<1>3. CASE used = {}
  BY <1>1, <1>3 DEF Norm
<1>4. QED
  BY <1>2, <1>3

(* A codebook that has a slot already has one that is close.               *)
LEMMA TwinIsNear ==
  ASSUME IsPool(sl), Lengths, NEW b \in Books, NEW j \in DOMAIN sl,
         sl[j].shape = b.shape, sl[j].len = pool_cmp(b)
  PROVE  \A bound \in Nat : SomeWithin(b, bound)
<1>1. b.len \in Seq(0 .. 32) /\ DOMAIN pool_cmp(b) = DOMAIN b.len
  BY PoolAssumption DEF pool_cmp
<1>2. Len(sl[j].len) = Len(b.len)
  <2>1. sl[j].len \in Seq(0 .. 255)
    BY DEF Lengths
  <2>2. DOMAIN sl[j].len = 1 .. Len(sl[j].len) /\ Len(sl[j].len) \in Nat
    BY <2>1, LenProperties
  <2>3. DOMAIN b.len = 1 .. Len(b.len) /\ Len(b.len) \in Nat
    BY <1>1, LenProperties
  <2> DEFINE x == Len(sl[j].len)
             y == Len(b.len)
  <2>4. 1 .. x = 1 .. y
    BY <1>1, <2>2, <2>3
  <2>5. x \in Nat /\ y \in Nat
    BY <2>2, <2>3
  <2> HIDE DEF x, y
  <2>6. x = y
    BY <2>4, <2>5
  <2>7. QED
    BY <2>6 DEF x, y
<1>3. j \in Compatible(b) /\ pool_dist(j, b) = 0
  <2>1. j \in Compatible(b)
    BY <1>2 DEF Compatible
  <2>2. QED
    BY <2>1, DistSum DEF Lengths
<1>4. PICK k \in DOMAIN sl : Nearest(b, k) /\ pool_dist(k, b) <= 0
  BY <1>3, NearestExists
<1>5. pool_dist(k, b) \in Nat
  BY <1>4, DistSum DEF Nearest, Lengths
<1>6. pool_dist(k, b) = 0
  BY <1>4, <1>5
<1>7. QED
  BY <1>4, <1>6, NormZero DEF SomeWithin, Within

(* What slots are compared by is bytes.                                    *)
LEMMA Compared ==
  ASSUME NEW b \in Books
  PROVE  pool_cmp(b) \in Seq(0 .. 255)
<1>1. b.len \in Seq(0 .. 32)
  BY PoolAssumption
<1>2. DOMAIN b.len = 1 .. Len(b.len) /\ Len(b.len) \in Nat
  BY <1>1, LenProperties
<1>3. \A i \in DOMAIN b.len : b.len[i] \in 0 .. 32
  BY <1>1, <1>2, ElementOfSeq
<1> DEFINE c == pool_cmp(b)
<1>4. c = [i \in DOMAIN b.len |-> IF b.len[i] = 0 THEN 255 ELSE b.len[i]]
  BY DEF pool_cmp, Hole
<1>5. \A z \in 0 .. 32 : (IF z = 0 THEN 255 ELSE z) \in 0 .. 255
  OBVIOUS
<1> HIDE DEF c
<1>6. c \in [1 .. Len(b.len) -> 0 .. 255]
  BY <1>2, <1>3, <1>4, <1>5
<1>7. c \in Seq(0 .. 255)
  <2> DEFINE n == Len(b.len)
  <2>1. n \in Nat /\ c \in [1 .. n -> 0 .. 255]
    BY <1>2, <1>6
  <2> HIDE DEF n
  <2>2. QED
    BY <2>1, SeqDef
<1>8. QED
  BY <1>7 DEF c

(* Sequences of slots, for the pool before and after.                      *)
IsSlot(r) == /\ r = [shape |-> r.shape, len |-> r.len, use |-> r.use]
             /\ r.len \in Seq(0 .. 255)

Apart(s) == /\ \A k \in DOMAIN s : IsSlot(s[k])
            /\ \A j, k \in DOMAIN s : j # k => s[j].shape # s[k].shape \/ s[j].len # s[k].len

(* A slot put among others leaves all of them apart.                       *)
LEMMA PutApart ==
  ASSUME NEW s, Apart(s), NEW t, NEW b \in Books, NEW use, NEW k \in DOMAIN t,
         DOMAIN s \subseteq DOMAIN t, DOMAIN t \subseteq DOMAIN s \cup {k},
         \A j \in DOMAIN s : j # k => t[j] = s[j],
         t[k] = pool_take(b, use),
         \A j \in DOMAIN s : ~(s[j].shape = b.shape /\ s[j].len = pool_cmp(b))
  PROVE  Apart(t)
<1>1. t[k].shape = b.shape /\ t[k].len = pool_cmp(b)
  BY DEF pool_take
<1>2. IsSlot(t[k])
  BY Compared DEF pool_take, IsSlot
<1>3. \A j \in DOMAIN t : j # k => j \in DOMAIN s /\ t[j] = s[j]
  OBVIOUS
<1>4. \A j \in DOMAIN t : IsSlot(t[j])
  BY <1>2, <1>3 DEF Apart
<1>5. \A j \in DOMAIN s : s[j].shape # t[k].shape \/ s[j].len # t[k].len
  BY <1>1
<1>6. ASSUME NEW i \in DOMAIN t, NEW j \in DOMAIN t, i # j
      PROVE  t[i].shape # t[j].shape \/ t[i].len # t[j].len
  <2>1. CASE i # k /\ j # k
    BY <1>3, <1>6, <2>1 DEF Apart
  <2>2. CASE i = k
    BY <1>3, <1>5, <1>6, <2>2
  <2>3. CASE j = k
    BY <1>3, <1>5, <1>6, <2>3
  <2>4. QED
    BY <2>1, <2>2, <2>3
<1>7. QED
  BY <1>4, <1>6 DEF Apart

(* The same slots, with other use.                                         *)
LEMMA UseApart ==
  ASSUME NEW s, Apart(s), NEW t, DOMAIN t = DOMAIN s,
         \A k \in DOMAIN s : t[k] = s[k] \/ \E use : t[k] = [s[k] EXCEPT !.use = use]
  PROVE  Apart(t)
<1>1. ASSUME NEW k \in DOMAIN s
      PROVE  IsSlot(t[k]) /\ t[k].shape = s[k].shape /\ t[k].len = s[k].len
  <2>1. IsSlot(s[k])
    BY DEF Apart
  <2>2. CASE t[k] = s[k]
    BY <2>1, <2>2
  <2>3. CASE \E use : t[k] = [s[k] EXCEPT !.use = use]
    <3>1. PICK use : t[k] = [s[k] EXCEPT !.use = use]
      BY <2>3
    <3>2. t[k] = [shape |-> s[k].shape, len |-> s[k].len, use |-> use]
      BY <2>1, <3>1 DEF IsSlot
    <3>3. t[k].shape = s[k].shape /\ t[k].len = s[k].len /\ t[k].use = use
      BY <3>2
    <3>4. s[k].len \in Seq(0 .. 255)
      BY <2>1 DEF IsSlot
    <3>5. QED
      BY <3>2, <3>3, <3>4 DEF IsSlot
  <2>4. QED
    BY <2>2, <2>3
<1>2. QED
  BY <1>1 DEF Apart

(* A slot that is given is apart from the others.                          *)
LEMMA SlotApart ==
  ASSUME IsPool(sl), Apart(sl), NEW b \in Books, pool_slot(b)
  PROVE  Apart(sl')
<1>1. DOMAIN sl = 1 .. Len(sl) /\ Len(sl) \in Nat
  BY PoolDomain, PoolAssumption DEF IsPool
<1>2. CASE Share(b)
  <2>1. PICK k \in DOMAIN sl : sl' = [sl EXCEPT ![k].use = @ + 1]
    BY <1>2 DEF Share
  <2> DEFINE t == sl'
  <2>2. DOMAIN t = DOMAIN sl
    BY <2>1
  <2>3. \A j \in DOMAIN sl : t[j] = sl[j] \/ \E use : t[j] = [sl[j] EXCEPT !.use = use]
    BY <2>1
  <2> HIDE DEF t
  <2>4. Apart(t)
    BY <2>2, <2>3, UseApart
  <2>5. QED
    BY <2>4 DEF t
<1>3. ASSUME NEW bound \in Nat, ~SomeWithin(b, bound)
      PROVE  \A j \in DOMAIN sl : ~(sl[j].shape = b.shape /\ sl[j].len = pool_cmp(b))
  BY <1>3, TwinIsNear DEF Apart, IsSlot, Lengths
<1>4. CASE TakeFree(b)
  <2> DEFINE t == sl'
             k == Len(sl) + 1
             x == pool_take(b, 0)
  <2>1. t = Append(sl, x) /\ ~SomeWithin(b, Close) /\ Close \in Nat
    BY <1>4 DEF TakeFree, Close
  <2>2. DOMAIN t = 1 .. k /\ t[k] = x /\ \A j \in 1 .. Len(sl) : t[j] = sl[j]
    <3> DEFINE S == {sl[i] : i \in DOMAIN sl} \cup {x}
    <3>1. sl \in [1 .. Len(sl) -> S]
      BY <1>1 DEF IsPool
    <3>2. sl \in Seq(S) /\ x \in S
      BY <1>1, <3>1, SeqDef
    <3> HIDE DEF t, x, S
    <3>3. t \in Seq(S) /\ Len(t) = k /\ t[k] = x /\ \A j \in 1 .. Len(sl) : t[j] = sl[j]
      BY <2>1, <3>2, AppendProperties
    <3>4. QED
      BY <3>3, LenProperties
  <2>3. \A j \in DOMAIN sl : ~(sl[j].shape = b.shape /\ sl[j].len = pool_cmp(b))
    BY <1>3, <2>1
  <2> HIDE DEF t, x
  <2>4. DOMAIN sl \subseteq DOMAIN t /\ DOMAIN t \subseteq DOMAIN sl \cup {k} /\ k \in DOMAIN t
    BY <1>1, <2>2
  <2>5. \A j \in DOMAIN sl : t[j] = sl[j]
    BY <1>1, <2>2
  <2> HIDE DEF k
  <2>6. t[k] = pool_take(b, 0)
    BY <2>2 DEF x
  <2>7. Apart(t)
    BY <2>3, <2>4, <2>5, <2>6, PutApart
  <2>8. QED
    BY <2>7 DEF t
<1>5. CASE Refit(b) \/ Evict(b)
  <2>1. \A j \in DOMAIN sl : ~(sl[j].shape = b.shape /\ sl[j].len = pool_cmp(b))
    BY <1>3, <1>5 DEF Refit, Evict, Close, Kin
  <2>2. PICK k \in DOMAIN sl : sl' = [sl EXCEPT ![k] = pool_take(b, Seed(k))]
    BY <1>5 DEF Refit, Evict
  <2> DEFINE t == sl'
             x == pool_take(b, Seed(k))
  <2>3. t = [sl EXCEPT ![k] = x]
    BY <2>2
  <2> HIDE DEF t, x
  <2>4. DOMAIN t = DOMAIN sl /\ t[k] = x /\ \A j \in DOMAIN sl : j # k => t[j] = sl[j]
    BY <2>3
  <2> DEFINE u == Seed(k)
  <2>5. t[k] = pool_take(b, u)
    BY <2>4 DEF x
  <2> HIDE DEF u
  <2>6. Apart(t)
    BY <2>1, <2>4, <2>5, PutApart
  <2>7. QED
    BY <2>6 DEF t
<1>6. QED
  BY <1>2, <1>4, <1>5 DEF pool_slot

(* The pool goes unchanged, is emptied, given a codebook or aged.          *)
LEMMA NextApart ==
  ASSUME IsPool(sl), Apart(sl), [Next]_vars
  PROVE  Apart(sl')
<1>1. CASE CodeHeaders \/ vb_use
  <2>1. sl' = sl \/ sl' = <<>>
    BY <1>1 DEF CodeHeaders, vb_use, Enter, vb_reset
  <2>2. Apart(<<>>)
    BY DEF Apart
  <2>3. QED
    BY <2>1, <2>2
<1>2. CASE Codebook
  BY <1>2, SlotApart DEF Codebook
<1>3. CASE HeadersDone \/ Partition \/ UNCHANGED vars
  BY <1>3 DEF HeadersDone, Partition, vars, pool
<1>4. CASE vb_endlink
  <2> DEFINE t == sl'
  <2>1. DOMAIN t = DOMAIN sl
    BY <1>4 DEF vb_endlink
  <2>2. \A k \in DOMAIN sl : t[k] = sl[k] \/ \E use : t[k] = [sl[k] EXCEPT !.use = use]
    BY <1>4 DEF vb_endlink
  <2> HIDE DEF t
  <2>3. Apart(t)
    BY <2>1, <2>2, UseApart
  <2>4. QED
    BY <2>3 DEF t
<1>5. QED
  BY <1>1, <1>2, <1>3, <1>4 DEF Next

(* No two slots of the pool are for the same codebook: the search for the  *)
(* nearest finds the one that is there, at no distance, whatever became of *)
(* the others (vorbis.c:459-474).                                          *)
THEOREM OneSlotEach == Spec => []Distinct
<1>1. Init => Apart(sl)
  BY DEF Init, Apart
<1>2. IInv /\ Apart(sl) /\ [Next]_vars => Apart(sl)'
  BY NextApart DEF IInv, Typed
<1>3. Apart(sl) => Distinct
  BY DEF Apart, Distinct
<1>4. QED
  BY <1>1, <1>2, <1>3, Invariant, PTL DEF Spec

-----------------------------------------------------------------------------
(* Framing of Opus packets.                                                *)

(* A function defined by recursion from a number's predecessor.            *)
NextFrom(n, S) == [(1 .. n) \X S -> S]
Unrolls(f, n, S, b, G) ==
  f \in [0 .. n -> S] /\ f[0] = b /\ \A i \in 1 .. n : f[i] = G[<<i, f[i - 1]>>]

(* A recursive function into a set exists.                                 *)
LEMMA Defined ==
  ASSUME NEW S, NEW b \in S, NEW n \in Nat, NEW G \in NextFrom(n, S)
  PROVE  \E f : Unrolls(f, n, S, b, G)
<1> USE DEF NextFrom
<1> DEFINE H == [t \in Nat \X S |-> IF t[1] + 1 \in 1 .. n THEN G[<<t[1] + 1, t[2]>>] ELSE b]
<1>1. H \in Steps(S)
  BY DEF Steps
<1> HIDE DEF H
<1>2. PICK p : Recurs(p, S, b, H)
  BY <1>1, Recursion
<1>3. p \in [Nat -> S] /\ p[0] = b /\ \A m \in Nat : p[m + 1] = H[<<m, p[m]>>]
  BY <1>2 DEF Recurs
<1> DEFINE f == [i \in 0 .. n |-> p[i]]
<1>4. f \in [0 .. n -> S] /\ f[0] = b
  BY <1>3
<1>5. ASSUME NEW i \in 1 .. n PROVE f[i] = G[<<i, f[i - 1]>>]
  <2>1. i - 1 \in Nat /\ (i - 1) + 1 = i /\ i - 1 \in 0 .. n
    OBVIOUS
  <2>2. p[i] = H[<<i - 1, p[i - 1]>>]
    BY <1>3, <2>1
  <2>3. <<i - 1, p[i - 1]>> \in Nat \X S
    BY <1>3, <2>1
  <2>4. H[<<i - 1, p[i - 1]>>] = G[<<i, p[i - 1]>>]
    BY <2>1, <2>3 DEF H
  <2>5. QED
    BY <2>1, <2>2, <2>4
<1> HIDE DEF f
<1>6. Unrolls(f, n, S, b, G)
  BY <1>4, <1>5 DEF Unrolls
<1>7. QED
  BY <1>6

-----------------------------------------------------------------------------
(* Sums of sizes: f has the sum of the first i of s.                       *)
SumsTo(f, s) ==
  /\ f \in [0 .. Len(s) -> Nat] /\ f[0] = 0
  /\ \A i \in 1 .. Len(s) : f[i] = f[i - 1] + s[i]

(* What the recursive sum of sizes is.                                     *)
LEMMA SumIs ==
  ASSUME NEW s \in Seq(Nat)
  PROVE  \E f : SumsTo(f, s) /\ SumOf(s) = f[Len(s)]
<1> DEFINE n == Len(s)
           G == [t \in (1 .. n) \X Nat |-> t[2] + s[t[1]]]
           Is(f) == f = [i \in 0 .. n |-> IF i = 0 THEN 0 ELSE f[i - 1] + s[i]]
           sum == CHOOSE f : Is(f)
<1>1. n \in Nat /\ \A i \in 1 .. n : s[i] \in Nat
  OBVIOUS
<1> HIDE DEF n
<1>2. G \in [(1 .. n) \X Nat -> Nat]
  BY <1>1
<1>3. PICK f \in [0 .. n -> Nat] : f[0] = 0 /\ \A i \in 1 .. n : f[i] = G[<<i, f[i - 1]>>]
  <2> DEFINE z == 0
             S == Nat
  <2>1. z \in S /\ n \in Nat /\ G \in NextFrom(n, S)
    BY <1>1, <1>2 DEF NextFrom
  <2> HIDE DEF G, z, S
  <2>2. \E f : Unrolls(f, n, S, z, G)
    BY <2>1, Defined
  <2>3. QED
    BY <2>2 DEF z, S, Unrolls
<1>4. ASSUME NEW i \in 1 .. n PROVE i - 1 \in 0 .. n /\ f[i] = f[i - 1] + s[i]
  <2>1. i - 1 \in 0 .. n
    BY <1>1
  <2>2. <<i, f[i - 1]>> \in (1 .. n) \X Nat
    BY <1>3, <2>1
  <2>3. G[<<i, f[i - 1]>>] = f[i - 1] + s[i]
    BY <2>2
  <2>4. QED
    BY <1>3, <2>1, <2>3
<1>5. Is(f)
  <2>1. \A i \in 0 .. n : f[i] = IF i = 0 THEN 0 ELSE f[i - 1] + s[i]
    BY <1>1, <1>3, <1>4
  <2>2. f = [i \in 0 .. n |-> f[i]]
    BY <1>3
  <2>3. QED
    BY <2>1, <2>2
<1> HIDE DEF Is
<1>6. Is(sum)
  BY <1>5
<1>7. sum = [i \in 0 .. n |-> IF i = 0 THEN 0 ELSE sum[i - 1] + s[i]]
  <2> HIDE DEF sum
  <2>1. QED
    BY <1>6 DEF Is
<1>8. SumOf(s) = sum[n]
  BY DEF SumOf, Is, n
<1> HIDE DEF sum
<1>9. sum[0] = 0 /\ \A i \in 1 .. n : sum[i] = sum[i - 1] + s[i]
  <2>1. 0 \in 0 .. n /\ \A i \in 1 .. n : i \in 0 .. n /\ i # 0
    BY <1>1
  <2>2. QED
    BY <1>7, <2>1
<1> DEFINE D == {i \in Nat : i <= n => sum[i] \in Nat}
<1>10. 0 \in D
  BY <1>9
<1>11. ASSUME NEW i \in Nat, i \in D PROVE i + 1 \in D
  <2> SUFFICES ASSUME i + 1 <= n PROVE sum[i + 1] \in Nat
    OBVIOUS
  <2>1. sum[i] \in Nat /\ i + 1 \in 1 .. n
    BY <1>1, <1>11
  <2>2. sum[i + 1] = sum[i] + s[i + 1]
    BY <1>9, <2>1
  <2>3. QED
    BY <1>1, <2>1, <2>2
<1> HIDE DEF D
<1>12. \A i \in Nat : i \in D
  BY <1>10, <1>11, Inducts
<1>13. \A i \in 0 .. n : sum[i] \in Nat
  BY <1>12 DEF D
<1>14. sum \in [0 .. n -> Nat]
  BY <1>7, <1>13
<1>15. SumsTo(sum, s)
  BY <1>9, <1>14 DEF SumsTo, n
<1>16. QED
  BY <1>8, <1>15 DEF n

(* Sums agree as far as what is summed does.                               *)
LEMMA SumsAgree ==
  ASSUME NEW s \in Seq(Nat), NEW r \in Seq(Nat), NEW f, NEW g, SumsTo(f, s), SumsTo(g, r),
         NEW m \in Nat, m <= Len(s), m <= Len(r), \A i \in 1 .. m : s[i] = r[i]
  PROVE  \A i \in 0 .. m : f[i] = g[i]
<1> DEFINE D == {i \in Nat : i <= m => f[i] = g[i]}
<1>1. 0 \in D
  BY DEF SumsTo
<1>2. ASSUME NEW i \in Nat, i \in D PROVE i + 1 \in D
  <2> SUFFICES ASSUME i + 1 <= m PROVE f[i + 1] = g[i + 1]
    OBVIOUS
  <2>1. f[i] = g[i] /\ i + 1 \in 1 .. m /\ i + 1 \in 1 .. Len(s) /\ i + 1 \in 1 .. Len(r)
    BY <1>2
  <2>2. s[i + 1] = r[i + 1] /\ (i + 1) - 1 = i
    BY <2>1
  <2>3. f[i + 1] = f[i] + s[i + 1] /\ g[i + 1] = g[i] + r[i + 1]
    BY <2>1, <2>2 DEF SumsTo
  <2>4. QED
    BY <2>1, <2>2, <2>3
<1> HIDE DEF D
<1>3. \A i \in Nat : i \in D
  BY <1>1, <1>2, Inducts
<1>4. QED
  BY <1>3 DEF D

(* Where the parts of a sequence of sizes begin and end.                   *)
LEMMA SumOfFirst ==
  ASSUME NEW s \in Seq(Nat), NEW f, SumsTo(f, s), NEW m \in 0 .. Len(s)
  PROVE  SumOf(SubSeq(s, 1, m)) = f[m]
<1> DEFINE r == SubSeq(s, 1, m)
<1>1. r \in Seq(Nat) /\ Len(r) = m /\ \A i \in 1 .. m : s[i] = r[i]
  OBVIOUS
<1> HIDE DEF r
<1>2. PICK g : SumsTo(g, r) /\ SumOf(r) = g[Len(r)]
  BY <1>1, SumIs
<1>3. \A i \in 0 .. m : f[i] = g[i]
  BY <1>1, <1>2, SumsAgree
<1>4. QED
  BY <1>1, <1>2, <1>3 DEF r

(* One size more.                                                          *)
LEMMA SumOfAppended ==
  ASSUME NEW s \in Seq(Nat), NEW v \in Nat
  PROVE  SumOf(s) \in Nat /\ SumOf(Append(s, v)) = SumOf(s) + v
<1> DEFINE r == Append(s, v)
           n == Len(s)
<1>1. r \in Seq(Nat) /\ Len(r) = n + 1 /\ n \in Nat /\ r[n + 1] = v /\ \A i \in 1 .. n : r[i] = s[i]
  OBVIOUS
<1> HIDE DEF r
<1>2. PICK f : SumsTo(f, s) /\ SumOf(s) = f[Len(s)]
  BY SumIs
<1>3. PICK g : SumsTo(g, r) /\ SumOf(r) = g[Len(r)]
  BY <1>1, SumIs
<1>4. \A i \in 0 .. n : f[i] = g[i]
  <2>1. n \in Nat /\ n <= Len(s) /\ n <= Len(r) /\ \A i \in 1 .. n : s[i] = r[i]
    BY <1>1
  <2>2. QED
    BY <1>1, <1>2, <1>3, <2>1, SumsAgree, SMTT(30)
<1>5. n + 1 \in 1 .. Len(r) /\ (n + 1) - 1 = n
  BY <1>1
<1>6. g[n + 1] = g[n] + v
  BY <1>1, <1>3, <1>5 DEF SumsTo
<1>7. f[n] \in Nat
  BY <1>2 DEF SumsTo
<1>8. QED
  BY <1>1, <1>2, <1>3, <1>4, <1>6, <1>7 DEF r

(* Sizes that are all alike.                                               *)
LEMMA SumOfAlike ==
  ASSUME NEW n \in Nat, NEW v \in Nat
  PROVE  SumOf([i \in 1 .. n |-> v]) = n * v
<1> DEFINE s == [i \in 1 .. n |-> v]
<1>1. s \in Seq(Nat) /\ Len(s) = n /\ \A i \in 1 .. n : s[i] = v
  OBVIOUS
<1> HIDE DEF s
<1>2. PICK f : SumsTo(f, s) /\ SumOf(s) = f[Len(s)]
  BY <1>1, SumIs
<1> DEFINE D == {i \in Nat : i <= n => f[i] = i * v}
<1>3. 0 \in D
  BY <1>2 DEF SumsTo
<1>4. ASSUME NEW i \in Nat, i \in D PROVE i + 1 \in D
  <2> SUFFICES ASSUME i + 1 <= n PROVE f[i + 1] = (i + 1) * v
    OBVIOUS
  <2>1. f[i] = i * v /\ i + 1 \in 1 .. Len(s) /\ (i + 1) - 1 = i /\ s[i + 1] = v
    BY <1>1, <1>4
  <2>2. f[i + 1] = f[i] + v
    BY <1>2, <2>1 DEF SumsTo
  <2>3. (i + 1) * v = i * v + v
    OBVIOUS
  <2>4. QED
    BY <2>1, <2>2, <2>3
<1> HIDE DEF D
<1>5. \A i \in Nat : i \in D
  BY <1>3, <1>4, Inducts
<1>6. n \in D
  BY <1>5
<1>7. QED
  BY <1>1, <1>2, <1>6 DEF D, s

-----------------------------------------------------------------------------
(* Parsing.  A step of it reads no cell behind those that it then is past, *)
(* so another packet of as many cells, the same so far, is parsed alike.   *)
Cells == Seq(0 .. Word - 1)

Same(c, d, n) == \A i \in 1 .. n : c[i] = d[i]

Good(L) ==
  {x \in [ok : {TRUE}, at : Nat, len : Int, sizes : Seq(Nat)] : x.at + x.len <= L}

Parses(L) == {Invalid} \cup Good(L)

(* A parse is through with its parts, or it is invalid.                    *)
LEMMA ParsesAre ==
  ASSUME NEW L \in Nat, NEW x \in Parses(L)
  PROVE  /\ x.ok \in BOOLEAN /\ (x.ok <=> x \in Good(L)) /\ (~x.ok <=> x = Invalid)
         /\ x.ok => /\ x.at \in Nat /\ x.len \in Int /\ x.sizes \in Seq(Nat) /\ x.at + x.len <= L

<1>1. CASE x = Invalid
  <2>1. x.ok = FALSE
    BY <1>1 DEF Invalid
  <2>2. x \notin Good(L)
    BY <2>1 DEF Good
  <2>3. QED
    BY <1>1, <2>1, <2>2
<1>2. CASE x \in Good(L)
  <2>1. x.ok = TRUE
    BY <1>2 DEF Good
  <2>2. x # Invalid
    BY <2>1 DEF Invalid
  <2>3. x.at \in Nat /\ x.len \in Int /\ x.sizes \in Seq(Nat) /\ x.at + x.len <= L
    BY <1>2 DEF Good
  <2>4. QED
    BY <1>2, <2>1, <2>2, <2>3
<1>3. QED
  BY <1>1, <1>2 DEF Parses

Parsed(at, len, sizes) == [ok |-> TRUE, at |-> at, len |-> len, sizes |-> sizes]

(* The parts of a parse, taken apart and put together.                     *)
LEMMA GoodParts ==
  ASSUME NEW L \in Nat, NEW x \in Good(L)
  PROVE  \E at \in Nat, len \in Int, sizes \in Seq(Nat) : at + len <= L /\ x = Parsed(at, len, sizes)
<1>1. x.at \in Nat /\ x.len \in Int /\ x.sizes \in Seq(Nat) /\ x.at + x.len <= L
  BY DEF Good
<1>2. x = Parsed(x.at, x.len, x.sizes)
  BY DEF Good, Parsed
<1>3. QED
  BY <1>1, <1>2

(* Such parts make a parse.                                                *)
LEMMA PartsGood ==
  ASSUME NEW L \in Nat, NEW at \in Nat, NEW len \in Int, NEW sizes \in Seq(Nat), at + len <= L
  PROVE  Parsed(at, len, sizes) \in Good(L)
BY DEF Good, Parsed

(* Cells are bytes.                                                        *)
LEMMA CellsAre ==
  ASSUME PacketAssumption, NEW c \in Cells
  PROVE  /\ Word \in Nat /\ Word >= 8 /\ Len(c) \in Nat
         /\ \A i \in 1 .. Len(c) : c[i] \in 0 .. Word - 1
<1>1. Word \in Nat /\ Word >= 8
  BY DEF PacketAssumption
<1> DEFINE S == 0 .. Word - 1
<1>2. c \in Seq(S)
  BY DEF Cells
<1> HIDE DEF S
<1>3. Len(c) \in Nat /\ \A i \in 1 .. Len(c) : c[i] \in S
  BY <1>2
<1>4. QED
  BY <1>1, <1>3 DEF S

(* A size is of one cell or of two, if there are as many.                  *)
LEMMA SizeRead ==
  ASSUME Word \in Nat, NEW e, NEW at \in Nat, NEW len \in Int, NEW v \in Nat, len >= 1 => v = e[at + 1]
  PROVE  parse_size(e, at, len) =
           IF len < 1 \/ (v >= Word - 4 /\ len < 2) THEN [size |-> -1, n |-> -1]
           ELSE IF v < Word - 4 THEN [size |-> v, n |-> 1] ELSE [size |-> 4 * e[at + 2] + v, n |-> 2]
<1>1. CASE len < 1
  BY <1>1 DEF parse_size
<1>2. CASE len >= 1
  BY <1>2 DEF parse_size
<1>3. QED
  BY <1>1, <1>2

(* One size read, the same from any packet that starts alike (parse_size). *)
LEMMA SizeStep ==
  ASSUME PacketAssumption, NEW c \in Cells, NEW x \in Parses(Len(c)), NEW y, y = SizeParsed(x, c)
  PROVE  /\ y \in Parses(Len(c))
         /\ y.ok => /\ x.ok /\ x.at <= y.at
                    /\ \A d \in Cells : Len(d) = Len(c) /\ Same(c, d, y.at) => SizeParsed(x, d) = y
<1> DEFINE L == Len(c)
<1>1. Word \in Nat /\ L \in Nat /\ \A i \in 1 .. L : c[i] \in 0 .. Word - 1
  BY CellsAre
<1> HIDE DEF L
<1>2. x \in Parses(L)
  BY DEF L
<1>3. CASE ~x.ok
  <2>1. y = x
    BY <1>3 DEF SizeParsed
  <2>2. QED
    BY <1>3, <2>1
<1>4. CASE x.ok
  <2>1. x \in Good(L)
    BY <1>1, <1>2, <1>4, ParsesAre
  <2>2. PICK at \in Nat, len \in Int, sizes \in Seq(Nat) : at + len <= L /\ x = Parsed(at, len, sizes)
    BY <1>1, <2>1, GoodParts
  <2>3. x.ok = TRUE /\ x.at = at /\ x.len = len /\ x.sizes = sizes
    BY <2>2 DEF Parsed
  <2>4. \A p, n : [x EXCEPT !.at = @ + n, !.len = @ - n, !.sizes = Append(@, p)]
                   = Parsed(at + n, len - n, Append(sizes, p))
    <3> SUFFICES ASSUME NEW p, NEW n
                 PROVE  [x EXCEPT !.at = @ + n, !.len = @ - n, !.sizes = Append(@, p)]
                          = Parsed(at + n, len - n, Append(sizes, p))
      OBVIOUS
    <3> DEFINE z == [x EXCEPT !.at = @ + n, !.len = @ - n, !.sizes = Append(@, p)]
               r == Append(sizes, p)
    <3>1. DOMAIN z = {"ok", "at", "len", "sizes"} /\ z.ok = TRUE /\ z.at = at + n /\ z.len = len - n
      BY <2>2, <2>3 DEF Parsed
    <3>2. z.sizes = r
      BY <2>2, <2>3 DEF Parsed
    <3>3. z = [d \in DOMAIN z |-> z[d]]
      OBVIOUS
    <3> HIDE DEF z, r
    <3>4. z = Parsed(at + n, len - n, r)
      BY <3>1, <3>2, <3>3 DEF Parsed
    <3>5. QED
      BY <3>4 DEF z, r
  <2> DEFINE s == parse_size(c, at, len)
             v == IF len >= 1 THEN c[at + 1] ELSE 0
  <2>5. v \in Nat /\ (len >= 1 => v = c[at + 1])
    <3>1. len >= 1 => at + 1 \in 1 .. L
      BY <1>1, <2>2
    <3>2. QED
      BY <1>1, <3>1
  <2>6. len >= 2 => at + 2 \in 1 .. L /\ c[at + 2] \in Nat
    BY <1>1, <2>2
  <2> HIDE DEF v
  <2>7. \A e : (len >= 1 => v = e[at + 1]) =>
          parse_size(e, at, len) =
             IF len < 1 \/ (v >= Word - 4 /\ len < 2) THEN [size |-> -1, n |-> -1]
             ELSE IF v < Word - 4 THEN [size |-> v, n |-> 1] ELSE [size |-> 4 * e[at + 2] + v, n |-> 2]
    BY <1>1, <2>5, SizeRead
  <2>8. s = IF len < 1 \/ (v >= Word - 4 /\ len < 2) THEN [size |-> -1, n |-> -1]
            ELSE IF v < Word - 4 THEN [size |-> v, n |-> 1] ELSE [size |-> 4 * c[at + 2] + v, n |-> 2]
    BY <2>5, <2>7
  <2>9. \A e : SizeParsed(x, e) =
          IF parse_size(e, at, len).size < 0 \/ parse_size(e, at, len).size > len - parse_size(e, at, len).n
            THEN Invalid
          ELSE Parsed(at + parse_size(e, at, len).n, len - parse_size(e, at, len).n,
                      Append(sizes, parse_size(e, at, len).size))
    BY <2>3, <2>4 DEF SizeParsed
  <2>10. y = IF s.size < 0 \/ s.size > len - s.n THEN Invalid
             ELSE Parsed(at + s.n, len - s.n, Append(sizes, s.size))
    BY <2>9
  <2> HIDE DEF s
  <2>11. CASE s.size < 0 \/ s.size > len - s.n
    <3>1. y = Invalid
      BY <2>10, <2>11
    <3>2. QED
      BY <3>1 DEF Parses, Invalid
  <2>12. CASE ~(s.size < 0 \/ s.size > len - s.n)
    <3>1. ~(len < 1 \/ (v >= Word - 4 /\ len < 2))
      <4>1. SUFFICES ASSUME len < 1 \/ (v >= Word - 4 /\ len < 2) PROVE FALSE
        OBVIOUS
      <4>2. s = [size |-> -1, n |-> -1]
        BY <2>8, <4>1
      <4>3. QED
        BY <2>12, <4>2
    <3>2. len >= 1 /\ v = c[at + 1]
      BY <2>5, <3>1
    <3>3. /\ s.size \in Nat /\ s.n \in {1, 2} /\ s.n <= len
          /\ \A d : Same(c, d, at + s.n) => parse_size(d, at, len) = s
      <4>1. CASE v < Word - 4
        <5>1. s = [size |-> v, n |-> 1]
          BY <2>8, <3>1, <4>1
        <5>2. s.size = v /\ s.n = 1
          BY <5>1
        <5>3. ASSUME NEW d, Same(c, d, at + 1) PROVE parse_size(d, at, len) = s
          <6>1. v = d[at + 1]
            BY <3>2, <5>3 DEF Same
          <6>2. QED
            BY <2>7, <3>1, <4>1, <5>1, <6>1
        <5>4. QED
          BY <2>5, <3>2, <5>2, <5>3
      <4>2. CASE ~(v < Word - 4)
        <5>1. v >= Word - 4 /\ len >= 2
          BY <1>1, <2>5, <3>1, <4>2
        <5>2. s = [size |-> 4 * c[at + 2] + v, n |-> 2]
          BY <2>8, <3>1, <4>2
        <5>3. s.size = 4 * c[at + 2] + v /\ s.n = 2
          BY <5>2
        <5>4. ASSUME NEW d, Same(c, d, at + 2) PROVE parse_size(d, at, len) = s
          <6>1. at + 1 \in 1 .. at + 2 /\ at + 2 \in 1 .. at + 2
            OBVIOUS
          <6>2. v = d[at + 1] /\ d[at + 2] = c[at + 2]
            BY <3>2, <5>4, <6>1 DEF Same
          <6>3. QED
            BY <2>7, <3>1, <4>2, <5>2, <6>2
        <5>5. QED
          BY <2>5, <2>6, <5>1, <5>3, <5>4
      <4>3. QED
        BY <4>1, <4>2
    <3>4. y = Parsed(at + s.n, len - s.n, Append(sizes, s.size)) /\ y.at = at + s.n /\ y.ok = TRUE
      BY <2>10, <2>12 DEF Parsed
    <3>5. y \in Good(L)
      <4>1. at + s.n \in Nat /\ len - s.n \in Int /\ Append(sizes, s.size) \in Seq(Nat)
            /\ (at + s.n) + (len - s.n) <= L
        BY <1>1, <2>2, <3>3, SMTT(30)
      <4>2. QED
        BY <1>1, <3>4, <4>1, PartsGood
    <3>6. ASSUME NEW d \in Cells, Same(c, d, y.at) PROVE SizeParsed(x, d) = y
      <4>1. parse_size(d, at, len) = s
        BY <3>3, <3>4, <3>6
      <4>2. QED
        BY <2>9, <2>10, <4>1
    <3>7. x.at <= y.at
      BY <2>3, <3>3, <3>4
    <3>8. QED
      BY <1>4, <3>5, <3>6, <3>7 DEF Parses, L
  <2>13. QED
    BY <2>11, <2>12
<1>5. QED
  BY <1>3, <1>4

(* The padding lengths read, likewise.                                     *)
LEMMA PaddingStep ==
  ASSUME PacketAssumption, NEW c \in Cells, NEW x \in Good(Len(c)), NEW y, y = PaddingParsed(x, c)
  PROVE  /\ y \in Parses(Len(c))
         /\ y.ok => /\ x.at <= y.at
                    /\ \A d \in Cells : Len(d) = Len(c) /\ Same(c, d, y.at) => PaddingParsed(x, d) = y
<1> DEFINE L == Len(c)
           ends(e) == {n \in 0 .. x.len - 1 : /\ x.len > n * (Word - 1) /\ e[x.at + n + 1] # Word - 1
                                              /\ \A i \in 1 .. n : e[x.at + i] = Word - 1}
           After(e, n) == [x EXCEPT !.at = @ + n + 1, !.len = @ - n * (Word - 1) - 1 - e[x.at + n + 1]]
<1>1. Word \in Nat /\ Word >= 8 /\ L \in Nat /\ \A i \in 1 .. L : c[i] \in 0 .. Word - 1
  BY CellsAre
<1>2. PICK at \in Nat, len \in Int, sizes \in Seq(Nat) : at + len <= L /\ x = Parsed(at, len, sizes)
  BY <1>1, GoodParts
<1>3. x.at = at /\ x.len = len
  BY <1>2 DEF Parsed
<1>4. \A e : PaddingParsed(x, e) = IF ends(e) = {} THEN Invalid ELSE After(e, CHOOSE n \in ends(e) : TRUE)
  BY DEF PaddingParsed
<1>5. \A e, n : n \in ends(e) <=> /\ n \in 0 .. len - 1 /\ len > n * (Word - 1)
                                   /\ e[at + n + 1] # Word - 1
                                   /\ \A i \in 1 .. n : e[at + i] = Word - 1
  BY <1>3
<1>6. ASSUME NEW e, NEW n
      PROVE  After(e, n) = Parsed(at + n + 1, len - n * (Word - 1) - 1 - e[at + n + 1], sizes)
  <2> DEFINE q == n * (Word - 1)
  <2> HIDE DEF q
  <2>1. After(e, n) = [x EXCEPT !.at = @ + n + 1, !.len = @ - q - 1 - e[at + n + 1]]
    BY <1>3 DEF q
  <2> DEFINE z == [x EXCEPT !.at = @ + n + 1, !.len = @ - q - 1 - e[at + n + 1]]
             a == at + n + 1
             l == len - q - 1 - e[at + n + 1]
  <2>2. DOMAIN z = {"ok", "at", "len", "sizes"} /\ z.ok = TRUE /\ z.at = a /\ z.len = l /\ z.sizes = sizes
    BY <1>2, <1>3 DEF Parsed
  <2>3. z = [d \in DOMAIN z |-> z[d]]
    OBVIOUS
  <2> HIDE DEF z, a, l
  <2>4. z = Parsed(a, l, sizes)
    BY <2>2, <2>3 DEF Parsed
  <2>5. QED
    BY <2>1, <2>4 DEF z, a, l, q
<1> HIDE DEF ends, After, L
<1>7. CASE ends(c) = {}
  <2>1. y = Invalid
    BY <1>4, <1>7
  <2>2. QED
    BY <2>1 DEF Parses, Invalid
<1>8. CASE ends(c) # {}
  <2> DEFINE n == CHOOSE m \in ends(c) : TRUE
  <2>1. n \in ends(c) /\ y = After(c, n)
    BY <1>4, <1>8
  <2> HIDE DEF n
  <2>2. /\ n \in Nat /\ n <= len - 1 /\ c[at + n + 1] # Word - 1
        /\ \A i \in 1 .. n : c[at + i] = Word - 1
    BY <1>2, <1>5, <2>1
  <2>3. at + n + 1 \in 1 .. L
    BY <1>1, <1>2, <2>2
  <2>4. c[at + n + 1] \in Nat
    BY <1>1, <2>3
  <2> DEFINE q == n * (Word - 1)
             r == c[at + n + 1]
  <2>5. q \in Nat /\ q >= n
    BY <1>1, <2>2
  <2>6. y = Parsed(at + n + 1, len - q - 1 - r, sizes)
    BY <1>6, <2>1
  <2> HIDE DEF q, r
  <2>7. y.at = at + n + 1
    BY <2>6 DEF Parsed
  <2>8. y \in Good(L)
    <3>1. r \in Nat
      BY <2>4 DEF r
    <3>2. at + n + 1 \in Nat /\ len - q - 1 - r \in Int /\ (at + n + 1) + (len - q - 1 - r) <= L
      BY <1>1, <1>2, <2>2, <2>5, <3>1
    <3>3. QED
      BY <1>1, <2>6, <3>2, PartsGood
  <2>9. ASSUME NEW d \in Cells, Same(c, d, y.at) PROVE PaddingParsed(x, d) = y
    <3>1. ASSUME NEW i \in 1 .. n + 1 PROVE d[at + i] = c[at + i]
      <4>1. at + i \in 1 .. at + n + 1
        BY <2>2
      <4>2. QED
        BY <2>7, <2>9, <4>1 DEF Same
    <3>2. d[at + n + 1] = c[at + n + 1] /\ \A i \in 1 .. n : d[at + i] = Word - 1
      <4>1. at + n + 1 = at + (n + 1) /\ n + 1 \in 1 .. n + 1
        BY <2>2
      <4>2. \A i \in 1 .. n : i \in 1 .. n + 1
        BY <2>2
      <4>3. QED
        BY <2>2, <3>1, <4>1, <4>2
    <3>3. n \in ends(d)
      BY <1>5, <2>1, <2>2, <3>2
    <3>4. ASSUME NEW m \in ends(d) PROVE m = n
      <4>1. m \in Nat /\ d[at + m + 1] # Word - 1
        BY <1>2, <1>5, <3>4
      <4>2. \A i \in 1 .. m : d[at + i] = Word - 1
        BY <1>5, <3>4
      <4>3. m >= n
        <5>1. SUFFICES ASSUME m < n PROVE FALSE
          BY <2>2, <4>1
        <5>2. m + 1 \in 1 .. n
          BY <2>2, <4>1, <5>1
        <5>3. d[at + (m + 1)] = Word - 1
          BY <3>2, <5>2
        <5>4. at + (m + 1) = at + m + 1
          BY <4>1
        <5>5. QED
          BY <4>1, <5>3, <5>4
      <4>4. n >= m
        <5>1. SUFFICES ASSUME n < m PROVE FALSE
          BY <2>2, <4>1
        <5>2. n + 1 \in 1 .. m
          BY <2>2, <4>1, <5>1
        <5>3. d[at + (n + 1)] = Word - 1
          BY <4>2, <5>2
        <5>4. at + (n + 1) = at + n + 1
          BY <2>2
        <5>5. QED
          BY <2>2, <3>2, <5>3, <5>4
      <4>5. QED
        BY <2>2, <4>1, <4>3, <4>4
    <3>5. (CHOOSE m \in ends(d) : TRUE) = n
      BY <3>3, <3>4
    <3>6. PaddingParsed(x, d) = After(d, n)
      BY <1>4, <3>3, <3>5
    <3>7. QED
      BY <1>6, <2>1, <3>2, <3>6
  <2>10. x.at <= y.at
    BY <1>3, <2>2, <2>7
  <2>11. QED
    BY <2>8, <2>9, <2>10 DEF Parses, L
<1>9. QED
  BY <1>7, <1>8

(* Parses that are through: the frames end within the packet.              *)
Through(L) == {Invalid} \cup {x \in Good(L) : x.at + SumOf(x.sizes) <= L}

(* The last frame gets the rest.                                           *)
LEMMA RestStep ==
  ASSUME PacketAssumption, NEW L \in Nat, NEW x \in Parses(L), NEW y, y = Rest(x)
  PROVE  /\ y \in Through(L)
         /\ y.ok => x.ok /\ y.at = x.at
<1> USE DEF PacketAssumption
<1>1. CASE ~x.ok
  <2>1. y = x /\ x = Invalid
    BY <1>1, ParsesAre DEF Rest
  <2>2. QED
    BY <1>1, <2>1 DEF Through
<1>2. CASE x.ok
  <2>1. x \in Good(L)
    BY <1>2, ParsesAre
  <2>2. PICK at \in Nat, len \in Int, sizes \in Seq(Nat) : at + len <= L /\ x = Parsed(at, len, sizes)
    BY <2>1, GoodParts
  <2>3. x.ok = TRUE /\ x.at = at /\ x.len = len /\ x.sizes = sizes
    BY <2>2 DEF Parsed
  <2> DEFINE last == len - SumOf(sizes)
             z == [x EXCEPT !.sizes = Append(@, last)]
             r == Append(sizes, last)
  <2>4. y = IF last < 0 \/ last > MaxFrame THEN Invalid ELSE z
    BY <2>3 DEF Rest
  <2>5. DOMAIN z = {"ok", "at", "len", "sizes"} /\ z.ok = TRUE /\ z.at = at /\ z.len = len /\ z.sizes = r
    BY <2>2, <2>3 DEF Parsed
  <2>6. z = [d \in DOMAIN z |-> z[d]]
    OBVIOUS
  <2> HIDE DEF z, r
  <2>7. z = Parsed(at, len, r)
    BY <2>5, <2>6 DEF Parsed
  <2>8. SumOf(sizes) \in Nat
    BY SumOfAppended
  <2>9. CASE last < 0 \/ last > MaxFrame
    <3>1. y = Invalid
      BY <2>4, <2>9
    <3>2. QED
      BY <3>1 DEF Through, Invalid
  <2>10. CASE ~(last < 0 \/ last > MaxFrame)
    <3>1. y = z /\ last \in Nat
      BY <2>4, <2>8, <2>10
    <3> HIDE DEF last
    <3>2. r \in Seq(Nat)
      BY <3>1 DEF r
    <3>3. z \in Good(L)
      BY <2>2, <2>7, <3>2, PartsGood
    <3>4. SumOf(r) = SumOf(sizes) + last
      BY <3>1, SumOfAppended DEF r
    <3>5. SumOf(r) = len
      BY <2>8, <3>4 DEF last
    <3>6. z.at + SumOf(z.sizes) <= L
      BY <2>2, <2>5, <3>5
    <3>7. QED
      BY <2>3, <2>5, <3>1, <3>3, <3>6 DEF Through
  <2>11. QED
    BY <2>9, <2>10
<1>3. QED
  BY <1>1, <1>2, ParsesAre

(* Quotient and remainder.                                                 *)
LEMMA Shared ==
  ASSUME NEW a \in Nat, NEW n \in Nat, n > 0
  PROVE  a \div n \in Nat /\ a % n \in 0 .. n - 1 /\ a = n * (a \div n) + (a % n)
<1>1. a \div n \in Int /\ a % n \in 0 .. n - 1 /\ a = n * (a \div n) + (a % n)
  OBVIOUS
<1>2. a \div n \in Nat
  BY <1>1
<1>3. QED
  BY <1>1, <1>2

(* A quotient without remainder.                                           *)
LEMMA Shares ==
  ASSUME NEW a \in Nat, NEW n \in Nat, n >= 1, a % n = 0
  PROVE  a \div n \in Nat /\ n * (a \div n) = a
<1> DEFINE q == a \div n
<1>1. q \in Nat /\ a = n * q + (a % n)
  BY Shared
<1> HIDE DEF q
<1>2. n * q \in Nat
  BY <1>1
<1>3. n * q = a
  BY <1>1, <1>2
<1>4. QED
  BY <1>1, <1>3 DEF q

(* Frames of one size.                                                     *)
LEMMA EqualStep ==
  ASSUME PacketAssumption, NEW L \in Nat, NEW x \in Good(L), x.len >= 0,
         NEW n \in Nat, n >= 1, NEW y, y = Equal(x, n)
  PROVE  y \in Through(L) /\ (y.ok => y.at = x.at)
<1>1. PICK at \in Nat, len \in Int, sizes \in Seq(Nat) : at + len <= L /\ x = Parsed(at, len, sizes)
  BY GoodParts
<1>2. x.ok = TRUE /\ x.at = at /\ x.len = len /\ len \in Nat
  BY <1>1 DEF Parsed
<1> DEFINE m == len \div n
           r == [i \in 1 .. n |-> m]
           z == [x EXCEPT !.sizes = r]
<1>3. y = IF len % n # 0 \/ m > MaxFrame THEN Invalid ELSE z
  BY <1>2 DEF Equal
<1>4. DOMAIN z = {"ok", "at", "len", "sizes"} /\ z.ok = TRUE /\ z.at = at /\ z.len = len /\ z.sizes = r
  BY <1>1, <1>2 DEF Parsed
<1>5. z = [d \in DOMAIN z |-> z[d]]
  OBVIOUS
<1> HIDE DEF z, r
<1>6. z = Parsed(at, len, r)
  BY <1>4, <1>5 DEF Parsed
<1>7. CASE len % n # 0 \/ m > MaxFrame
  <2>1. y = Invalid
    BY <1>3, <1>7
  <2>2. QED
    BY <2>1 DEF Through, Invalid
<1>8. CASE ~(len % n # 0 \/ m > MaxFrame)
  <2>1. m \in Nat /\ n * m = len
    BY <1>2, <1>8, Shares
  <2> HIDE DEF m
  <2>2. r \in Seq(Nat)
    BY <2>1 DEF r
  <2>3. z \in Good(L)
    BY <1>1, <1>6, <2>2, PartsGood
  <2>4. SumOf(r) = len
    BY <2>1, SumOfAlike DEF r
  <2>5. y = z
    BY <1>3, <1>8 DEF m
  <2>6. z.at + SumOf(z.sizes) <= L
    BY <1>1, <1>4, <2>4
  <2>7. QED
    BY <1>2, <1>4, <2>3, <2>5, <2>6 DEF Through
<1>9. QED
  BY <1>7, <1>8

(* The sizes of all frames but the last, one after the other.              *)
SizesParsed(y, x, c, m) ==
  /\ y \in [0 .. m -> Parses(Len(c))] /\ y[0] = x
  /\ \A i \in 1 .. m : y[i] = SizeParsed(y[i - 1], c)

(* What the recursion over sizes is.                                       *)
LEMMA DifferentIs ==
  ASSUME PacketAssumption, NEW c \in Cells, NEW x \in Parses(Len(c)), NEW m \in Nat
  PROVE  \E y : SizesParsed(y, x, c, m) /\ Different(x, c, m + 1) = Rest(y[m])
<1> DEFINE S == Parses(Len(c))
           G == [t \in (1 .. m) \X S |-> SizeParsed(t[2], c)]
           Is(y) == y = [i \in 0 .. m |-> IF i = 0 THEN x ELSE SizeParsed(y[i - 1], c)]
           all == CHOOSE y : Is(y)
<1>1. \A z \in S : SizeParsed(z, c) \in S
  BY SizeStep
<1> HIDE DEF S
<1>2. G \in NextFrom(m, S)
  BY <1>1 DEF NextFrom
<1>3. x \in S
  BY DEF S
<1>4. PICK y : Unrolls(y, m, S, x, G)
  <2> HIDE DEF G
  <2>1. QED
    BY <1>2, <1>3, Defined
<1>5. y \in [0 .. m -> S] /\ y[0] = x
  BY <1>4 DEF Unrolls
<1>6. ASSUME NEW i \in 1 .. m PROVE i - 1 \in 0 .. m /\ y[i] = SizeParsed(y[i - 1], c)
  <2>1. i - 1 \in 0 .. m
    OBVIOUS
  <2>2. <<i, y[i - 1]>> \in (1 .. m) \X S
    BY <1>5, <2>1
  <2>3. G[<<i, y[i - 1]>>] = SizeParsed(y[i - 1], c)
    BY <2>2
  <2>4. y[i] = G[<<i, y[i - 1]>>]
    <3> HIDE DEF G
    <3>1. QED
      BY <1>4 DEF Unrolls
  <2>5. QED
    BY <2>1, <2>3, <2>4
<1> HIDE DEF G
<1>7. Is(y)
  <2>1. \A i \in 0 .. m : y[i] = IF i = 0 THEN x ELSE SizeParsed(y[i - 1], c)
    BY <1>5, <1>6
  <2>2. y = [i \in 0 .. m |-> y[i]]
    BY <1>5
  <2>3. QED
    BY <2>1, <2>2
<1> HIDE DEF Is
<1>8. Is(all)
  BY <1>7
<1>9. all = [i \in 0 .. m |-> IF i = 0 THEN x ELSE SizeParsed(all[i - 1], c)]
  <2> HIDE DEF all
  <2>1. QED
    BY <1>8 DEF Is
<1>10. Different(x, c, m + 1) = Rest(all[m])
  <2>1. (m + 1) - 1 = m
    OBVIOUS
  <2>2. QED
    BY <2>1 DEF Different, Is
<1> HIDE DEF all
<1>11. all[0] = x /\ \A i \in 1 .. m : all[i] = SizeParsed(all[i - 1], c)
  <2>1. 0 \in 0 .. m /\ \A i \in 1 .. m : i \in 0 .. m /\ i # 0
    OBVIOUS
  <2>2. QED
    BY <1>9, <2>1
<1> DEFINE D == {i \in Nat : i <= m => all[i] \in S}
<1>12. 0 \in D
  BY <1>3, <1>11
<1>13. ASSUME NEW i \in Nat, i \in D PROVE i + 1 \in D
  <2> SUFFICES ASSUME i + 1 <= m PROVE all[i + 1] \in S
    OBVIOUS
  <2>1. all[i] \in S /\ i + 1 \in 1 .. m /\ (i + 1) - 1 = i
    BY <1>13
  <2>2. all[i + 1] = SizeParsed(all[i], c)
    BY <1>11, <2>1
  <2>3. QED
    BY <1>1, <2>1, <2>2
<1> HIDE DEF D
<1>14. \A i \in Nat : i \in D
  BY <1>12, <1>13, Inducts
<1>15. \A i \in 0 .. m : all[i] \in S
  BY <1>14 DEF D
<1>16. all \in [0 .. m -> S]
  BY <1>9, <1>15
<1>17. QED
  BY <1>10, <1>11, <1>16 DEF SizesParsed, S

(* Frames of several sizes, the same from packets that start alike.        *)
LEMMA DifferentStep ==
  ASSUME PacketAssumption, NEW c \in Cells, NEW x \in Parses(Len(c)), NEW n \in Nat, n >= 1,
         NEW y, y = Different(x, c, n)
  PROVE  /\ y \in Through(Len(c))
         /\ y.ok => /\ x.ok /\ x.at <= y.at
                    /\ \A d \in Cells : Len(d) = Len(c) /\ Same(c, d, y.at) => Different(x, d, n) = y
<1> DEFINE m == n - 1
           L == Len(c)
<1>1. m \in Nat /\ n = m + 1 /\ L \in Nat
  BY CellsAre
<1> HIDE DEF m
<1>2. PICK f : SizesParsed(f, x, c, m) /\ Different(x, c, n) = Rest(f[m])
  BY <1>1, DifferentIs
<1>3. f \in [0 .. m -> Parses(L)] /\ f[0] = x /\ \A i \in 1 .. m : f[i] = SizeParsed(f[i - 1], c)
  BY <1>2 DEF SizesParsed
<1> DEFINE D == {i \in Nat : i <= m /\ f[i].ok =>
                    /\ x.ok /\ x.at <= f[i].at
                    /\ \A d \in Cells : \A g :
                           Len(d) = L /\ Same(c, d, f[i].at) /\ SizesParsed(g, x, d, m) => g[i] = f[i]}
<1>4. 0 \in D
  <2>1. x.ok => x.at <= x.at
    BY <1>1, ParsesAre
  <2>2. \A d, g : SizesParsed(g, x, d, m) => g[0] = x
    BY DEF SizesParsed
  <2> SUFFICES ASSUME f[0].ok
               PROVE  /\ x.ok /\ x.at <= f[0].at
                      /\ \A d \in Cells : \A g :
                             Len(d) = L /\ Same(c, d, f[0].at) /\ SizesParsed(g, x, d, m) => g[0] = f[0]
    OBVIOUS
  <2>3. x.ok /\ x.at <= f[0].at
    BY <1>3, <2>1
  <2>4. \A d \in Cells : \A g :
            Len(d) = L /\ Same(c, d, f[0].at) /\ SizesParsed(g, x, d, m) => g[0] = f[0]
    BY <1>3, <2>2
  <2>5. QED
    BY <2>3, <2>4
<1>5. ASSUME NEW i \in Nat, i \in D PROVE i + 1 \in D
  <2> SUFFICES ASSUME i + 1 <= m, f[i + 1].ok
               PROVE  /\ x.ok /\ x.at <= f[i + 1].at
                      /\ \A d \in Cells : \A g :
                             Len(d) = L /\ Same(c, d, f[i + 1].at) /\ SizesParsed(g, x, d, m) => g[i + 1] = f[i + 1]
    OBVIOUS
  <2>1. i + 1 \in 1 .. m /\ (i + 1) - 1 = i /\ i \in 0 .. m /\ i + 1 \in 0 .. m
    BY <1>1
  <2>2. f[i + 1] = SizeParsed(f[i], c) /\ f[i] \in Parses(L) /\ f[i + 1] \in Parses(L)
    BY <1>3, <2>1
  <2>3. /\ f[i].ok /\ f[i].at <= f[i + 1].at
        /\ \A d \in Cells : Len(d) = L /\ Same(c, d, f[i + 1].at) => SizeParsed(f[i], d) = f[i + 1]
    BY <2>2, SizeStep
  <2>4. f[i].at \in Nat /\ f[i + 1].at \in Nat
    BY <1>1, <2>2, <2>3, ParsesAre
  <2>5. /\ x.ok /\ x.at <= f[i].at
        /\ \A d \in Cells : \A g :
               Len(d) = L /\ Same(c, d, f[i].at) /\ SizesParsed(g, x, d, m) => g[i] = f[i]
    BY <1>5, <2>1, <2>3
  <2>6. x.at \in Nat
    BY <1>1, <2>5, ParsesAre
  <2>7. ASSUME NEW d \in Cells, NEW g, Len(d) = L, Same(c, d, f[i + 1].at), SizesParsed(g, x, d, m)
        PROVE  g[i + 1] = f[i + 1]
    <3>1. Same(c, d, f[i].at)
      BY <2>3, <2>4, <2>7 DEF Same
    <3>2. g[i] = f[i]
      BY <2>5, <2>7, <3>1
    <3>3. g[i + 1] = SizeParsed(g[i], d)
      BY <2>1, <2>7 DEF SizesParsed
    <3>4. QED
      BY <2>3, <2>7, <3>2, <3>3
  <2>8. x.ok /\ x.at <= f[i + 1].at
    BY <2>3, <2>4, <2>5, <2>6
  <2>9. \A d \in Cells : \A g :
            Len(d) = L /\ Same(c, d, f[i + 1].at) /\ SizesParsed(g, x, d, m) => g[i + 1] = f[i + 1]
    BY <2>7
  <2>10. QED
    BY <2>8, <2>9
<1> HIDE DEF D
<1>6. m \in D
  BY <1>1, <1>4, <1>5, Inducts
<1>7. f[m] \in Parses(L) /\ y = Rest(f[m])
  BY <1>1, <1>2, <1>3
<1>8. y \in Through(L) /\ (y.ok => f[m].ok /\ y.at = f[m].at)
  BY <1>1, <1>7, RestStep
<1>9. ASSUME y.ok, NEW d \in Cells, Len(d) = L, Same(c, d, y.at) PROVE Different(x, d, n) = y
  <2>1. PICK g : SizesParsed(g, x, d, m) /\ Different(x, d, n) = Rest(g[m])
    <3>1. x \in Parses(Len(d))
      BY <1>9
    <3>2. QED
      BY <1>1, <3>1, DifferentIs
  <2>2. g[m] = f[m]
    BY <1>1, <1>6, <1>8, <1>9, <2>1 DEF D
  <2>3. QED
    BY <1>7, <2>1, <2>2
<1>10. y.ok => x.ok /\ x.at <= y.at
  BY <1>1, <1>6, <1>8 DEF D
<1>11. QED
  BY <1>8, <1>9, <1>10 DEF L

(* The parse of a packet with a cell of the number of its frames.          *)
LEMMA OneIs ==
  ASSUME NEW c \in Cells, c # <<>>
  PROVE  [Parse(c) EXCEPT !.at = 1, !.len = @ - 1] = Parsed(1, Len(c) - 1, <<>>)
<1> DEFINE L == Len(c)
           z == [Parse(c) EXCEPT !.at = 1, !.len = @ - 1]
<1>1. DOMAIN z = {"ok", "at", "len", "sizes"} /\ z.ok = TRUE /\ z.at = 1 /\ z.len = L - 1 /\ z.sizes = <<>>
  BY DEF Parse
<1>2. z = [d \in DOMAIN z |-> z[d]]
  OBVIOUS
<1> HIDE DEF z
<1>3. z = Parsed(1, L - 1, <<>>)
  BY <1>1, <1>2 DEF Parsed
<1>4. QED
  BY <1>3 DEF z

(* The frames of a packet of code 3, likewise.                             *)
LEMMA SeveralStep ==
  ASSUME PacketAssumption, NEW toc, NEW c \in Cells, c # <<>>, NEW y, y = Several(toc, c)
  PROVE  /\ y \in Through(Len(c))
         /\ y.ok => \A d \in Cells : Len(d) = Len(c) /\ Same(c, d, y.at) => Several(toc, d) = y
<1> DEFINE L == Len(c)
           ch == c[1]
           count == ch % (Word \div 4)
           one == Parsed(1, L - 1, <<>>)
           X(e) == IF (ch \div (Word \div 4)) % 2 = 1 THEN PaddingParsed(one, e) ELSE one
           refused == count = 0 \/ opus_packet_get_samples_per_frame(toc) * count > MaxTime
           Tallied(e) == IF ch >= Word \div 2 THEN Different(X(e), e, count) ELSE Equal(X(e), count)
<1>1. Word \in Nat /\ Word >= 8 /\ L \in Nat /\ \A i \in 1 .. L : c[i] \in 0 .. Word - 1
  BY CellsAre
<1>2. L >= 1
  BY <1>1 DEF Cells
<1>3. ch \in Nat /\ Word \div 4 \in Nat /\ Word \div 4 > 0 /\ count \in Nat
  <2>1. 1 \in 1 .. L
    BY <1>1, <1>2
  <2>2. ch \in Nat /\ Word \div 4 \in Nat /\ Word \div 4 > 0
    BY <1>1, <2>1
  <2> DEFINE w == Word \div 4
  <2> HIDE DEF w, ch
  <2>3. ch % w \in 0 .. w - 1
    BY <2>2, Shared DEF w
  <2>4. ch % w \in Nat
    BY <2>2, <2>3 DEF w
  <2>5. QED
    BY <2>2, <2>4 DEF w
<1>4. one \in Good(L) /\ one.ok = TRUE /\ one.at = 1
  <2>1. L - 1 \in Int /\ 1 + (L - 1) <= L /\ <<>> \in Seq(Nat)
    BY <1>1
  <2>2. one \in Good(L)
    BY <1>1, <2>1, PartsGood
  <2>3. QED
    BY <2>2 DEF Parsed
<1>5. ASSUME NEW e \in Cells, Len(e) = L, e[1] = ch
      PROVE  Several(toc, e) = IF refused THEN Invalid
                               ELSE IF ~X(e).ok \/ X(e).len < 0 THEN Invalid ELSE Tallied(e)
  <2>1. e # <<>>
    BY <1>2, <1>5
  <2>2. [Parse(e) EXCEPT !.at = 1, !.len = @ - 1] = one
    BY <1>5, <2>1, OneIs
  <2> HIDE DEF one, L
  <2>3. QED
    BY <1>5, <2>2 DEF Several
<1> HIDE DEF one, refused, count
<1>6. /\ X(c) \in Parses(L)
      /\ X(c).ok => /\ 1 <= X(c).at
                    /\ \A d \in Cells : Len(d) = L /\ Same(c, d, X(c).at) => X(d) = X(c)
  <2>1. CASE (ch \div (Word \div 4)) % 2 = 1
    <3>1. \A e : X(e) = PaddingParsed(one, e)
      BY <2>1
    <3> HIDE DEF X
    <3>2. /\ X(c) \in Parses(L)
          /\ X(c).ok => /\ one.at <= X(c).at
                        /\ \A d \in Cells : Len(d) = L /\ Same(c, d, X(c).at) => PaddingParsed(one, d) = X(c)
      BY <1>4, <3>1, PaddingStep
    <3>3. QED
      BY <1>4, <3>1, <3>2
  <2>2. CASE ~((ch \div (Word \div 4)) % 2 = 1)
    <3>1. \A e : X(e) = one
      BY <2>2
    <3> HIDE DEF X
    <3>2. QED
      BY <1>4, <3>1 DEF Parses
  <2>3. QED
    BY <2>1, <2>2
<1>7. y = IF refused THEN Invalid ELSE IF ~X(c).ok \/ X(c).len < 0 THEN Invalid ELSE Tallied(c)
  BY <1>5
<1>8. CASE refused \/ ~X(c).ok \/ X(c).len < 0
  <2>1. y = Invalid
    BY <1>7, <1>8
  <2>2. QED
    BY <2>1 DEF Through, Invalid
<1>9. CASE ~(refused \/ ~X(c).ok \/ X(c).len < 0)
  <2>1. y = Tallied(c) /\ X(c).ok /\ count >= 1
    BY <1>3, <1>7, <1>9 DEF refused
  <2>2. X(c) \in Good(L) /\ X(c).at \in Nat /\ X(c).len \in Int
    BY <1>1, <1>6, <2>1, ParsesAre
  <2>3. X(c).len >= 0
    BY <1>9, <2>2
  <2>4. /\ y \in Through(L)
        /\ y.ok => /\ X(c).at <= y.at
                   /\ \A d \in Cells : Len(d) = L /\ Same(c, d, y.at) /\ X(d) = X(c) => Tallied(d) = y
    <3>1. CASE ch >= Word \div 2
      <4>1. \A e : Tallied(e) = Different(X(e), e, count)
        BY <3>1
      <4> HIDE DEF X, Tallied
      <4>2. y = Different(X(c), c, count)
        BY <2>1, <4>1
      <4>3. /\ y \in Through(L)
            /\ y.ok => /\ X(c).at <= y.at
                       /\ \A d \in Cells : Len(d) = L /\ Same(c, d, y.at) => Different(X(c), d, count) = y
        BY <1>3, <1>6, <2>1, <4>2, DifferentStep
      <4>4. QED
        BY <4>1, <4>3
    <3>2. CASE ~(ch >= Word \div 2)
      <4>1. \A e : Tallied(e) = Equal(X(e), count)
        BY <3>2
      <4> HIDE DEF X, Tallied
      <4>2. y = Equal(X(c), count)
        BY <2>1, <4>1
      <4>3. y \in Through(L) /\ (y.ok => y.at = X(c).at)
        BY <1>1, <1>3, <2>1, <2>2, <2>3, <4>2, EqualStep
      <4>4. \A d : X(d) = X(c) => Tallied(d) = y
        BY <4>1, <4>2
      <4>5. y.ok => X(c).at <= y.at
        BY <2>2, <4>3
      <4>6. QED
        BY <4>3, <4>4, <4>5
    <3>3. QED
      BY <3>1, <3>2
  <2>5. ASSUME y.ok, NEW d \in Cells, Len(d) = L, Same(c, d, y.at) PROVE Several(toc, d) = y
    <3>1. y.at \in Nat /\ X(c).at <= y.at
      <4>1. y \in Parses(L)
        BY <2>4 DEF Through, Parses
      <4>2. QED
        BY <1>1, <2>4, <2>5, <4>1, ParsesAre
    <3>2. Same(c, d, X(c).at)
      BY <2>2, <2>5, <3>1 DEF Same
    <3>3. X(d) = X(c)
      BY <1>6, <2>1, <2>5, <3>2
    <3>4. d[1] = ch
      <4>1. 1 \in 1 .. X(c).at
        BY <1>6, <2>1, <2>2
      <4>2. QED
        BY <3>2, <4>1 DEF Same
    <3>5. Tallied(d) = y
      BY <2>4, <2>5, <3>3
    <3> HIDE DEF X, Tallied
    <3>6. QED
      BY <1>5, <1>9, <2>5, <3>3, <3>4, <3>5
  <2>6. QED
    BY <2>4, <2>5 DEF L
<1>10. QED
  BY <1>8, <1>9

(* The header alone, with the length, is parsed as the packet is.          *)
LEMMA ParseStep ==
  ASSUME PacketAssumption, NEW p \in [toc : 0 .. 255, cells : Cells], NEW x, x = opus_packet_parse(p)
  PROVE  /\ x \in Through(Len(p.cells))
         /\ x.ok => \A d \in Cells : Len(d) = Len(p.cells) /\ Same(p.cells, d, x.at) =>
                      opus_packet_parse([toc |-> p.toc, cells |-> d]) = x
<1> DEFINE c == p.cells
           L == Len(c)
           As(d) == [toc |-> p.toc, cells |-> d]
<1>1. c \in Cells /\ L \in Nat
  BY CellsAre
<1>2. \A d : As(d).toc = p.toc /\ As(d).cells = d
  OBVIOUS
<1>3. \A d \in Cells : Len(d) = L => Parse(d) = Parse(c)
  BY DEF Parse
<1>4. Parse(c) \in Good(L) /\ Parse(c).at = 0 /\ Parse(c).len = L
  <2>1. Parse(c) = Parsed(0, L, <<>>)
    BY DEF Parse, Parsed
  <2>2. Parsed(0, L, <<>>) \in Good(L)
    <3>1. 0 \in Nat /\ L \in Int /\ <<>> \in Seq(Nat) /\ 0 + L <= L
      BY <1>1
    <3>2. QED
      BY <1>1, <3>1, PartsGood
  <2>3. QED
    BY <2>1, <2>2 DEF Parsed
<1>5. Parse(c) \in Parses(L)
  BY <1>4 DEF Parses
<1> HIDE DEF As, L
<1>6. CASE p.toc % 4 = 0
  <2>1. \A q : q.toc = p.toc => opus_packet_parse(q) = Rest(Parse(q.cells))
    BY <1>6 DEF opus_packet_parse
  <2>2. x = Rest(Parse(c))
    BY <2>1
  <2>3. x \in Through(L)
    BY <1>1, <1>5, <2>2, RestStep
  <2>4. QED
    BY <1>2, <1>3, <2>1, <2>2, <2>3 DEF As, L
<1>7. CASE p.toc % 4 = 1
  <2>1. \A q : q.toc = p.toc => opus_packet_parse(q) = Equal(Parse(q.cells), 2)
    BY <1>7 DEF opus_packet_parse
  <2>2. x = Equal(Parse(c), 2)
    BY <2>1
  <2>3. x \in Through(L)
    <3>1. Parse(c).len >= 0 /\ 2 \in Nat /\ 2 >= 1
      BY <1>1, <1>4
    <3>2. QED
      BY <1>1, <1>4, <2>2, <3>1, EqualStep
  <2>4. QED
    BY <1>2, <1>3, <2>1, <2>2, <2>3 DEF As, L
<1>8. CASE p.toc % 4 = 2
  <2>1. \A q : q.toc = p.toc => opus_packet_parse(q) = Different(Parse(q.cells), q.cells, 2)
    BY <1>8 DEF opus_packet_parse
  <2>2. x = Different(Parse(c), c, 2)
    BY <2>1
  <2>3. /\ x \in Through(L)
        /\ x.ok => \A d \in Cells : Len(d) = L /\ Same(c, d, x.at) => Different(Parse(c), d, 2) = x
    <3>1. Parse(c) \in Parses(Len(c)) /\ 2 \in Nat /\ 2 >= 1
      BY <1>5 DEF L
    <3>2. QED
      BY <1>1, <2>2, <3>1, DifferentStep DEF L
  <2>4. QED
    BY <1>2, <1>3, <2>1, <2>3 DEF As, L
<1>9. CASE ~(p.toc % 4 = 0) /\ ~(p.toc % 4 = 1) /\ ~(p.toc % 4 = 2)
  <2>1. \A q : q.toc = p.toc =>
          opus_packet_parse(q) = IF q.cells = <<>> THEN Invalid ELSE Several(q.toc, q.cells)
    BY <1>9 DEF opus_packet_parse
  <2>2. CASE c = <<>>
    <3>1. x = Invalid
      BY <2>1, <2>2
    <3>2. QED
      BY <3>1 DEF Through, Invalid
  <2>3. CASE c # <<>>
    <3>1. x = Several(p.toc, c)
      BY <2>1, <2>3
    <3>2. /\ x \in Through(L)
          /\ x.ok => \A d \in Cells : Len(d) = L /\ Same(c, d, x.at) => Several(p.toc, d) = x
      BY <1>1, <2>3, <3>1, SeveralStep DEF L
    <3>3. \A d \in Cells : Len(d) = L => d # <<>>
      BY <1>1, <2>3 DEF L, Cells
    <3>4. QED
      BY <1>2, <2>1, <3>2, <3>3 DEF As, L
  <2>4. QED
    BY <2>2, <2>3
<1>10. QED
  BY <1>6, <1>7, <1>8, <1>9

-----------------------------------------------------------------------------
(* Where the frames of a packet are: each begins where the one before it   *)
(* ends, and all end within the packet.                                    *)
LEMMA SumsGrow ==
  ASSUME NEW s \in Seq(Nat), NEW f, SumsTo(f, s), NEW i \in 0 .. Len(s), NEW j \in 0 .. Len(s), i <= j
  PROVE  f[i] \in Nat /\ f[j] \in Nat /\ f[i] <= f[j]
<1>1. f \in [0 .. Len(s) -> Nat] /\ Len(s) \in Nat
  BY DEF SumsTo
<1> DEFINE D == {k \in Nat : i + k <= Len(s) => f[i] <= f[i + k]}
<1>2. 0 \in D
  BY <1>1
<1>3. ASSUME NEW k \in Nat, k \in D PROVE k + 1 \in D
  <2> SUFFICES ASSUME i + (k + 1) <= Len(s) PROVE f[i] <= f[i + (k + 1)]
    OBVIOUS
  <2>1. f[i] <= f[i + k] /\ i + k \in 0 .. Len(s) /\ i + (k + 1) \in 1 .. Len(s)
    BY <1>1, <1>3
  <2>2. (i + (k + 1)) - 1 = i + k
    OBVIOUS
  <2>3. f[i + (k + 1)] = f[i + k] + s[i + (k + 1)] /\ s[i + (k + 1)] \in Nat
    BY <2>1, <2>2 DEF SumsTo
  <2>4. f[i] \in Nat /\ f[i + k] \in Nat
    BY <1>1, <2>1
  <2>5. QED
    BY <2>1, <2>3, <2>4
<1> HIDE DEF D
<1>4. j - i \in D
  <2>1. j - i \in Nat
    BY <1>1
  <2>2. QED
    BY <1>2, <1>3, <2>1, Inducts
<1>5. i + (j - i) = j
  BY <1>1
<1>6. QED
  BY <1>1, <1>4, <1>5 DEF D

(* Where frames start, as sums of sizes.                                   *)
LEMMA Starts ==
  ASSUME NEW L \in Nat, NEW x \in Through(L), x.ok
  PROVE  \E f : /\ SumsTo(f, x.sizes) /\ x.at \in Nat /\ x.sizes \in Seq(Nat) /\ Len(x.sizes) \in Nat
                /\ x.at + f[Len(x.sizes)] <= L
                /\ \A i \in 1 .. Len(x.sizes) + 1 : Start(x, i) = x.at + f[i - 1]
<1>1. x \in Good(L) /\ x.at + SumOf(x.sizes) <= L
  <2>1. x # Invalid
    BY DEF Invalid
  <2>2. QED
    BY <2>1 DEF Through
<1>2. x.at \in Nat /\ x.sizes \in Seq(Nat)
  BY <1>1 DEF Good
<1>3. PICK f : SumsTo(f, x.sizes) /\ SumOf(x.sizes) = f[Len(x.sizes)]
  BY <1>2, SumIs
<1>4. ASSUME NEW i \in 1 .. Len(x.sizes) + 1 PROVE Start(x, i) = x.at + f[i - 1]
  <2>1. i - 1 \in 0 .. Len(x.sizes)
    BY <1>2
  <2>2. SumOf(SubSeq(x.sizes, 1, i - 1)) = f[i - 1]
    BY <1>2, <1>3, <2>1, SumOfFirst
  <2>3. QED
    BY <2>2 DEF Start
<1>5. QED
  BY <1>1, <1>2, <1>3, <1>4

(* The packet with its header and its padding, and frames up to one.       *)
Upto(c, x, k) ==
  [i \in 1 .. Len(c) |->
     IF i <= x.at \/ i > Start(x, Len(x.sizes) + 1) \/ i <= Start(x, k + 1) THEN c[i] ELSE 0]

(* Cells cut from a packet.                                                *)
LEMMA CutIs ==
  ASSUME NEW c \in Cells, NEW from \in Nat, NEW n \in Nat, from + n <= Len(c)
  PROVE  /\ Cut(c, from, n) \in Cells /\ Len(Cut(c, from, n)) = n
         /\ \A i \in 1 .. n : Cut(c, from, n)[i] = c[from + i]
<1> DEFINE S == 0 .. Word - 1
<1>1. c \in Seq(S)
  BY DEF Cells
<1> HIDE DEF S
<1>2. Cut(c, from, n) \in Seq(S) /\ Len(Cut(c, from, n)) = n
  BY <1>1 DEF Cut
<1>3. \A i \in 1 .. n : Cut(c, from, n)[i] = c[from + i]
  BY <1>1 DEF Cut
<1>4. QED
  BY <1>2, <1>3 DEF Cells, S

(* The frames are the packet from their starts on.                         *)
LEMMA FramesAre ==
  ASSUME NEW p \in [toc : 0 .. 255, cells : Cells], NEW x \in Through(Len(p.cells)), x.ok
  PROVE  /\ Len(FramesOf(p, x)) = Len(x.sizes)
         /\ \A i \in 1 .. Len(x.sizes) :
              /\ FramesOf(p, x)[i].as = Told(p.toc)
              /\ Len(FramesOf(p, x)[i].cells) = x.sizes[i]
              /\ \A j \in 1 .. x.sizes[i] : FramesOf(p, x)[i].cells[j] = p.cells[Start(x, i) + j]
<1> DEFINE n == Len(x.sizes)
           L == Len(p.cells)
           c == p.cells
<1>1. c \in Cells /\ L \in Nat
  BY DEF Cells
<1>2. PICK f : /\ SumsTo(f, x.sizes) /\ x.at \in Nat /\ x.sizes \in Seq(Nat) /\ n \in Nat
               /\ x.at + f[n] <= L
               /\ \A i \in 1 .. n + 1 : Start(x, i) = x.at + f[i - 1]
  BY <1>1, Starts
<1>3. DOMAIN x.sizes = 1 .. n
  BY <1>2
<1>4. FramesOf(p, x) = [i \in 1 .. n |-> [as |-> Told(p.toc), cells |-> Cut(c, Start(x, i), x.sizes[i])]]
  BY <1>3 DEF FramesOf
<1>5. Len(FramesOf(p, x)) = n
  BY <1>2, <1>4
<1>6. ASSUME NEW i \in 1 .. n
      PROVE  /\ FramesOf(p, x)[i].as = Told(p.toc)
             /\ Len(FramesOf(p, x)[i].cells) = x.sizes[i]
             /\ \A j \in 1 .. x.sizes[i] : FramesOf(p, x)[i].cells[j] = c[Start(x, i) + j]
  <2>1. i - 1 \in 0 .. n /\ i \in 0 .. n /\ n \in 0 .. n /\ i \in 1 .. n + 1
    BY <1>2
  <2>2. f[i - 1] \in Nat /\ f[i] \in Nat /\ f[n] \in Nat /\ f[i] <= f[n]
    BY <1>2, <2>1, SumsGrow
  <2>3. f[i] = f[i - 1] + x.sizes[i] /\ x.sizes[i] \in Nat
    BY <1>2 DEF SumsTo
  <2>4. Start(x, i) = x.at + f[i - 1]
    BY <1>2, <2>1
  <2>5. Start(x, i) \in Nat /\ Start(x, i) + x.sizes[i] <= L
    <3> DEFINE a == f[i - 1]
               b == f[i]
               e == f[n]
               m == x.sizes[i]
               at == x.at
    <3>1. a \in Nat /\ b \in Nat /\ e \in Nat /\ b <= e /\ b = a + m /\ m \in Nat /\ at \in Nat /\ at + e <= L
      BY <1>2, <2>2, <2>3
    <3> HIDE DEF a, b, e, m, at, L
    <3>2. at + a \in Nat /\ (at + a) + m <= L
      BY <1>1, <3>1
    <3>3. QED
      BY <2>4, <3>2 DEF at, a, m
  <2> DEFINE s == Start(x, i)
             m == x.sizes[i]
  <2>6. FramesOf(p, x)[i] = [as |-> Told(p.toc), cells |-> Cut(c, s, m)]
    BY <1>4
  <2>7. Len(Cut(c, s, m)) = m /\ \A j \in 1 .. m : Cut(c, s, m)[j] = c[s + j]
    <3> HIDE DEF s, m
    <3>1. s \in Nat /\ m \in Nat /\ s + m <= Len(c)
      BY <2>3, <2>5 DEF s, m
    <3>2. QED
      BY <1>1, <3>1, CutIs
  <2> HIDE DEF s, m
  <2>8. QED
    BY <2>6, <2>7 DEF s, m
<1>7. QED
  BY <1>5, <1>6

(* Frames laid where they were cut give the packet.                        *)
LEMMA FramesFill ==
  ASSUME NEW p \in [toc : 0 .. 255, cells : Cells], NEW x \in Through(Len(p.cells)), x.ok
  PROVE  FramesLaid(Upto(p.cells, x, 0), x, FramesOf(p, x)) = p.cells
<1> DEFINE n == Len(x.sizes)
           L == Len(p.cells)
           c == p.cells
           new(i) == FramesOf(p, x)[i].cells
           z == Upto(c, x, 0)
           Is(g) == g = [i \in 0 .. n |-> IF i = 0 THEN z ELSE Laid(g[i - 1], Start(x, i), new(i))]
           h == [k \in 0 .. n |-> Upto(c, x, k)]
           laid == CHOOSE g : Is(g)
<1>1. c \in Cells /\ L \in Nat /\ c = [i \in 1 .. L |-> c[i]]
  BY DEF Cells
<1>2. PICK f : /\ SumsTo(f, x.sizes) /\ x.at \in Nat /\ x.sizes \in Seq(Nat) /\ n \in Nat
               /\ x.at + f[n] <= L
               /\ \A i \in 1 .. n + 1 : Start(x, i) = x.at + f[i - 1]
  BY <1>1, Starts
<1>3. \A i \in 1 .. n : Len(new(i)) = x.sizes[i] /\ \A j \in 1 .. x.sizes[i] : new(i)[j] = c[Start(x, i) + j]
  BY FramesAre
<1>4. FramesLaid(z, x, FramesOf(p, x)) = laid[n]
  BY DEF FramesLaid
<1> HIDE DEF new, z, L
<1>5. ASSUME NEW k \in 1 .. n PROVE Laid(Upto(c, x, k - 1), Start(x, k), new(k)) = Upto(c, x, k)
  <2>1. k - 1 \in 0 .. n /\ k \in 0 .. n /\ n \in 0 .. n /\ k \in 1 .. n + 1 /\ k + 1 \in 1 .. n + 1
        /\ n + 1 \in 1 .. n + 1
    BY <1>2
  <2>2. f[k - 1] \in Nat /\ f[k] \in Nat /\ f[n] \in Nat /\ f[k] <= f[n]
    BY <1>2, <2>1, SumsGrow
  <2>3. f[k] = f[k - 1] + x.sizes[k] /\ x.sizes[k] \in Nat
    <3>1. f[k] = f[k - 1] + x.sizes[k]
      BY <1>2 DEF SumsTo
    <3>2. x.sizes[k] \in Nat
      BY <1>2
    <3>3. QED
      BY <3>1, <3>2
  <2>4. Start(x, k) = x.at + f[k - 1] /\ Start(x, k + 1) = x.at + f[k] /\ Start(x, n + 1) = x.at + f[n]
    <3>1. (k + 1) - 1 = k /\ (n + 1) - 1 = n
      BY <1>2
    <3>2. QED
      BY <1>2, <2>1, <3>1
  <2> DEFINE u == Upto(c, x, k - 1)
             from == Start(x, k)
             m == x.sizes[k]
             v == Laid(u, from, new(k))
             w == Upto(c, x, k)
  <2>5. (k - 1) + 1 = k
    BY <1>2
  <2>6. /\ DOMAIN u = 1 .. L /\ DOMAIN w = 1 .. L /\ w = [i \in DOMAIN w |-> w[i]]
        /\ \A i \in 1 .. L :
             /\ u[i] = IF i <= x.at \/ i > x.at + f[n] \/ i <= x.at + f[k - 1] THEN c[i] ELSE 0
             /\ w[i] = IF i <= x.at \/ i > x.at + f[n] \/ i <= x.at + f[k] THEN c[i] ELSE 0
    BY <2>4, <2>5 DEF Upto, L
  <2> HIDE DEF u, w
  <2>7. Len(new(k)) = m /\ \A j \in 1 .. m : new(k)[j] = c[from + j]
    BY <1>3
  <2>8. from = x.at + f[k - 1] /\ x.at + f[k] = from + m /\ m \in Nat /\ from \in Nat
    <3> DEFINE a == f[k - 1]
               b == f[k]
               at == x.at
    <3>1. a \in Nat /\ b \in Nat /\ b = a + m /\ m \in Nat /\ at \in Nat /\ from = at + a
      BY <1>2, <2>2, <2>3, <2>4
    <3> HIDE DEF a, b, at, from, m
    <3>2. at + b = from + m /\ from \in Nat
      BY <3>1
    <3>3. QED
      BY <3>1, <3>2 DEF at, a, b
  <2> HIDE DEF from, m
  <2>9. v = [i \in 1 .. L |-> IF i \in from + 1 .. from + m THEN new(k)[i - from] ELSE u[i]]
    BY <2>6, <2>7 DEF Laid
  <2>10. ASSUME NEW i \in 1 .. L PROVE v[i] = w[i]
    <3>1. CASE i \in from + 1 .. from + m
      <4>1. i - from \in 1 .. m /\ from + (i - from) = i
        BY <2>8, <3>1
      <4>2. v[i] = c[i]
        BY <2>7, <2>9, <3>1, <4>1
      <4>3. i <= x.at + f[k]
        BY <2>8, <3>1
      <4>4. QED
        BY <2>6, <4>2, <4>3
    <3>2. CASE ~(i \in from + 1 .. from + m)
      <4>1. v[i] = u[i]
        BY <2>9, <3>2
      <4>2. i <= from \/ i > from + m
        BY <1>1, <2>8, <3>2
      <4>3. i <= x.at + f[k - 1] <=> i <= from
        BY <2>8
      <4>4. i <= x.at + f[k] <=> i <= from + m
        BY <2>8
      <4>5. i <= from => i <= from + m
        BY <1>1, <2>8
      <4>6. i > from + m => ~(i <= from + m)
        BY <1>1, <2>8
      <4>7. QED
        BY <2>6, <4>1, <4>2, <4>3, <4>4, <4>5, <4>6
    <3>3. QED
      BY <3>1, <3>2
  <2>11. DOMAIN v = 1 .. L /\ v = [i \in DOMAIN v |-> v[i]]
    BY <2>9
  <2> HIDE DEF v
  <2>12. v = w
    BY <2>6, <2>10, <2>11
  <2>13. QED
    BY <2>12 DEF u, v, w, from
<1>6. Is(h)
  <2>1. h[0] = z
    BY <1>2 DEF z
  <2>2. ASSUME NEW i \in 1 .. n PROVE h[i] = Laid(h[i - 1], Start(x, i), new(i))
    <3>1. i - 1 \in 0 .. n /\ i \in 0 .. n
      BY <1>2
    <3>2. h[i - 1] = Upto(c, x, i - 1) /\ h[i] = Upto(c, x, i)
      BY <3>1
    <3>3. QED
      BY <1>5, <3>2
  <2>3. h = [i \in 0 .. n |-> h[i]]
    OBVIOUS
  <2> HIDE DEF h
  <2>4. \A i \in 0 .. n : h[i] = IF i = 0 THEN z ELSE Laid(h[i - 1], Start(x, i), new(i))
    BY <1>2, <2>1, <2>2
  <2>5. QED
    BY <2>3, <2>4
<1>7. Is(laid)
  <2> HIDE DEF Is
  <2>1. QED
    BY <1>6
<1>8. laid[0] = z /\ \A i \in 1 .. n : laid[i] = Laid(laid[i - 1], Start(x, i), new(i))
  <2> HIDE DEF laid
  <2>1. laid = [i \in 0 .. n |-> IF i = 0 THEN z ELSE Laid(laid[i - 1], Start(x, i), new(i))]
    BY <1>7
  <2>2. 0 \in 0 .. n /\ \A i \in 1 .. n : i \in 0 .. n /\ i # 0
    BY <1>2
  <2>3. QED
    BY <2>1, <2>2
<1> HIDE DEF laid
<1> DEFINE D == {i \in Nat : i <= n => laid[i] = Upto(c, x, i)}
<1>9. 0 \in D
  BY <1>8 DEF z
<1>10. ASSUME NEW i \in Nat, i \in D PROVE i + 1 \in D
  <2> SUFFICES ASSUME i + 1 <= n PROVE laid[i + 1] = Upto(c, x, i + 1)
    OBVIOUS
  <2>1. laid[i] = Upto(c, x, i) /\ i + 1 \in 1 .. n /\ (i + 1) - 1 = i
    BY <1>2, <1>10
  <2>2. laid[i + 1] = Laid(laid[i], Start(x, i + 1), new(i + 1))
    BY <1>8, <2>1
  <2>3. Laid(Upto(c, x, i), Start(x, i + 1), new(i + 1)) = Upto(c, x, i + 1)
    BY <1>5, <2>1
  <2>4. QED
    BY <2>1, <2>2, <2>3
<1> HIDE DEF D
<1>11. laid[n] = Upto(c, x, n)
  <2>1. n \in D
    BY <1>2, <1>9, <1>10, Inducts
  <2>2. QED
    BY <1>2, <2>1 DEF D
<1>12. Upto(c, x, n) = c
  <2>1. Start(x, n + 1) \in Int
    <3>1. n + 1 \in 1 .. n + 1 /\ (n + 1) - 1 = n /\ n \in 0 .. n
      BY <1>2
    <3>2. f[n] \in Nat
      BY <1>2, <3>1, SumsGrow
    <3>3. QED
      BY <1>2, <3>1, <3>2
  <2>2. \A i \in 1 .. L : i > Start(x, n + 1) \/ i <= Start(x, n + 1)
    BY <2>1
  <2>3. Upto(c, x, n) = [i \in 1 .. L |-> c[i]]
    BY <2>2 DEF Upto, L
  <2>4. QED
    BY <1>1, <2>3
<1>13. QED
  BY <1>4, <1>11, <1>12 DEF z

-----------------------------------------------------------------------------
(* What the packer coded of a packet, and the packet with the header and   *)
(* the padding alone.                                                      *)
Coded(p) ==
  LET x == opus_packet_parse(p)
  IN  [head |-> [toc |-> p.toc, cells |-> Cut(p.cells, 0, x.at)],
       len |-> Len(p.cells), trailer |-> oc_packet_trailer(p, x), frames |-> FramesOf(p, x)]

Bare(p) == [toc |-> p.toc, cells |-> Upto(p.cells, opus_packet_parse(p), 0)]

(* What is coded and what is built are of the one packet at every turn.    *)
FramingInv ==
  /\ whole \in Packets /\ turn \in {"pack", "unpack", "frames", "done", "refused"}
  /\ turn \in {"unpack", "frames"} =>
       /\ opus_packet_parse(whole).ok /\ Lasts(whole, opus_packet_parse(whole)) /\ archive = Coded(whole)
  /\ turn = "frames" => built = Bare(whole)
  /\ turn = "done" => built = whole

(* A packet's parse, with what the steps need to know of it.               *)
LEMMA PacketIs ==
  ASSUME PacketAssumption, whole \in Packets
  PROVE  /\ whole \in [toc : 0 .. 255, cells : Cells]
         /\ Len(whole.cells) \in Nat /\ Len(whole.cells) < MaxLength
         /\ opus_packet_parse(whole) \in Through(Len(whole.cells))
<1>1. whole \in [toc : 0 .. 255, cells : Cells] /\ Len(whole.cells) < MaxLength
  BY DEF PacketAssumption, Cells
<1>2. opus_packet_parse(whole) \in Through(Len(whole.cells))
  BY <1>1, ParseStep
<1>3. Len(whole.cells) \in Nat
  BY <1>1 DEF Cells
<1>4. QED
  BY <1>1, <1>2, <1>3

(* Packing keeps the invariant (opus_pack).                                *)
LEMMA PackKeeps ==
  ASSUME PacketAssumption, FramingInv, opus_pack_packet
  PROVE  FramingInv'
<1> DEFINE x == opus_packet_parse(whole)
<1>1. turn = "pack" /\ whole \in Packets
  BY DEF opus_pack_packet, FramingInv
<1>2. CASE ~x.ok \/ ~Lasts(whole, x)
  <2>1. turn' = "refused" /\ whole' = whole
    BY <1>2 DEF opus_pack_packet, Ends
  <2>2. QED
    BY <1>1, <2>1 DEF FramingInv
<1>3. CASE ~(~x.ok \/ ~Lasts(whole, x))
  <2>1. archive' = Coded(whole) /\ turn' = "unpack" /\ whole' = whole
    BY <1>3 DEF opus_pack_packet, Coded
  <2>2. QED
    BY <1>1, <1>3, <2>1 DEF FramingInv
<1>4. QED
  BY <1>2, <1>3

(* The header with nought behind it.                                       *)
Filled(head, n) == [head EXCEPT !.cells = @ \o [i \in 1 .. n - Len(@) |-> 0]]

(* It is parsed as the packet is, and with the padding laid it is the      *)
(* packet but for the frames.                                              *)
LEMMA HeaderFills ==
  ASSUME PacketAssumption, whole \in Packets, opus_packet_parse(whole).ok,
         NEW head, head = [toc |-> whole.toc, cells |-> Cut(whole.cells, 0, opus_packet_parse(whole).at)],
         NEW p, p = Filled(head, Len(whole.cells))
  PROVE  LET x == opus_packet_parse(whole) IN
         /\ opus_packet_parse(p) = x /\ x.at = Len(head.cells)
         /\ Len(Trailer(p, x)) = Len(oc_packet_trailer(whole, x))
         /\ [p EXCEPT !.cells = Laid(@, Start(x, Len(x.sizes) + 1), oc_packet_trailer(whole, x))] = Bare(whole)
<1> DEFINE x == opus_packet_parse(whole)
           c == whole.cells
           L == Len(whole.cells)
           n == Len(x.sizes)
           h == Cut(c, 0, x.at)
           nil == [i \in 1 .. L - Len(h) |-> 0]
           d == h \o nil
           from == Start(x, n + 1)
<1>1. /\ whole \in [toc : 0 .. 255, cells : Cells] /\ c \in Cells /\ L \in Nat
      /\ x \in Through(L) /\ Word \in Nat /\ Word >= 8
  BY PacketIs DEF PacketAssumption
<1>2. PICK f : /\ SumsTo(f, x.sizes) /\ x.at \in Nat /\ x.sizes \in Seq(Nat) /\ n \in Nat
               /\ x.at + f[n] <= L
               /\ \A i \in 1 .. n + 1 : Start(x, i) = x.at + f[i - 1]
  BY <1>1, Starts
<1>3. from \in Nat /\ x.at <= from /\ from <= L /\ x.at <= L /\ Start(x, 0 + 1) = x.at
  <2>1. n + 1 \in 1 .. n + 1 /\ (n + 1) - 1 = n /\ n \in 0 .. n /\ 0 + 1 \in 1 .. n + 1 /\ (0 + 1) - 1 = 0
    BY <1>2
  <2>2. f[n] \in Nat /\ f[0] = 0
    BY <1>2, <2>1, SumsGrow DEF SumsTo
  <2>3. from = x.at + f[n] /\ Start(x, 0 + 1) = x.at + f[0]
    BY <1>2, <2>1
  <2>4. QED
    BY <1>1, <1>2, <2>2, <2>3
<1>4. h \in Cells /\ Len(h) = x.at /\ \A i \in 1 .. x.at : h[i] = c[i]
  <2>1. 0 \in Nat /\ 0 + x.at <= L
    BY <1>2, <1>3
  <2>2. h \in Cells /\ Len(h) = x.at /\ \A i \in 1 .. x.at : h[i] = c[0 + i]
    BY <1>1, <1>2, <2>1, CutIs
  <2>3. \A i \in 1 .. x.at : 0 + i = i
    BY <1>2
  <2>4. QED
    BY <2>2, <2>3
<1> HIDE DEF h, L, from
<1>5. /\ d \in Cells /\ Len(d) = L
      /\ \A i \in 1 .. L : d[i] = IF i <= x.at THEN c[i] ELSE 0
  <2> DEFINE S == 0 .. Word - 1
             m == L - x.at
             r == [i \in 1 .. m |-> 0]
  <2>1. m \in Nat /\ x.at + m = L
    BY <1>1, <1>2, <1>3
  <2>2. 0 \in S /\ h \in Seq(S)
    BY <1>1, <1>4 DEF Cells
  <2>3. d = h \o r
    BY <1>4
  <2> HIDE DEF S, m, d
  <2>4. r \in Seq(S) /\ Len(r) = m /\ \A i \in 1 .. m : r[i] = 0
    BY <2>1, <2>2
  <2> HIDE DEF r
  <2>5. /\ d \in Seq(S) /\ Len(d) = L
        /\ \A i \in 1 .. Len(h) + Len(r) : d[i] = IF i <= Len(h) THEN h[i] ELSE r[i - Len(h)]
    <3>1. /\ h \o r \in Seq(S) /\ Len(h \o r) = Len(h) + Len(r)
          /\ \A i \in 1 .. Len(h) + Len(r) : (h \o r)[i] = IF i <= Len(h) THEN h[i] ELSE r[i - Len(h)]
      BY <2>2, <2>4, ConcatProperties
    <3>2. Len(h) + Len(r) = L
      BY <1>4, <2>1, <2>4
    <3>3. QED
      BY <2>3, <3>1, <3>2
  <2>6. ASSUME NEW i \in 1 .. L PROVE d[i] = IF i <= x.at THEN c[i] ELSE 0
    <3>1. CASE i <= x.at
      <4>1. d[i] = h[i]
        BY <1>4, <2>1, <2>4, <2>5, <3>1
      <4>2. QED
        BY <1>2, <1>4, <3>1, <4>1
    <3>2. CASE ~(i <= x.at)
      <4>1. i - x.at \in 1 .. m
        BY <1>1, <1>2, <2>1, <3>2
      <4>2. d[i] = r[i - x.at]
        BY <1>4, <2>1, <2>4, <2>5, <3>2
      <4>3. QED
        BY <2>4, <3>2, <4>1, <4>2
    <3>3. QED
      BY <3>1, <3>2
  <2>7. QED
    BY <2>5, <2>6 DEF Cells, S
<1>6. p = [toc |-> whole.toc, cells |-> d]
  BY DEF h, L, Filled
<1> HIDE DEF nil, d
<1>7. opus_packet_parse(p) = x
  <2>1. Same(c, d, x.at)
    BY <1>1, <1>2, <1>3, <1>5 DEF Same
  <2>2. QED
    BY <1>1, <1>5, <1>6, <2>1, ParseStep DEF L
<1>8. x.at = Len(head.cells)
  BY <1>4 DEF h
<1> DEFINE m == L - from
           t == Cut(c, from, m)
<1>9. m \in Nat /\ from + m <= L /\ from + m = L
  BY <1>1, <1>3
<1>10. t \in Cells /\ Len(t) = m /\ \A i \in 1 .. m : t[i] = c[from + i]
  <2> HIDE DEF m
  <2>1. QED
    BY <1>1, <1>3, <1>9, CutIs DEF L
<1>11. oc_packet_trailer(whole, x) = t
  BY DEF oc_packet_trailer, Trailer, from, L
<1>12. Len(Trailer(p, x)) = Len(t)
  <2>1. Trailer(p, x) = Cut(d, from, m)
    BY <1>5, <1>6 DEF Trailer, from
  <2> HIDE DEF m, t
  <2>2. Len(Cut(d, from, m)) = m
    BY <1>3, <1>5, <1>9, CutIs
  <2>3. QED
    BY <1>10, <2>1, <2>2
<1>13. Laid(d, from, t) = Upto(c, x, 0)
  <2> DEFINE u == Upto(c, x, 0)
             v == Laid(d, from, t)
  <2>1. /\ u = [i \in DOMAIN u |-> u[i]] /\ DOMAIN u = 1 .. L
        /\ \A i \in 1 .. L : u[i] = IF i <= x.at \/ i > from \/ i <= x.at THEN c[i] ELSE 0
    BY <1>3 DEF Upto, L, from
  <2> HIDE DEF u, m, t
  <2>2. DOMAIN d = 1 .. L
    BY <1>5 DEF Cells
  <2>3. v = [i \in 1 .. L |-> IF i \in from + 1 .. from + m THEN t[i - from] ELSE d[i]]
    BY <1>10, <2>2 DEF Laid
  <2>4. ASSUME NEW i \in 1 .. L PROVE v[i] = u[i]
    <3>1. CASE i > from
      <4>1. i \in from + 1 .. from + m /\ i - from \in 1 .. m /\ from + (i - from) = i
        BY <1>1, <1>3, <1>9, <3>1
      <4>2. v[i] = t[i - from]
        BY <2>3, <4>1
      <4>3. t[i - from] = c[i]
        BY <1>10, <4>1
      <4>4. QED
        BY <2>1, <3>1, <4>2, <4>3
    <3>2. CASE ~(i > from)
      <4>1. ~(i \in from + 1 .. from + m)
        BY <1>3, <3>2
      <4>2. v[i] = d[i]
        BY <2>3, <4>1
      <4>3. QED
        BY <1>5, <2>1, <3>2, <4>2
    <3>3. QED
      BY <3>1, <3>2
  <2>5. DOMAIN v = 1 .. L /\ v = [i \in DOMAIN v |-> v[i]]
    BY <2>3
  <2> HIDE DEF v
  <2>6. v = u
    BY <2>1, <2>4, <2>5
  <2>7. QED
    BY <2>6 DEF u, v
<1> HIDE DEF m, t
<1>14. [p EXCEPT !.cells = Laid(@, from, t)] = Bare(whole)
  <2>1. p.cells = d /\ p.toc = whole.toc
    BY <1>6
  <2>2. [p EXCEPT !.cells = Laid(@, from, t)] = [toc |-> whole.toc, cells |-> Laid(d, from, t)]
    BY <1>6, <2>1
  <2>3. QED
    BY <1>13, <2>2 DEF Bare
<1>15. QED
  BY <1>7, <1>8, <1>11, <1>12, <1>14 DEF from

(* The packet is sized from its header (opus_unpack).                      *)
LEMMA HeaderKeeps ==
  ASSUME PacketAssumption, FramingInv, opus_unpack_header
  PROVE  FramingInv'
<1> DEFINE x == opus_packet_parse(whole)
           p == Filled(archive.head, archive.len)
           from == Start(x, Len(x.sizes) + 1)
<1>1. turn = "unpack" /\ whole \in Packets /\ x.ok /\ Lasts(whole, x) /\ archive = Coded(whole)
  BY DEF opus_unpack_header, FramingInv
<1>2. Len(whole.cells) < MaxLength /\ Len(whole.cells) \in Nat
  BY <1>1, PacketIs
<1> DEFINE head == [toc |-> whole.toc, cells |-> Cut(whole.cells, 0, x.at)]
<1>3. archive.head = head /\ archive.len = Len(whole.cells) /\ archive.trailer = oc_packet_trailer(whole, x)
  BY <1>1 DEF Coded
<1>4. p = Filled(head, Len(whole.cells))
  <2> HIDE DEF head
  <2>1. QED
    BY <1>3
<1> HIDE DEF head, p
<1>5. /\ opus_packet_parse(p) = x /\ x.at = Len(head.cells)
      /\ Len(Trailer(p, x)) = Len(oc_packet_trailer(whole, x))
      /\ [p EXCEPT !.cells = Laid(@, from, oc_packet_trailer(whole, x))] = Bare(whole)
  BY <1>1, <1>4, HeaderFills DEF head
<1>6. ~(archive.len >= MaxLength \/ ~x.ok)
  <2>1. ~(Len(whole.cells) >= MaxLength)
    <3> DEFINE n == Len(whole.cells)
    <3> HIDE DEF n
    <3>1. n \in Nat /\ n < MaxLength /\ MaxLength \in Nat
      BY <1>2 DEF n, PacketAssumption
    <3>2. QED
      BY <3>1 DEF n
  <2>2. QED
    BY <1>1, <1>3, <2>1
<1>7. ~(x.at # Len(archive.head.cells) \/ Len(Trailer(p, x)) # Len(archive.trailer))
  BY <1>3, <1>5
<1> HIDE DEF x
<1>8. /\ built' = [p EXCEPT !.cells = Laid(@, from, archive.trailer)]
      /\ turn' = "frames" /\ UNCHANGED <<whole, archive>>
  BY <1>5, <1>6, <1>7 DEF opus_unpack_header, p, Filled
<1>9. built' = Bare(whole)
  BY <1>3, <1>5, <1>8
<1>10. QED
  BY <1>1, <1>8, <1>9 DEF FramingInv, x

(* Parsed again, the packet is as it was before the frames are laid.       *)
LEMMA FramesKeep ==
  ASSUME PacketAssumption, FramingInv, opus_unpack_frames
  PROVE  FramingInv'
<1> DEFINE x == opus_packet_parse(whole)
           c == whole.cells
           L == Len(whole.cells)
           d == Upto(c, x, 0)
<1>1. /\ turn = "frames" /\ whole \in Packets /\ x.ok /\ Lasts(whole, x)
      /\ archive = Coded(whole) /\ built = Bare(whole)
  BY DEF opus_unpack_frames, FramingInv
<1>2. /\ whole \in [toc : 0 .. 255, cells : Cells] /\ c \in Cells /\ L \in Nat
      /\ x \in Through(L) /\ Word \in Nat /\ Word >= 8
  BY <1>1, PacketIs DEF PacketAssumption
<1>3. built = [toc |-> whole.toc, cells |-> d]
  BY <1>1 DEF Bare
<1>4. x.at \in Nat /\ x.at <= L /\ x.sizes \in Seq(Nat)
  <2>1. PICK f : /\ SumsTo(f, x.sizes) /\ x.at \in Nat /\ x.sizes \in Seq(Nat) /\ Len(x.sizes) \in Nat
                 /\ x.at + f[Len(x.sizes)] <= L
    BY <1>1, <1>2, Starts
  <2>2. f[Len(x.sizes)] \in Nat
    BY <2>1 DEF SumsTo
  <2>3. QED
    BY <1>2, <2>1, <2>2
<1>5. d \in Cells /\ Len(d) = L /\ Same(c, d, x.at)
  <2> DEFINE S == 0 .. Word - 1
             V(i) == IF i <= x.at \/ i > Start(x, Len(x.sizes) + 1) \/ i <= Start(x, 0 + 1) THEN c[i] ELSE 0
  <2>1. 0 \in S /\ \A i \in 1 .. L : c[i] \in S
    BY <1>1, <1>2, CellsAre
  <2> HIDE DEF S
  <2>2. \A i \in 1 .. L : V(i) \in S
    BY <2>1
  <2>3. \A i \in 1 .. L : i <= x.at => V(i) = c[i]
    OBVIOUS
  <2>4. d = [i \in 1 .. L |-> V(i)]
    BY DEF Upto
  <2> HIDE DEF V, d
  <2>5. d \in Seq(S) /\ Len(d) = L
    BY <1>2, <2>2, <2>4
  <2>6. Same(c, d, x.at)
    BY <1>2, <1>4, <2>3, <2>4 DEF Same
  <2>7. QED
    BY <2>5, <2>6 DEF Cells, S
<1> HIDE DEF d
<1>6. opus_packet_parse(built) = x
  BY <1>1, <1>2, <1>3, <1>5, ParseStep
<1>7. archive.frames = FramesOf(whole, x)
  BY <1>1 DEF Coded
<1>8. /\ Len(archive.frames) = Len(x.sizes)
      /\ \A i \in 1 .. Len(x.sizes) : /\ archive.frames[i].as = Told(whole.toc)
                                      /\ Len(archive.frames[i].cells) = x.sizes[i]
  <2> HIDE DEF x
  <2>1. /\ Len(FramesOf(whole, x)) = Len(x.sizes)
        /\ \A i \in 1 .. Len(x.sizes) : /\ FramesOf(whole, x)[i].as = Told(whole.toc)
                                        /\ Len(FramesOf(whole, x)[i].cells) = x.sizes[i]
    BY <1>1, <1>2, FramesAre
  <2>2. QED
    BY <1>7, <2>1
<1>9. built.toc = whole.toc /\ built.cells = d
  BY <1>3
<1>10. Lasts(built, x)
  BY <1>1, <1>9 DEF Lasts
<1>11. DOMAIN x.sizes = 1 .. Len(x.sizes)
  BY <1>4
<1>12. ~(\/ Len(x.sizes) # Len(archive.frames) \/ ~Lasts(built, x)
         \/ \E i \in DOMAIN x.sizes : \/ x.sizes[i] # Len(archive.frames[i].cells)
                                      \/ Told(built.toc) # archive.frames[i].as)
  BY <1>8, <1>9, <1>10, <1>11
<1> HIDE DEF x
<1>13. /\ built' = [built EXCEPT !.cells = FramesLaid(@, x, archive.frames)]
       /\ turn' = "done" /\ UNCHANGED <<whole, archive>>
  BY <1>1, <1>6, <1>12 DEF opus_unpack_frames
<1>14. FramesLaid(d, x, archive.frames) = c
  BY <1>1, <1>2, <1>7, FramesFill DEF d
<1>15. built' = [toc |-> whole.toc, cells |-> c]
  <2>1. built' = [built EXCEPT !.cells = FramesLaid(d, x, archive.frames)]
    BY <1>9, <1>13
  <2>2. QED
    BY <1>3, <1>14, <2>1
<1>16. built' = whole
  BY <1>2, <1>15
<1>17. QED
  BY <1>1, <1>13, <1>16 DEF FramingInv

(* Every packet that the packer takes is built again as it was: nothing is *)
(* lost of its header, its padding or its frames (opus_packet_parse,       *)
(* opus_pack_packet, opus_unpack_header, opus_unpack_frames).              *)
THEOREM PacketsComeBack ==
  ASSUME PacketAssumption
  PROVE  FramingSpec => []FramingComesBack
<1>1. FramingInit => FramingInv
  BY DEF FramingInit, FramingInv
<1>2. FramingInv /\ [FramingNext]_packetVars => FramingInv'
  <2> SUFFICES ASSUME FramingInv, [FramingNext]_packetVars PROVE FramingInv'
    OBVIOUS
  <2>1. CASE opus_pack_packet
    BY <2>1, PackKeeps
  <2>2. CASE opus_unpack_header
    BY <2>2, HeaderKeeps
  <2>3. CASE opus_unpack_frames
    BY <2>3, FramesKeep
  <2>4. CASE UNCHANGED packetVars
    BY <2>4 DEF packetVars, FramingInv
  <2>5. QED
    BY <2>1, <2>2, <2>3, <2>4 DEF FramingNext
<1>3. FramingInv => FramingComesBack
  BY DEF FramingInv, FramingComesBack
<1>4. QED
  BY <1>1, <1>2, <1>3, PTL DEF FramingSpec

-----------------------------------------------------------------------------
(* The context table.                                                      *)

(* A remainder is known by its quotient.                                   *)
LEMMA RestIs ==
  ASSUME NEW n \in Nat, n > 0, NEW q \in Nat, NEW r \in 0 .. n - 1
  PROVE  (n * q + r) % n = r
<1> DEFINE a == n * q + r
           p == a \div n
           s == a % n
<1>1. a \in Nat
  <2>1. n * q \in Nat
    OBVIOUS
  <2>2. QED
    BY <2>1
<1> HIDE DEF a
<1>2. p \in Nat /\ s \in 0 .. n - 1 /\ a = n * p + s
  BY <1>1, Shared
<1> HIDE DEF p, s
<1>3. n * q + r = n * p + s
  BY <1>2 DEF a
<1>4. p = q
  <2>1. CASE p < q
    <3>1. n * (p + 1) <= n * q
      <4>1. PICK d \in Nat : q = (p + 1) + d
        <5>1. q - (p + 1) \in Nat /\ q = (p + 1) + (q - (p + 1))
          BY <1>2, <2>1
        <5>2. QED
          BY <5>1
      <4>2. n * q = n * (p + 1) + n * d
        BY <1>2, <4>1
      <4>3. n * d \in Nat /\ n * (p + 1) \in Nat
        BY <1>2
      <4>4. QED
        BY <4>2, <4>3
    <3>2. n * (p + 1) = n * p + n
      BY <1>2
    <3>3. n * p \in Nat /\ n * q \in Nat
      BY <1>2
    <3>4. QED
      BY <1>2, <1>3, <3>1, <3>2, <3>3
  <2>2. CASE q < p
    <3>1. n * (q + 1) <= n * p
      <4>1. PICK d \in Nat : p = (q + 1) + d
        <5>1. p - (q + 1) \in Nat /\ p = (q + 1) + (p - (q + 1))
          BY <1>2, <2>2
        <5>2. QED
          BY <5>1
      <4>2. n * p = n * (q + 1) + n * d
        BY <1>2, <4>1
      <4>3. n * d \in Nat /\ n * (q + 1) \in Nat
        BY <1>2
      <4>4. QED
        BY <4>2, <4>3
    <3>2. n * (q + 1) = n * q + n
      BY <1>2
    <3>3. n * p \in Nat /\ n * q \in Nat
      BY <1>2
    <3>4. QED
      BY <1>2, <1>3, <3>1, <3>2, <3>3
  <2>3. QED
    BY <1>2, <2>1, <2>2
<1>5. n * q \in Nat
  OBVIOUS
<1>6. r = s
  BY <1>2, <1>3, <1>4, <1>5
<1>7. QED
  BY <1>6 DEF s, a

(* Around the table every slot is met.                                     *)
LEMMA Around ==
  ASSUME NEW size \in Nat, size > 0, NEW h \in Nat, NEW j \in 0 .. size - 1
  PROVE  \E n \in 0 .. size - 1 : (h + n) % size = j
<1> DEFINE q == h \div size
           r == h % size
<1>1. q \in Nat /\ r \in 0 .. size - 1 /\ h = size * q + r
  BY Shared
<1> HIDE DEF q, r
<1>2. size * q \in Nat
  BY <1>1
<1>3. CASE r <= j
  <2>1. j - r \in 0 .. size - 1 /\ h + (j - r) = size * q + j
    BY <1>1, <1>2, <1>3
  <2>2. (size * q + j) % size = j
    BY <1>1, RestIs
  <2>3. QED
    BY <2>1, <2>2
<1>4. CASE ~(r <= j)
  <2>1. size * (q + 1) = size * q + size
    BY <1>1
  <2>2. (size + j) - r \in 0 .. size - 1 /\ h + ((size + j) - r) = size * (q + 1) + j
    BY <1>1, <1>2, <1>4, <2>1
  <2>3. (size * (q + 1) + j) % size = j
    BY <1>1, RestIs
  <2>4. QED
    BY <2>2, <2>3
<1>5. QED
  BY <1>3, <1>4

-----------------------------------------------------------------------------
(* The table: its slots s, what is in them f, and the list of live ones l. *)
Hashes == \A key, pr : HashOf(key, pr) \in Nat

Table(s, f, l) == [size |-> s, slot |-> f, live |-> l]

IsContext(c) == {"used", "key", "pr"} \subseteq DOMAIN c /\ c.used = TRUE

Place(s, e, n) == (ctx_slot(s, e.key, e.pr) + n) % s

(* A search for e that has come n slots far passed others only.            *)
Passed(s, f, e, n) ==
  \A m \in 0 .. n - 1 : f[Place(s, e, m)].used /\ ~Holds(f[Place(s, e, m)], e.key, e.pr)

Reached(s, f, i) == \E n \in 0 .. s - 1 : Place(s, f[i], n) = i /\ Passed(s, f, f[i], n)

IsTable(s, f, l) ==
  /\ s \in Nat /\ s >= 2
  /\ f = [i \in TableSlots(s) |-> f[i]]
  /\ \A i \in TableSlots(s) : f[i].used \in BOOLEAN /\ (f[i].used => IsContext(f[i]) /\ Reached(s, f, i))
  /\ l \in Seq(TableSlots(s)) /\ 2 * Len(l) <= s + 1
  /\ \A j \in 1 .. Len(l) : f[l[j]].used
  /\ \A j, k \in 1 .. Len(l) : l[j] = l[k] => j = k
  /\ \A i \in TableSlots(s) : f[i].used => \E j \in 1 .. Len(l) : l[j] = i

(* A search stays in the table.                                            *)
LEMMA PlaceIn ==
  ASSUME SymbolAssumption, Hashes, NEW s \in Nat, s > 0, NEW e, NEW n \in Nat
  PROVE  ctx_slot(s, e.key, e.pr) \in Nat /\ Place(s, e, n) \in TableSlots(s)
<1> DEFINE a == HashOf(e.key, e.pr)
           h == ctx_slot(s, e.key, e.pr)
<1>1. a \in Nat
  BY DEF Hashes
<1> HIDE DEF a
<1>2. a * s \in Nat
  BY <1>1
<1>3. HashSize \in Nat /\ HashSize > 0
  BY DEF SymbolAssumption
<1>4. h = (a * s) \div HashSize
  BY DEF ctx_slot, a
<1> DEFINE b == a * s
<1> HIDE DEF b
<1>5. b \div HashSize \in Nat
  BY <1>2, <1>3, Shared DEF b
<1>6. h \in Nat
  BY <1>4, <1>5 DEF b
<1> HIDE DEF h
<1>7. h + n \in Nat
  BY <1>6
<1>8. (h + n) % s \in 0 .. s - 1
  BY <1>7, Shared
<1>9. QED
  BY <1>6, <1>8 DEF Place, h, TableSlots

(* What a table is, part by part.                                          *)
LEMMA TableParts ==
  ASSUME NEW s, NEW f, NEW l, IsTable(s, f, l)
  PROVE  /\ s \in Nat /\ s >= 2 /\ s > 0
         /\ f = [i \in TableSlots(s) |-> f[i]] /\ l \in Seq(TableSlots(s)) /\ 2 * Len(l) <= s + 1
         /\ \A i \in TableSlots(s) : f[i].used \in BOOLEAN
         /\ \A i \in TableSlots(s) : f[i].used => IsContext(f[i]) /\ Reached(s, f, i)
         /\ \A j \in 1 .. Len(l) : f[l[j]].used
         /\ \A j, k \in 1 .. Len(l) : l[j] = l[k] => j = k
         /\ \A i \in TableSlots(s) : f[i].used => \E j \in 1 .. Len(l) : l[j] = i
<1>1. s \in Nat /\ s >= 2
  BY DEF IsTable
<1>2. s > 0
  BY <1>1
<1>3. f = [i \in TableSlots(s) |-> f[i]]
  BY Zenon DEF IsTable
<1>4. \A i \in TableSlots(s) : f[i].used \in BOOLEAN
  BY Zenon DEF IsTable
<1>5. \A i \in TableSlots(s) : f[i].used => IsContext(f[i]) /\ Reached(s, f, i)
  BY Zenon DEF IsTable
<1>6. l \in Seq(TableSlots(s)) /\ 2 * Len(l) <= s + 1
  BY Zenon DEF IsTable
<1>7. \A j \in 1 .. Len(l) : f[l[j]].used
  BY Zenon DEF IsTable
<1>8. \A j, k \in 1 .. Len(l) : l[j] = l[k] => j = k
  BY Zenon DEF IsTable
<1>9. \A i \in TableSlots(s) : f[i].used => \E j \in 1 .. Len(l) : l[j] = i
  BY Zenon DEF IsTable
<1>10. QED
  BY <1>1, <1>2, <1>3, <1>4, <1>5, <1>6, <1>7, <1>8, <1>9, Zenon

(* There are as many contexts as live slots, and a slot is free.           *)
UsedIn(s, f) == {i \in TableSlots(s) : f[i].used}

(* As many contexts as live slots, and a slot is free.                     *)
LEMMA LiveCounted ==
  ASSUME NEW s, NEW f, NEW l, IsTable(s, f, l)
  PROVE  /\ Cardinality(UsedIn(s, f)) = Len(l) /\ UsedIn(s, f) = {l[j] : j \in DOMAIN l}
         /\ Cardinality(UsedIn(s, f)) < s /\ \E i \in TableSlots(s) : ~f[i].used
<1> DEFINE used == {i \in TableSlots(s) : f[i].used}
           N == 1 .. Len(l)
           g == [j \in N |-> l[j]]
<1>1. /\ s \in Nat /\ s >= 2 /\ l \in Seq(TableSlots(s)) /\ 2 * Len(l) <= s + 1
      /\ \A j \in N : f[l[j]].used
      /\ \A j, k \in N : l[j] = l[k] => j = k
      /\ \A i \in TableSlots(s) : f[i].used => \E j \in N : l[j] = i
  BY DEF IsTable
<1>2. Len(l) \in Nat /\ DOMAIN l = N /\ \A j \in N : l[j] \in TableSlots(s)
  BY <1>1
<1>3. used = {l[j] : j \in DOMAIN l}
  BY <1>1, <1>2
<1>4. g \in Injection(N, used) /\ g \in Surjection(N, used)
  BY <1>1, <1>2 DEF Injection, Surjection, IsInjective
<1>5. IsFiniteSet(N) /\ Cardinality(N) = Len(l)
  <2>1. 1 \in Int /\ Len(l) \in Int
    BY <1>2
  <2>2. IsFiniteSet(N) /\ Cardinality(N) = IF 1 > Len(l) THEN 0 ELSE Len(l) - 1 + 1
    BY <2>1, FS_Interval
  <2>3. QED
    BY <1>2, <2>2
<1> HIDE DEF used, g, N
<1>6. Cardinality(used) = Cardinality(N)
  BY <1>4, <1>5, FS_Surjection
<1>7. Cardinality(used) < s
  BY <1>1, <1>2, <1>5, <1>6
<1>8. \E i \in TableSlots(s) : ~f[i].used
  <2>1. SUFFICES ASSUME \A i \in TableSlots(s) : f[i].used PROVE FALSE
    OBVIOUS
  <2>2. used = 0 .. s - 1
    BY <2>1 DEF used, TableSlots
  <2>3. Cardinality(0 .. s - 1) = IF 0 > s - 1 THEN 0 ELSE (s - 1) - 0 + 1
    <3>1. 0 \in Int /\ s - 1 \in Int
      BY <1>1
    <3>2. QED
      BY <3>1, FS_Interval
  <2>4. QED
    BY <1>1, <1>7, <2>2, <2>3
<1>9. QED
  BY <1>3, <1>5, <1>6, <1>7, <1>8 DEF used, UsedIn

(* A search comes upon a free slot, or what it looks for, first of all.    *)
LEMMA StopsAt ==
  ASSUME SymbolAssumption, Hashes, NEW s, NEW f, NEW l, IsTable(s, f, l), NEW e,
         NEW Stop, Stop \subseteq TableSlots(s), \E i \in TableSlots(s) : i \in Stop
  PROVE  \E n \in TableSlots(s) : Place(s, e, n) \in Stop /\ \A m \in 0 .. n - 1 : Place(s, e, m) \notin Stop
<1> DEFINE T == {n \in TableSlots(s) : Place(s, e, n) \in Stop}
           h == ctx_slot(s, e.key, e.pr)
<1>1. s \in Nat /\ s >= 2 /\ s > 0
  BY DEF IsTable
<1>2. h \in Nat
  BY <1>1, PlaceIn
<1> HIDE DEF h
<1>3. PICK i \in TableSlots(s) : i \in Stop
  OBVIOUS
<1>4. \E n \in TableSlots(s) : (h + n) % s = i
  BY <1>1, <1>2, <1>3, Around DEF TableSlots
<1>5. T # {} /\ T \subseteq Nat
  BY <1>3, <1>4 DEF Place, h, TableSlots
<1> HIDE DEF T
<1>6. PICK n \in T : \A k \in T : n <= k
  BY <1>5, Least
<1>7. n \in TableSlots(s) /\ Place(s, e, n) \in Stop
  BY <1>6 DEF T
<1>8. ASSUME NEW m \in 0 .. n - 1 PROVE Place(s, e, m) \notin Stop
  <2>1. m \in TableSlots(s) /\ m < n /\ m \in Nat /\ n \in Nat
    BY <1>1, <1>7 DEF TableSlots
  <2>2. m \notin T
    BY <1>6, <2>1
  <2>3. QED
    BY <2>1, <2>2 DEF T
<1>9. QED
  BY <1>7, <1>8

(* A context that is not there yet goes where its search ends.             *)
LEMMA Entered ==
  ASSUME SymbolAssumption, Hashes, NEW s, NEW f, NEW l, IsTable(s, f, l), NEW e, IsContext(e),
         2 * (Len(l) + 1) <= s + 1, NEW n \in TableSlots(s), NEW i, i = Place(s, e, n),
         ~f[i].used, Passed(s, f, e, n)
  PROVE  /\ i \in TableSlots(s) /\ l \in Seq(TableSlots(s))
         /\ IsTable(s, [f EXCEPT ![i] = e], Append(l, i))
<1> DEFINE g == [f EXCEPT ![i] = e]
           r == Append(l, i)
           S == TableSlots(s)
           N == Len(l)
<1>1. /\ s \in Nat /\ s >= 2 /\ s > 0 /\ f = [k \in S |-> f[k]]
      /\ \A k \in S : f[k].used \in BOOLEAN
      /\ \A k \in S : f[k].used => IsContext(f[k]) /\ Reached(s, f, k)
      /\ l \in Seq(S)
      /\ \A j \in 1 .. N : f[l[j]].used
      /\ \A j, k \in 1 .. N : l[j] = l[k] => j = k
      /\ \A k \in S : f[k].used => \E j \in 1 .. N : l[j] = k
  <2>1. /\ s \in Nat /\ s >= 2 /\ s > 0
        /\ f = [k \in TableSlots(s) |-> f[k]] /\ l \in Seq(TableSlots(s)) /\ 2 * Len(l) <= s + 1
        /\ \A k \in TableSlots(s) : f[k].used \in BOOLEAN
        /\ \A k \in TableSlots(s) : f[k].used => IsContext(f[k]) /\ Reached(s, f, k)
        /\ \A j \in 1 .. Len(l) : f[l[j]].used
        /\ \A j, k \in 1 .. Len(l) : l[j] = l[k] => j = k
        /\ \A k \in TableSlots(s) : f[k].used => \E j \in 1 .. Len(l) : l[j] = k
    <3>1. IsTable(s, f, l)
      OBVIOUS
    <3>2. QED
      BY <3>1, TableParts
  <2>2. QED
    BY <2>1, Zenon
<1>2. n \in Nat /\ n \in 0 .. s - 1
  BY <1>1 DEF TableSlots
<1>3. i \in S
  BY <1>1, <1>2, PlaceIn
<1>4. g = [k \in S |-> g[k]] /\ g[i] = e /\ \A k \in S : k # i => g[k] = f[k]
  BY <1>1, <1>3
<1>5. N \in Nat /\ \A j \in 1 .. N : l[j] \in S
  BY <1>1
<1>6. r \in Seq(S) /\ Len(r) = N + 1 /\ r[N + 1] = i /\ \A j \in 1 .. N : r[j] = l[j]
  BY <1>1, <1>3
<1>7. \A j \in 1 .. N : l[j] # i
  BY <1>1
<1> HIDE DEF g, r, S, N
(* What passes only slots in use does not meet the one that is entered.    *)
<1>8. ASSUME NEW c, NEW m \in 0 .. s - 1, Passed(s, f, c, m) PROVE Passed(s, g, c, m)
  <2> SUFFICES ASSUME NEW k \in 0 .. m - 1
               PROVE  g[Place(s, c, k)].used /\ ~Holds(g[Place(s, c, k)], c.key, c.pr)
    BY DEF Passed
  <2>1. k \in Nat
    BY <1>1
  <2>2. Place(s, c, k) \in S
    BY <1>1, <2>1, PlaceIn DEF S
  <2>3. f[Place(s, c, k)].used /\ ~Holds(f[Place(s, c, k)], c.key, c.pr)
    BY <1>8 DEF Passed
  <2>4. Place(s, c, k) # i
    BY <2>3
  <2>5. QED
    BY <1>4, <2>2, <2>3, <2>4
<1>9. ASSUME NEW k \in S
      PROVE  g[k].used \in BOOLEAN /\ (g[k].used => IsContext(g[k]) /\ Reached(s, g, k))
  <2>1. CASE k = i
    <3>1. g[k] = e /\ e.used = TRUE
      BY <1>4, <2>1 DEF IsContext
    <3>2. Passed(s, g, e, n)
      BY <1>2, <1>8
    <3>3. Reached(s, g, k)
      BY <1>2, <2>1, <3>1, <3>2 DEF Reached
    <3>4. QED
      BY <3>1, <3>3
  <2>2. CASE k # i
    <3>1. g[k] = f[k]
      BY <1>4, <2>2
    <3>2. ASSUME f[k].used PROVE IsContext(g[k]) /\ Reached(s, g, k)
      <4>1. IsContext(f[k]) /\ Reached(s, f, k)
        BY <1>1, <3>2 DEF S
      <4>2. PICK m \in 0 .. s - 1 : Place(s, f[k], m) = k /\ Passed(s, f, f[k], m)
        BY <4>1 DEF Reached
      <4>3. Passed(s, g, f[k], m)
        BY <1>8, <4>2
      <4>4. QED
        BY <3>1, <4>1, <4>2, <4>3 DEF Reached
    <3>3. f[k].used \in BOOLEAN
      BY <1>1 DEF S
    <3>4. QED
      BY <3>1, <3>2, <3>3
  <2>3. QED
    BY <2>1, <2>2
<1>10. 2 * Len(r) <= s + 1
  BY <1>6 DEF N
<1>11. \A j \in 1 .. Len(r) : g[r[j]].used
  <2>1. ASSUME NEW j \in 1 .. Len(r) PROVE g[r[j]].used
    <3>1. CASE j = N + 1
      BY <1>4, <1>6, <3>1 DEF IsContext
    <3>2. CASE j # N + 1
      <4>1. j \in 1 .. N
        BY <1>5, <1>6, <3>2
      <4>2. g[l[j]] = f[l[j]]
        BY <1>4, <1>5, <1>7, <4>1
      <4>3. f[l[j]].used
        BY <1>1, <4>1 DEF N
      <4>4. QED
        BY <1>6, <4>1, <4>2, <4>3
    <3>3. QED
      BY <3>1, <3>2
  <2>2. QED
    BY <2>1
<1>12. \A j, k \in 1 .. Len(r) : r[j] = r[k] => j = k
  <2>1. ASSUME NEW j \in 1 .. Len(r), NEW k \in 1 .. Len(r), r[j] = r[k] PROVE j = k
    <3>1. CASE j \in 1 .. N /\ k \in 1 .. N
      BY <1>1, <1>6, <2>1, <3>1 DEF N
    <3>2. CASE j \in 1 .. N /\ k = N + 1
      BY <1>6, <1>7, <2>1, <3>2
    <3>3. CASE j = N + 1 /\ k \in 1 .. N
      BY <1>6, <1>7, <2>1, <3>3
    <3>4. CASE j = N + 1 /\ k = N + 1
      BY <3>4
    <3>5. QED
      BY <1>5, <1>6, <3>1, <3>2, <3>3, <3>4
  <2>2. QED
    BY <2>1
<1>13. \A k \in S : g[k].used => \E j \in 1 .. Len(r) : r[j] = k
  <2>1. ASSUME NEW k \in S, g[k].used PROVE \E j \in 1 .. Len(r) : r[j] = k
    <3>1. CASE k = i
      BY <1>5, <1>6, <3>1
    <3>2. CASE k # i
      <4>1. f[k].used
        BY <1>4, <2>1, <3>2
      <4>2. PICK j \in 1 .. N : l[j] = k
        BY <1>1, <4>1 DEF S, N
      <4>3. j \in 1 .. Len(r)
        BY <1>5, <1>6
      <4>4. QED
        BY <1>6, <4>2, <4>3
    <3>3. QED
      BY <3>1, <3>2
  <2>2. QED
    BY <2>1
<1>14. IsTable(s, g, r)
  BY <1>1, <1>4, <1>6, <1>9, <1>10, <1>11, <1>12, <1>13 DEF IsTable, S
<1>15. QED
  BY <1>1, <1>3, <1>14 DEF g, r, S

(* Two slots have two contexts.                                            *)
LEMMA OneContext ==
  ASSUME NEW s, NEW f, NEW l, IsTable(s, f, l), NEW i \in TableSlots(s), NEW j \in TableSlots(s),
         f[i].used, f[j].used, f[i].key = f[j].key, f[i].pr = f[j].pr
  PROVE  i = j
<1>1. s \in Nat /\ Reached(s, f, i) /\ Reached(s, f, j)
  BY DEF IsTable
<1>2. PICK n \in 0 .. s - 1 : Place(s, f[i], n) = i /\ Passed(s, f, f[i], n)
  BY <1>1 DEF Reached
<1>3. PICK m \in 0 .. s - 1 : Place(s, f[j], m) = j /\ Passed(s, f, f[j], m)
  BY <1>1 DEF Reached
<1>4. \A k : Place(s, f[i], k) = Place(s, f[j], k)
  BY DEF Place
<1>5. CASE n < m
  <2>1. n \in 0 .. m - 1
    BY <1>1, <1>5
  <2>2. ~Holds(f[i], f[j].key, f[j].pr)
    BY <1>2, <1>3, <1>4, <2>1 DEF Passed
  <2>3. QED
    BY <2>2 DEF Holds
<1>6. CASE m < n
  <2>1. m \in 0 .. n - 1
    BY <1>1, <1>6
  <2>2. ~Holds(f[j], f[i].key, f[i].pr)
    BY <1>2, <1>3, <1>4, <2>1 DEF Passed
  <2>3. QED
    BY <2>2 DEF Holds
<1>7. CASE n = m
  BY <1>2, <1>3, <1>4, <1>7
<1>8. QED
  BY <1>1, <1>5, <1>6, <1>7

(* A context found stays where it is when it has counted.                  *)
LEMMA Replaced ==
  ASSUME SymbolAssumption, Hashes, NEW s, NEW f, NEW l, IsTable(s, f, l), NEW i \in TableSlots(s),
         f[i].used, NEW c, IsContext(c), c.key = f[i].key, c.pr = f[i].pr
  PROVE  IsTable(s, [f EXCEPT ![i] = c], l)
<1> DEFINE g == [f EXCEPT ![i] = c]
           S == TableSlots(s)
<1>1. /\ s \in Nat /\ s >= 2 /\ s > 0 /\ f = [k \in S |-> f[k]]
      /\ \A k \in S : f[k].used \in BOOLEAN
      /\ \A k \in S : f[k].used => IsContext(f[k]) /\ Reached(s, f, k)
      /\ l \in Seq(S) /\ 2 * Len(l) <= s + 1
      /\ \A j \in 1 .. Len(l) : f[l[j]].used
      /\ \A j, k \in 1 .. Len(l) : l[j] = l[k] => j = k
      /\ \A k \in S : f[k].used => \E j \in 1 .. Len(l) : l[j] = k
  <2>1. /\ s \in Nat /\ s >= 2 /\ s > 0
        /\ f = [k \in TableSlots(s) |-> f[k]] /\ l \in Seq(TableSlots(s)) /\ 2 * Len(l) <= s + 1
        /\ \A k \in TableSlots(s) : f[k].used \in BOOLEAN
        /\ \A k \in TableSlots(s) : f[k].used => IsContext(f[k]) /\ Reached(s, f, k)
        /\ \A j \in 1 .. Len(l) : f[l[j]].used
        /\ \A j, k \in 1 .. Len(l) : l[j] = l[k] => j = k
        /\ \A k \in TableSlots(s) : f[k].used => \E j \in 1 .. Len(l) : l[j] = k
    <3>1. IsTable(s, f, l)
      OBVIOUS
    <3>2. QED
      BY <3>1, TableParts
  <2>2. QED
    BY <2>1, Zenon
<1>2. g = [k \in S |-> g[k]] /\ g[i] = c /\ \A k \in S : k # i => g[k] = f[k]
  BY <1>1
<1>3. f[i].used = TRUE /\ c.used = TRUE
  BY <1>1 DEF IsContext
<1> HIDE DEF g
<1>4. \A k \in S : g[k].used = f[k].used
  BY <1>2, <1>3
<1>5. \A k \in S : f[k].used => g[k].key = f[k].key /\ g[k].pr = f[k].pr
  BY <1>2
<1>6. ASSUME NEW e, NEW m \in 0 .. s - 1, Passed(s, f, e, m) PROVE Passed(s, g, e, m)
  <2> SUFFICES ASSUME NEW k \in 0 .. m - 1
               PROVE  g[Place(s, e, k)].used /\ ~Holds(g[Place(s, e, k)], e.key, e.pr)
    BY DEF Passed
  <2>1. k \in Nat
    BY <1>1
  <2>2. Place(s, e, k) \in S
    BY <1>1, <2>1, PlaceIn
  <2>3. f[Place(s, e, k)].used /\ ~Holds(f[Place(s, e, k)], e.key, e.pr)
    BY <1>6 DEF Passed
  <2>4. QED
    BY <1>4, <1>5, <2>2, <2>3 DEF Holds
<1>7. ASSUME NEW k \in S, f[k].used PROVE IsContext(g[k]) /\ Reached(s, g, k)
  <2>1. IsContext(f[k]) /\ Reached(s, f, k)
    BY <1>1, <1>7
  <2>2. PICK m \in 0 .. s - 1 : Place(s, f[k], m) = k /\ Passed(s, f, f[k], m)
    BY <2>1 DEF Reached
  <2>3. g[k].key = f[k].key /\ g[k].pr = f[k].pr
    BY <1>5, <1>7
  <2>4. Passed(s, g, f[k], m)
    BY <1>6, <2>2
  <2>5. Passed(s, g, g[k], m) /\ Place(s, g[k], m) = k
    BY <2>2, <2>3, <2>4 DEF Passed, Place
  <2>6. IsContext(g[k])
    BY <1>2, <2>1
  <2>7. QED
    BY <2>5, <2>6 DEF Reached
<1>8. \A j \in 1 .. Len(l) : l[j] \in S
  BY <1>1
<1>9. IsTable(s, g, l)
  BY <1>1, <1>2, <1>4, <1>7, <1>8 DEF IsTable
<1>10. QED
  BY <1>9 DEF g

(* A search for a context ends at it, or where it would be put.            *)
LEMMA Searched ==
  ASSUME SymbolAssumption, Hashes, NEW s, NEW f, NEW l, IsTable(s, f, l), NEW key, NEW pr
  PROVE  LET e == [key |-> key, pr |-> pr]
             i == SlotOf(Table(s, f, l), key, pr)
         IN  /\ i \in TableSlots(s) /\ (~f[i].used \/ Holds(f[i], key, pr))
             /\ \E n \in TableSlots(s) : i = Place(s, e, n) /\ Passed(s, f, e, n)
<1> DEFINE e == [key |-> key, pr |-> pr]
           h == ctx_slot(s, key, pr)
           P(n) == /\ ~f[(h + n) % s].used \/ Holds(f[(h + n) % s], key, pr)
                   /\ \A m \in 0 .. n - 1 : ~(~f[(h + m) % s].used \/ Holds(f[(h + m) % s], key, pr))
           c == CHOOSE n \in TableSlots(s) : P(n)
           Stop == {k \in TableSlots(s) : ~f[k].used \/ Holds(f[k], key, pr)}
           t == Table(s, f, l)
           i == SlotOf(t, key, pr)
<1>1. s \in Nat /\ s > 0
  BY TableParts
<1>2. t.size = s /\ t.slot = f
  BY DEF Table
<1> HIDE DEF t
<1>3. i = (h + c) % s
  BY <1>2 DEF SlotOf, Probed
<1>4. \A n : Place(s, e, n) = (h + n) % s
  BY DEF Place
<1>5. e.key = key /\ e.pr = pr
  OBVIOUS
<1> HIDE DEF h, e, i
<1>6. \E k \in TableSlots(s) : k \in Stop
  <2>1. \E k \in TableSlots(s) : ~f[k].used
    BY LiveCounted
  <2>2. QED
    BY <2>1
<1>7. PICK n \in TableSlots(s) : Place(s, e, n) \in Stop /\ \A m \in 0 .. n - 1 : Place(s, e, m) \notin Stop
  <2> HIDE DEF Stop
  <2>1. Stop \subseteq TableSlots(s)
    BY DEF Stop
  <2>2. QED
    BY <1>6, <2>1, StopsAt
<1>8. \A m \in Nat : Place(s, e, m) \in TableSlots(s)
  BY <1>1, PlaceIn
<1>9. P(n)
  <2>1. ~f[(h + n) % s].used \/ Holds(f[(h + n) % s], key, pr)
    BY <1>4, <1>7
  <2>2. ASSUME NEW m \in 0 .. n - 1
        PROVE  ~(~f[(h + m) % s].used \/ Holds(f[(h + m) % s], key, pr))
    <3>1. m \in Nat
      BY <1>1
    <3>2. Place(s, e, m) \in TableSlots(s) /\ Place(s, e, m) \notin Stop
      BY <1>7, <1>8, <3>1
    <3>3. QED
      BY <1>4, <3>2
  <2>3. QED
    BY <2>1, <2>2
<1>10. c \in TableSlots(s) /\ P(c)
  <2> HIDE DEF P
  <2>1. \E m \in TableSlots(s) : P(m)
    BY <1>9
  <2>2. QED
    BY <2>1
<1> HIDE DEF c
<1>11. c \in Nat
  BY <1>1, <1>10 DEF TableSlots
<1>12. i = Place(s, e, c) /\ i \in TableSlots(s)
  BY <1>3, <1>4, <1>8, <1>11
<1>13. ~f[i].used \/ Holds(f[i], key, pr)
  BY <1>3, <1>10
<1>14. Passed(s, f, e, c)
  <2>1. ASSUME NEW m \in 0 .. c - 1
        PROVE  f[Place(s, e, m)].used /\ ~Holds(f[Place(s, e, m)], e.key, e.pr)
    BY <1>4, <1>5, <1>10, <2>1
  <2>2. QED
    BY <2>1 DEF Passed
<1>15. QED
  BY <1>10, <1>12, <1>13, <1>14 DEF e, i, t

(* What is in the table is found where it is.                              *)
LEMMA FoundWhereItIs ==
  ASSUME SymbolAssumption, Hashes, NEW s, NEW f, NEW l, IsTable(s, f, l),
         NEW j \in TableSlots(s), f[j].used
  PROVE  SlotOf(Table(s, f, l), f[j].key, f[j].pr) = j
<1> DEFINE key == f[j].key
           pr == f[j].pr
           e == [key |-> key, pr |-> pr]
           i == SlotOf(Table(s, f, l), key, pr)
<1>1. s \in Nat /\ Reached(s, f, j)
  BY TableParts
<1>2. PICK m \in 0 .. s - 1 : Place(s, f[j], m) = j /\ Passed(s, f, f[j], m)
  BY <1>1 DEF Reached
<1>3. Place(s, e, m) = j /\ Passed(s, f, e, m)
  BY <1>2 DEF Place, Passed
<1>4. e.key = key /\ e.pr = pr
  OBVIOUS
<1>5. Holds(f[j], key, pr)
  BY DEF Holds
<1> HIDE DEF key, pr
<1>6. /\ i \in TableSlots(s) /\ (~f[i].used \/ Holds(f[i], key, pr))
      /\ \E n \in TableSlots(s) : i = Place(s, e, n) /\ Passed(s, f, e, n)
  BY Searched
<1> HIDE DEF e, i
<1>7. PICK n \in TableSlots(s) : i = Place(s, e, n) /\ Passed(s, f, e, n)
  BY <1>6
<1>8. n \in 0 .. s - 1
  BY <1>7 DEF TableSlots
<1>9. CASE n < m
  <2>1. n \in 0 .. m - 1
    BY <1>1, <1>8, <1>9
  <2>2. f[i].used /\ ~Holds(f[i], e.key, e.pr)
    BY <1>3, <1>7, <2>1 DEF Passed
  <2>3. QED
    BY <1>4, <1>6, <2>2
<1>10. CASE m < n
  <2>1. m \in 0 .. n - 1
    BY <1>1, <1>8, <1>10
  <2>2. ~Holds(f[j], e.key, e.pr)
    BY <1>3, <1>7, <2>1 DEF Passed
  <2>3. QED
    BY <1>4, <1>5, <2>2
<1>11. CASE n = m
  BY <1>3, <1>7, <1>11 DEF i, key, pr
<1>12. QED
  BY <1>1, <1>8, <1>9, <1>10, <1>11

(* A table holds nothing when it is made.                                  *)
LEMMA NewTable ==
  ASSUME NEW s \in Nat, s >= 2
  PROVE  \E f : ctx_new(s) = Table(s, f, <<>>) /\ IsTable(s, f, <<>>)
<1> DEFINE f == [i \in TableSlots(s) |-> Empty]
<1>1. f = [i \in TableSlots(s) |-> f[i]] /\ \A i \in TableSlots(s) : f[i].used = FALSE
  BY DEF Empty
<1>2. ctx_new(s) = Table(s, f, <<>>)
  BY DEF ctx_new, Table
<1> HIDE DEF f
<1>3. IsTable(s, f, <<>>)
  <2>1. <<>> \in Seq(TableSlots(s)) /\ Len(<<>>) = 0 /\ 2 * Len(<<>>) <= s + 1
    OBVIOUS
  <2>2. 1 .. Len(<<>>) = {}
    BY <2>1
  <2>3. QED
    BY <1>1, <2>1, <2>2 DEF IsTable
<1>4. QED
  BY <1>2, <1>3

(* An entry put into a table.                                              *)
LEMMA PutIn ==
  ASSUME NEW s, NEW f, NEW l, NEW i, NEW e
  PROVE  PutAt(Table(s, f, l), i, e) = Table(s, [f EXCEPT ![i] = e], Append(l, i))
<1> DEFINE t == Table(s, f, l)
           z == [t EXCEPT !.slot[i] = e, !.live = Append(@, i)]
           g == [f EXCEPT ![i] = e]
           r == Append(l, i)
           w == Table(s, g, r)
<1>1. DOMAIN t = {"size", "slot", "live"} /\ t.size = s /\ t.slot = f /\ t.live = l
  BY DEF Table
<1>2. DOMAIN w = {"size", "slot", "live"} /\ w.size = s /\ w.slot = g /\ w.live = r
  BY DEF Table
<1>3. w = [d \in DOMAIN w |-> w[d]]
  BY DEF Table
<1> HIDE DEF t, w
<1>4. z = [d \in DOMAIN z |-> z[d]] /\ DOMAIN z = DOMAIN t
  OBVIOUS
<1>5. z.size = s /\ z.slot = g /\ z.live = r
  BY <1>1
<1> HIDE DEF z, g, r
<1>6. z.size = w.size /\ z.slot = w.slot /\ z.live = w.live
  BY <1>2, <1>5
<1>7. \A d \in {"size", "slot", "live"} : z[d] = w[d]
  BY <1>6
<1>8. z = w
  BY <1>1, <1>2, <1>3, <1>4, <1>7
<1>9. QED
  BY <1>8 DEF z, w, t, g, r, PutAt

(* A free slot is found, whatever it is for.                               *)
LEMMA FreeFound ==
  ASSUME SymbolAssumption, Hashes, NEW s, NEW f, NEW l, IsTable(s, f, l), NEW e
  PROVE  LET i == FreeSlot(Table(s, f, l), e.key, e.pr)
         IN  /\ i \in TableSlots(s) /\ ~f[i].used
             /\ \E n \in TableSlots(s) : i = Place(s, e, n) /\ \A m \in 0 .. n - 1 : f[Place(s, e, m)].used
<1> DEFINE h == ctx_slot(s, e.key, e.pr)
           P(n) == /\ ~f[(h + n) % s].used
                   /\ \A m \in 0 .. n - 1 : ~(~f[(h + m) % s].used)
           c == CHOOSE n \in TableSlots(s) : P(n)
           Stop == {k \in TableSlots(s) : ~f[k].used}
           t == Table(s, f, l)
           i == FreeSlot(t, e.key, e.pr)
<1>1. s \in Nat /\ s > 0
  BY TableParts
<1>2. t.size = s /\ t.slot = f
  BY DEF Table
<1> HIDE DEF t
<1>3. i = (h + c) % s
  BY <1>2 DEF FreeSlot, Probed
<1>4. \A n : Place(s, e, n) = (h + n) % s
  BY DEF Place
<1> HIDE DEF h, i
<1>6. \E k \in TableSlots(s) : k \in Stop
  <2>1. \E k \in TableSlots(s) : ~f[k].used
    BY LiveCounted
  <2>2. QED
    BY <2>1
<1>7. PICK n \in TableSlots(s) : Place(s, e, n) \in Stop /\ \A m \in 0 .. n - 1 : Place(s, e, m) \notin Stop
  <2> HIDE DEF Stop
  <2>1. Stop \subseteq TableSlots(s)
    BY DEF Stop
  <2>2. QED
    BY <1>6, <2>1, StopsAt
<1>8. \A m \in Nat : Place(s, e, m) \in TableSlots(s)
  BY <1>1, PlaceIn
<1>9. P(n)
  <2>1. ~f[(h + n) % s].used
    BY <1>4, <1>7
  <2>2. ASSUME NEW m \in 0 .. n - 1 PROVE ~(~f[(h + m) % s].used)
    <3>1. m \in Nat
      BY <1>1
    <3>2. Place(s, e, m) \in TableSlots(s) /\ Place(s, e, m) \notin Stop
      BY <1>7, <1>8, <3>1
    <3>3. QED
      BY <1>4, <3>2
  <2>3. QED
    BY <2>1, <2>2
<1>10. c \in TableSlots(s) /\ P(c)
  <2> HIDE DEF P
  <2>1. \E m \in TableSlots(s) : P(m)
    BY <1>9
  <2>2. QED
    BY <2>1
<1> HIDE DEF c
<1>11. c \in Nat
  BY <1>1, <1>10 DEF TableSlots
<1>12. i = Place(s, e, c) /\ i \in TableSlots(s)
  BY <1>3, <1>4, <1>8, <1>11
<1>13. ~f[i].used
  BY <1>3, <1>10
<1>14. \A m \in 0 .. c - 1 : f[Place(s, e, m)].used
  BY <1>4, <1>10
<1>15. QED
  BY <1>10, <1>12, <1>13, <1>14 DEF i, t

(* A table is given twice the slots, and the contexts move as they came.   *)
LEMMA Grows ==
  ASSUME SymbolAssumption, Hashes, NEW s, NEW f, NEW l, IsTable(s, f, l)
  PROVE  \E g, r : /\ ctx_grow(Table(s, f, l)) = Table(2 * s, g, r)
                   /\ IsTable(2 * s, g, r) /\ Len(r) = Len(l)
                   /\ \A j \in 1 .. Len(l) : g[r[j]] = f[l[j]]
<1> DEFINE t == Table(s, f, l)
           N == Len(l)
           S == 2 * s
           Move(u, e) == PutAt(u, FreeSlot(u, e.key, e.pr), e)
           F(k, u) == Move(u, t.slot[t.live[k]])
           z == ctx_new(2 * t.size)
           Is(q, n) == q = [k \in 0 .. n |-> IF k = 0 THEN z ELSE F(k, q[k - 1])]
           grown == CHOOSE q : Is(q, Len(t.live))
<1>1. /\ s \in Nat /\ s >= 2 /\ l \in Seq(TableSlots(s)) /\ N \in Nat /\ 2 * N <= s + 1
      /\ \A j \in 1 .. N : f[l[j]].used /\ IsContext(f[l[j]]) /\ l[j] \in TableSlots(s)
      /\ \A j, k \in 1 .. N : l[j] = l[k] => j = k
  <2>1. s \in Nat /\ s >= 2 /\ l \in Seq(TableSlots(s)) /\ 2 * N <= s + 1
    BY TableParts
  <2>2. N \in Nat /\ \A j \in 1 .. N : l[j] \in TableSlots(s)
    BY <2>1
  <2>3. \A j \in 1 .. N : f[l[j]].used
    BY TableParts
  <2>4. \A k \in TableSlots(s) : f[k].used => IsContext(f[k])
    BY TableParts
  <2>5. \A j, k \in 1 .. N : l[j] = l[k] => j = k
    BY TableParts
  <2>6. QED
    BY <2>1, <2>2, <2>3, <2>4, <2>5
<1>2. t.size = s /\ t.slot = f /\ t.live = l
  BY DEF Table
<1>3. ctx_grow(t) = grown[Len(t.live)]
  BY DEF ctx_grow
<1> HIDE DEF t, z
<1>4. \E q : Is(q, N)
  <2> HIDE DEF F
  <2> DEFINE D == {n \in Nat : \E q : Is(q, n)}
  <2>1. 0 \in D
    <3>1. Is([k \in 0 .. 0 |-> z], 0)
      OBVIOUS
    <3>2. QED
      BY <3>1
  <2>2. ASSUME NEW n \in Nat, n \in D PROVE n + 1 \in D
    <3>1. PICK q : Is(q, n)
      BY <2>2
    <3> DEFINE v == F(n + 1, q[n])
               p == [k \in 0 .. n + 1 |-> IF k <= n THEN q[k] ELSE v]
    <3>2. \A k \in 0 .. n : p[k] = q[k]
      OBVIOUS
    <3>3. p[n + 1] = v
      OBVIOUS
    <3>4. \A k \in 0 .. n + 1 : p[k] = IF k = 0 THEN z ELSE F(k, p[k - 1])
      <4>1. ASSUME NEW k \in 0 .. n + 1 PROVE p[k] = IF k = 0 THEN z ELSE F(k, p[k - 1])
        <5>1. CASE k = n + 1
          <6>1. k # 0 /\ k - 1 = n /\ n \in 0 .. n
            BY <5>1
          <6>2. QED
            BY <3>2, <3>3, <5>1, <6>1
        <5>2. CASE k # n + 1
          <6>1. k \in 0 .. n /\ (k # 0 => k - 1 \in 0 .. n)
            BY <5>2
          <6>2. q[k] = IF k = 0 THEN z ELSE F(k, q[k - 1])
            BY <3>1, <6>1
          <6>3. QED
            BY <3>2, <6>1, <6>2
        <5>3. QED
          BY <5>1, <5>2
      <4>2. QED
        BY <4>1
    <3>5. p = [k \in 0 .. n + 1 |-> p[k]]
      OBVIOUS
    <3> HIDE DEF p
    <3>6. Is(p, n + 1)
      BY <3>4, <3>5
    <3>7. QED
      BY <3>6
  <2> HIDE DEF D
  <2>3. \A n \in Nat : n \in D
    BY <2>1, <2>2, Inducts
  <2>4. QED
    BY <1>1, <2>3 DEF D
<1>5. Is(grown, N)
  <2> HIDE DEF Is
  <2>1. QED
    BY <1>2, <1>4
<1> HIDE DEF grown
<1>6. grown[0] = z /\ \A k \in 1 .. N : grown[k] = F(k, grown[k - 1])
  <2> HIDE DEF F
  <2>1. \A k \in 0 .. N : grown[k] = IF k = 0 THEN z ELSE F(k, grown[k - 1])
    BY <1>5
  <2>2. 0 \in 0 .. N /\ \A k \in 1 .. N : k \in 0 .. N /\ k # 0
    BY <1>1
  <2>3. QED
    BY <2>1, <2>2
<1>7. S \in Nat /\ S >= 2
  BY <1>1
<1> DEFINE W(k) == \E g, r : /\ grown[k] = Table(S, g, r) /\ IsTable(S, g, r) /\ Len(r) = k
                             /\ \A j \in 1 .. k : g[r[j]] = f[l[j]]
           D == {k \in Nat : k <= N => W(k)}
<1>8. 0 \in D
  <2>1. z = ctx_new(S)
    BY <1>2 DEF z
  <2> HIDE DEF S
  <2>2. PICK g : ctx_new(S) = Table(S, g, <<>>) /\ IsTable(S, g, <<>>)
    BY <1>7, NewTable
  <2>3. Len(<<>>) = 0 /\ 1 .. 0 = {}
    OBVIOUS
  <2>4. W(0)
    BY <1>6, <2>1, <2>2, <2>3
  <2>5. QED
    BY <2>4
<1>9. ASSUME NEW k \in Nat, k \in D PROVE k + 1 \in D
  <2> SUFFICES ASSUME k + 1 <= N PROVE W(k + 1)
    OBVIOUS
  <2>1. k + 1 \in 1 .. N /\ (k + 1) - 1 = k /\ k <= N
    BY <1>1
  <2>2. PICK g, r : /\ grown[k] = Table(S, g, r) /\ IsTable(S, g, r) /\ Len(r) = k
                    /\ \A j \in 1 .. k : g[r[j]] = f[l[j]]
    BY <1>9, <2>1
  <2> DEFINE e == f[l[k + 1]]
             i == FreeSlot(Table(S, g, r), e.key, e.pr)
  <2>3. grown[k + 1] = PutAt(Table(S, g, r), i, e)
    <3>1. grown[k + 1] = F(k + 1, grown[k])
      <4> HIDE DEF F
      <4>1. QED
        BY <1>6, <2>1
    <3>2. QED
      BY <1>2, <2>2, <3>1
  <2>4. e.used /\ IsContext(e)
    BY <1>1, <2>1
  <2> HIDE DEF e, S
  <2>5. /\ i \in TableSlots(S) /\ ~g[i].used
        /\ \E n \in TableSlots(S) : i = Place(S, e, n) /\ \A m \in 0 .. n - 1 : g[Place(S, e, m)].used
    BY <2>2, FreeFound
  <2> HIDE DEF i
  <2>6. PICK n \in TableSlots(S) : i = Place(S, e, n) /\ \A m \in 0 .. n - 1 : g[Place(S, e, m)].used
    BY <2>5
  <2>7. \A m \in Nat : Place(S, e, m) \in TableSlots(S)
    <3>1. S > 0
      BY <1>7
    <3>2. QED
      BY <1>7, <3>1, PlaceIn
  <2>8. Passed(S, g, e, n)
    <3>1. ASSUME NEW m \in 0 .. n - 1, Holds(g[Place(S, e, m)], e.key, e.pr) PROVE FALSE
      <4> DEFINE c == Place(S, e, m)
      <4>1. n \in Nat
        BY <1>7, <2>6 DEF TableSlots
      <4>2. m \in Nat
        BY <4>1
      <4>3. c \in TableSlots(S) /\ g[c].used /\ g[c].key = e.key /\ g[c].pr = e.pr
        BY <2>7, <3>1, <4>2 DEF Holds
      <4> HIDE DEF c
      <4>4. PICK j \in 1 .. Len(r) : r[j] = c
        BY <2>2, <4>3, TableParts
      <4>5. g[c] = f[l[j]] /\ j \in 1 .. N /\ j # k + 1
        BY <1>1, <2>1, <2>2, <4>4
      <4>6. l[j] \in TableSlots(s) /\ l[k + 1] \in TableSlots(s) /\ f[l[j]].used /\ f[l[k + 1]].used
        BY <1>1, <2>1, <4>5
      <4>7. f[l[j]].key = f[l[k + 1]].key /\ f[l[j]].pr = f[l[k + 1]].pr
        BY <4>3, <4>5 DEF e
      <4>8. l[j] = l[k + 1]
        BY <4>6, <4>7, OneContext
      <4>9. QED
        BY <1>1, <2>1, <4>5, <4>8
    <3>2. QED
      BY <2>6, <3>1 DEF Passed
  <2> DEFINE G == [g EXCEPT ![i] = e]
             R == Append(r, i)
  <2>9. 2 * (Len(r) + 1) <= S + 1
    BY <1>1, <2>1, <2>2 DEF S
  <2>10. r \in Seq(TableSlots(S)) /\ IsTable(S, G, R)
    BY <2>2, <2>4, <2>5, <2>6, <2>8, <2>9, Entered
  <2>11. grown[k + 1] = Table(S, G, R)
    BY <2>3, PutIn
  <2>12. Len(R) = k + 1 /\ R[k + 1] = i /\ \A j \in 1 .. k : R[j] = r[j]
    BY <2>2, <2>10
  <2>13. \A j \in 1 .. k : g[r[j]].used
    <3>1. \A j \in 1 .. Len(r) : g[r[j]].used
      BY <2>2, TableParts
    <3>2. QED
      BY <2>2, <3>1
  <2>14. g = [c \in TableSlots(S) |-> g[c]]
    BY <2>2, TableParts
  <2>15. ASSUME NEW j \in 1 .. k + 1 PROVE G[R[j]] = f[l[j]]
    <3>1. CASE j = k + 1
      <4>1. G[i] = e
        BY <2>5, <2>14
      <4>2. QED
        BY <2>12, <3>1, <4>1 DEF e
    <3>2. CASE j # k + 1
      <4>1. j \in 1 .. k
        BY <3>2
      <4>2. r[j] # i /\ r[j] \in TableSlots(S)
        <5>1. \A q \in 1 .. Len(r) : r[q] \in TableSlots(S)
          BY <2>10
        <5>2. QED
          BY <2>2, <2>5, <2>13, <4>1, <5>1
      <4>3. G[r[j]] = g[r[j]]
        BY <2>14, <4>2
      <4>4. QED
        BY <2>2, <2>12, <4>1, <4>3
    <3>3. QED
      BY <3>1, <3>2
  <2> HIDE DEF G, R
  <2>16. QED
    BY <2>10, <2>11, <2>12, <2>15
<1> HIDE DEF D
<1>10. \A k \in Nat : k \in D
  BY <1>8, <1>9, Inducts
<1>11. W(N)
  BY <1>1, <1>10 DEF D
<1>12. ctx_grow(t) = grown[N]
  BY <1>2, <1>3
<1>13. QED
  BY <1>11, <1>12 DEF t

-----------------------------------------------------------------------------
(* A table that is a map.                                                  *)
IsMap(t) == \E s, f, l : t = Table(s, f, l) /\ IsTable(s, f, l)

(* Whatever is in u is in t.                                               *)
From(u, t) ==
  \A i \in TableSlots(u.size) :
     u.slot[i].used => \E j \in TableSlots(t.size) : t.slot[j].used /\ u.slot[i] = t.slot[j]

(* A table with room for one more context, and none that is new.           *)
LEMMA RoomMade ==
  ASSUME SymbolAssumption, Hashes, NEW t, IsMap(t)
  PROVE  /\ \E s, f, l : Grown(t) = Table(s, f, l) /\ IsTable(s, f, l) /\ 2 * (Len(l) + 1) <= s + 1
         /\ From(Grown(t), t)
<1> DEFINE u == Grown(t)
<1>1. PICK s, f, l : t = Table(s, f, l) /\ IsTable(s, f, l)
  BY DEF IsMap
<1>2. t.size = s /\ t.live = l /\ t.slot = f
  BY <1>1 DEF Table
<1>3. s \in Nat /\ s >= 2 /\ l \in Seq(TableSlots(s)) /\ Len(l) \in Nat /\ 2 * Len(l) <= s + 1
  <2>1. s \in Nat /\ s >= 2 /\ l \in Seq(TableSlots(s)) /\ 2 * Len(l) <= s + 1
    BY <1>1, TableParts
  <2>2. QED
    BY <2>1
<1>4. CASE 2 * Len(l) >= s
  <2>1. u = ctx_grow(t)
    BY <1>2, <1>4 DEF Grown
  <2>2. PICK g, r : /\ ctx_grow(t) = Table(2 * s, g, r) /\ IsTable(2 * s, g, r) /\ Len(r) = Len(l)
                    /\ \A j \in 1 .. Len(l) : g[r[j]] = f[l[j]]
    BY <1>1, Grows
  <2>3. 2 * (Len(r) + 1) <= (2 * s) + 1
    BY <1>3, <2>2
  <2> HIDE DEF u
  <2>4. From(u, t)
    <3>1. u.size = 2 * s /\ u.slot = g
      BY <2>1, <2>2 DEF Table
    <3>2. ASSUME NEW i \in TableSlots(u.size), u.slot[i].used
          PROVE  \E j \in TableSlots(t.size) : t.slot[j].used /\ u.slot[i] = t.slot[j]
      <4>1. PICK j \in 1 .. Len(r) : r[j] = i
        BY <2>2, <3>1, <3>2, TableParts
      <4>2. l[j] \in TableSlots(s) /\ f[l[j]].used
        <5>1. \A k \in 1 .. Len(l) : f[l[k]].used
          BY <1>1, TableParts
        <5>2. QED
          BY <1>3, <2>2, <5>1
      <4>3. g[i] = f[l[j]]
        BY <2>2, <4>1
      <4>4. QED
        BY <1>2, <3>1, <4>2, <4>3
    <3>3. QED
      BY <3>2 DEF From
  <2>5. QED
    BY <2>1, <2>2, <2>3, <2>4 DEF u
<1>5. CASE ~(2 * Len(l) >= s)
  <2>1. u = t
    BY <1>2, <1>5 DEF Grown
  <2>2. 2 * (Len(l) + 1) <= s + 1
    BY <1>3, <1>5
  <2>3. From(t, t)
    BY DEF From
  <2> HIDE DEF u
  <2>4. QED
    BY <1>1, <2>1, <2>2, <2>3 DEF u
<1>6. QED
  BY <1>4, <1>5

(* The context that is asked for is in the table then, and it is new or    *)
(* was there.                                                              *)
LEMMA Finds ==
  ASSUME SymbolAssumption, Hashes, NEW t, IsMap(t), NEW key, NEW pr
  PROVE  LET a == ctx_find(t, key, pr)
         IN  /\ IsMap(a.t) /\ a.at \in TableSlots(a.t.size)
             /\ a.t.slot[a.at].used /\ IsContext(a.t.slot[a.at])
             /\ Holds(a.t.slot[a.at], key, pr)
             /\ \A k \in TableSlots(a.t.size) : a.t.slot[k].used =>
                   \/ a.t.slot[k] = NewContext(key, pr)
                   \/ \E j \in TableSlots(t.size) : t.slot[j].used /\ a.t.slot[k] = t.slot[j]
<1> DEFINE a == ctx_find(t, key, pr)
           u == Grown(t)
           i == SlotOf(u, key, pr)
           c == NewContext(key, pr)
           e == [key |-> key, pr |-> pr]
<1>0. /\ \E s, f, l : u = Table(s, f, l) /\ IsTable(s, f, l) /\ 2 * (Len(l) + 1) <= s + 1
      /\ From(u, t)
  BY RoomMade
<1>1. PICK s, f, l : u = Table(s, f, l) /\ IsTable(s, f, l) /\ 2 * (Len(l) + 1) <= s + 1
  BY <1>0
<1>2. a.at = i /\ a.t = IF u.slot[i].used THEN u ELSE PutAt(u, i, c)
  BY DEF ctx_find
<1>3. u.size = s /\ u.slot = f
  BY <1>1 DEF Table
<1> HIDE DEF u, a
<1>8. \A k \in TableSlots(s) :
         f[k].used => \E j \in TableSlots(t.size) : t.slot[j].used /\ f[k] = t.slot[j]
  BY <1>0, <1>3 DEF From
<1>4. /\ i \in TableSlots(s) /\ (~f[i].used \/ Holds(f[i], key, pr))
      /\ \E n \in TableSlots(s) : i = Place(s, e, n) /\ Passed(s, f, e, n)
  BY <1>1, Searched
<1> HIDE DEF i
<1>5. CASE f[i].used
  <2>1. a.t = u
    BY <1>2, <1>3, <1>5
  <2>2. IsContext(f[i])
    BY <1>1, <1>4, <1>5, TableParts
  <2>3. Holds(f[i], key, pr)
    BY <1>4, <1>5
  <2>4. a.t.size = s /\ a.t.slot = f /\ a.at = i /\ IsMap(a.t)
    BY <1>1, <1>2, <1>3, <2>1 DEF IsMap
  <2>5. QED
    BY <1>4, <1>5, <1>8, <2>2, <2>3, <2>4 DEF a
<1>6. CASE ~f[i].used
  <2> DEFINE g == [f EXCEPT ![i] = c]
             r == Append(l, i)
  <2>1. a.t = Table(s, g, r)
    <3>1. a.t = PutAt(Table(s, f, l), i, c)
      BY <1>1, <1>2, <1>3, <1>6
    <3>2. QED
      BY <3>1, PutIn
  <2>2. IsContext(c) /\ c.key = key /\ c.pr = pr
    BY DEF NewContext, IsContext
  <2>3. PICK n \in TableSlots(s) : i = Place(s, e, n) /\ Passed(s, f, e, n)
    BY <1>4
  <2>4. i = Place(s, c, n) /\ Passed(s, f, c, n)
    BY <2>2, <2>3 DEF Place, Passed
  <2> HIDE DEF c
  <2>5. IsTable(s, g, r)
    BY <1>1, <1>6, <2>2, <2>4, Entered
  <2>6. g[i] = c /\ c.used
    <3>1. f = [k \in TableSlots(s) |-> f[k]]
      BY <1>1, TableParts
    <3>2. QED
      BY <1>4, <2>2, <3>1 DEF IsContext
  <2> HIDE DEF g, r
  <2>7. IsMap(a.t) /\ a.t.size = s /\ a.t.slot = g
    BY <2>1, <2>5 DEF IsMap, Table
  <2>8. Holds(c, key, pr)
    BY <2>2, <2>6 DEF Holds
  <2>9. ASSUME NEW k \in TableSlots(s), g[k].used
        PROVE  g[k] = c \/ \E j \in TableSlots(t.size) : t.slot[j].used /\ g[k] = t.slot[j]
    <3>1. f = [q \in TableSlots(s) |-> f[q]]
      BY <1>1, TableParts
    <3>2. g[k] = c \/ g[k] = f[k]
      BY <3>1 DEF g
    <3>3. QED
      BY <1>8, <2>9, <3>2
  <2>10. QED
    BY <1>2, <1>4, <2>2, <2>6, <2>7, <2>8, <2>9 DEF a, c
<1>7. QED
  BY <1>5, <1>6

(* What has counted is still the context it was.                           *)
LEMMA CountedIs ==
  ASSUME NEW c, IsContext(c), NEW i
  PROVE  IsContext(Counted(c, i)) /\ Counted(c, i).key = c.key /\ Counted(c, i).pr = c.pr
<1> DEFINE d == [c EXCEPT !.f[i] = @ + Inc, !.blk[BlockOf(i)] = @ + Inc, !.tot = @ + Inc]
           halves == [j \in DOMAIN d.f |-> d.pr.f[j] + (d.f[j] - d.pr.f[j]) \div 2]
           added == [j \in DOMAIN d.f |-> (d.f[j] - d.pr.f[j]) \div 2]
           h == [d EXCEPT !.f = halves, !.blk = BlockSums(halves), !.tot = Added(added)]
<1>1. Counted(c, i) = IF d.tot > Cap THEN h ELSE d
  BY DEF Counted
<1>2. IsContext(d) /\ d.key = c.key /\ d.pr = c.pr
  BY DEF IsContext
<1> HIDE DEF d, halves, added
<1>3. IsContext(h) /\ h.key = d.key /\ h.pr = d.pr
  BY <1>2 DEF IsContext
<1> HIDE DEF h
<1>4. QED
  BY <1>1, <1>2, <1>3

(* A table with another context in a slot.                                 *)
With(t, i, c) == [t EXCEPT !.slot[i] = c]

(* A table with another context in it, as a table.                         *)
LEMMA WithIs ==
  ASSUME NEW s, NEW f, NEW l, NEW i, NEW c
  PROVE  With(Table(s, f, l), i, c) = Table(s, [f EXCEPT ![i] = c], l)
<1> DEFINE t == Table(s, f, l)
           z == With(t, i, c)
           g == [f EXCEPT ![i] = c]
           w == Table(s, g, l)
<1>1. DOMAIN t = {"size", "slot", "live"} /\ t.size = s /\ t.slot = f /\ t.live = l
  BY DEF Table
<1>2. DOMAIN w = {"size", "slot", "live"} /\ w.size = s /\ w.slot = g /\ w.live = l
  BY DEF Table
<1>3. w = [d \in DOMAIN w |-> w[d]]
  BY DEF Table
<1> HIDE DEF t, w
<1>4. z = [d \in DOMAIN z |-> z[d]] /\ DOMAIN z = DOMAIN t
  BY DEF With
<1>5. z.size = s /\ z.slot = g /\ z.live = l
  BY <1>1 DEF With
<1> HIDE DEF z, g
<1>6. \A d \in {"size", "slot", "live"} : z[d] = w[d]
  BY <1>2, <1>5
<1>7. z = w
  BY <1>1, <1>2, <1>3, <1>4, <1>6
<1>8. QED
  BY <1>7 DEF z, w, t, g

(* A context that counts leaves the table a map.                           *)
LEMMA Counts ==
  ASSUME SymbolAssumption, Hashes, NEW t, IsMap(t), NEW i \in TableSlots(t.size),
         t.slot[i].used, NEW n
  PROVE  IsMap([t EXCEPT !.slot[i] = Counted(t.slot[i], n)])
<1> DEFINE c == Counted(t.slot[i], n)
<1>1. PICK s, f, l : t = Table(s, f, l) /\ IsTable(s, f, l)
  BY DEF IsMap
<1>2. t.size = s /\ t.slot = f
  BY <1>1 DEF Table
<1>3. IsContext(f[i])
  BY <1>1, <1>2, TableParts
<1>4. IsContext(c) /\ c.key = f[i].key /\ c.pr = f[i].pr
  BY <1>2, <1>3, CountedIs
<1> HIDE DEF c
<1>5. IsTable(s, [f EXCEPT ![i] = c], l)
  BY <1>1, <1>2, <1>4, Replaced
<1>6. With(t, i, c) = Table(s, [f EXCEPT ![i] = c], l)
  BY <1>1, WithIs
<1>7. IsMap(With(t, i, c))
  BY <1>5, <1>6 DEF IsMap
<1>8. QED
  BY <1>7, Zenon DEF With, c

-----------------------------------------------------------------------------
(* What a step of the coder does not touch.                                *)
Untouched(x, y) == \A d \in {"ctxs", "done"} : d \in DOMAIN x => d \in DOMAIN y /\ y[d] = x[d]

Tabled(x) == {"ctxs", "done"} \subseteq DOMAIN x /\ IsMap(x.ctxs) /\ x.done \in Nat

(* What is not touched stays a map.                                        *)
LEMMA SameKeeps == ASSUME NEW x, Tabled(x), NEW y, Untouched(x, y) PROVE Tabled(y)
BY DEF Tabled, Untouched

(* Two steps that do not touch it.                                         *)
LEMMA SameTwice == ASSUME NEW x, NEW y, NEW z, Untouched(x, y), Untouched(y, z) PROVE Untouched(x, z)
BY DEF Untouched

(* A failed coder has the table it had.                                    *)
LEMMA FailedSame == ASSUME NEW x PROVE Untouched(x, Lost(x)) /\ Untouched(x, Fatal(x))
BY DEF Untouched, Lost, Fatal

(* A step that is coded leaves the table alone.                            *)
LEMMA CumSame == ASSUME NEW x, NEW fl, NEW fh, NEW ft PROVE Untouched(x, p_cum(x, fl, fh, ft))
BY DEF Untouched, p_cum, Fatal

(* The symbol that is read leaves the table alone.                         *)
LEMMA ReadSame == ASSUME NEW x, NEW v PROVE Untouched(x, [x EXCEPT !.wire = Tail(@), !.v = v])
BY DEF Untouched

(* So does a value.                                                        *)
LEMMA ValueSame == ASSUME NEW x, NEW v PROVE Untouched(x, [x EXCEPT !.v = v])
BY DEF Untouched

(* So do values that are all alike.                                        *)
LEMMA FlatSame == ASSUME NEW x, NEW v, NEW ft PROVE Untouched(x, Flat(x, v, ft))
<1>1. CASE Packing(x)
  <2>1. Flat(x, v, ft) = [p_cum(x, v, v + 1, ft) EXCEPT !.v = v]
    BY <1>1 DEF Flat
  <2> DEFINE y == p_cum(x, v, v + 1, ft)
  <2>2. Untouched(x, y)
    BY CumSame
  <2> HIDE DEF y
  <2>3. Untouched(y, [y EXCEPT !.v = v])
    BY ValueSame
  <2>4. Untouched(x, [y EXCEPT !.v = v])
    BY <2>2, <2>3, SameTwice
  <2>5. QED
    BY <2>1, <2>4 DEF y
<1>2. CASE ~Packing(x)
  <2> DEFINE w == Head(x.wire).fl
             y == [x EXCEPT !.wire = Tail(@), !.v = w]
  <2>1. Flat(x, v, ft) = Lost(x) \/ Flat(x, v, ft) = y
    BY <1>2 DEF Flat, Targeted
  <2>2. Untouched(x, y)
    BY ReadSame
  <2>3. Untouched(x, Lost(x))
    BY FailedSame
  <2> HIDE DEF y
  <2>4. QED
    BY <2>1, <2>2, <2>3
<1>3. QED
  BY <1>1, <1>2

(* A symbol of a context counts in the table, in its slot.                 *)
LEMMA CodeKeeps ==
  ASSUME SymbolAssumption, Hashes, NEW x, Tabled(x), NEW key, NEW pr, NEW v
  PROVE  Tabled(ctx_code(x, key, pr, v))
<1> DEFINE a == ctx_find(x.ctxs, key, pr)
           c == a.t.slot[a.at]
           t == Clamp(v, Len(pr.f))
           Updated(y) == IF y.mode = x.mode
                           THEN [y EXCEPT !.ctxs = [a.t EXCEPT !.slot[a.at] = Counted(c, y.v + 1)]]
                         ELSE y
           done == [p_cum(x, FirstOf(c, t + 1), FirstOf(c, t + 1) + c.f[t + 1], pr.tot + c.tot)
                       EXCEPT !.v = t]
           w == Symbol(c, Head(x.wire).fl) - 1
           read == [x EXCEPT !.wire = Tail(@), !.v = w]
           z == ctx_code(x, key, pr, v)
<1>1. z = x \/ z = Updated(done) \/ z = Updated(read) \/ z = Updated(Lost(x))
  <2>1. CASE x.mode \notin {"pack", "unpack"}
    BY <2>1 DEF ctx_code
  <2>2. CASE x.mode \in {"pack", "unpack"} /\ Packing(x)
    BY <2>2 DEF ctx_code
  <2>3. CASE x.mode \in {"pack", "unpack"} /\ ~Packing(x)
    <3> DEFINE step == Head(x.wire)
               bad == x.wire = <<>> \/ x.mode # "unpack" \/ "fl" \notin DOMAIN step
               fits == /\ step.ft = pr.tot + c.tot /\ Symbol(c, step.fh - 1) - 1 = w
                       /\ <<FirstOf(c, w + 1), FirstOf(c, w + 1) + c.f[w + 1]>> = <<step.fl, step.fh>>
               y == IF bad THEN Lost(x) ELSE IF fits THEN read ELSE Lost(x)
    <3>1. z = Updated(y)
      BY <2>3, ZenonT(60) DEF ctx_code, Targeted
    <3>2. y = read \/ y = Lost(x)
      OBVIOUS
    <3> HIDE DEF y, z, Updated, read
    <3>3. QED
      BY <3>1, <3>2
  <2>4. QED
    BY <2>1, <2>2, <2>3
<1>2. Untouched(x, done)
  <2> DEFINE y == p_cum(x, FirstOf(c, t + 1), FirstOf(c, t + 1) + c.f[t + 1], pr.tot + c.tot)
  <2>1. Untouched(x, y)
    BY CumSame
  <2> HIDE DEF y, t
  <2>2. Untouched(y, [y EXCEPT !.v = t])
    BY ValueSame
  <2>3. Untouched(x, [y EXCEPT !.v = t])
    BY <2>1, <2>2, SameTwice
  <2>4. QED
    BY <2>3 DEF y
<1>3. Untouched(x, read) /\ Untouched(x, Lost(x))
  BY ReadSame, FailedSame
<1>4. IsMap(a.t) /\ a.at \in TableSlots(a.t.size) /\ c.used
  <2>1. IsMap(x.ctxs)
    BY DEF Tabled
  <2>2. QED
    BY <2>1, Finds
<1> HIDE DEF a, done, read, z
<1>5. ASSUME NEW y, Untouched(x, y) PROVE Tabled(Updated(y))
  <2>1. IsMap([a.t EXCEPT !.slot[a.at] = Counted(c, y.v + 1)])
    BY <1>4, Counts
  <2> DEFINE u == [a.t EXCEPT !.slot[a.at] = Counted(c, y.v + 1)]
  <2> HIDE DEF u
  <2>2. Tabled(y)
    BY <1>5, SameKeeps
  <2>3. Tabled([y EXCEPT !.ctxs = u])
    BY <2>1, <2>2 DEF Tabled, u
  <2>4. QED
    BY <2>2, <2>3 DEF u
<1>6. Tabled(Updated(done)) /\ Tabled(Updated(read)) /\ Tabled(Updated(Lost(x)))
  BY <1>2, <1>3, <1>5
<1> HIDE DEF Updated
<1>7. Tabled(z)
  BY <1>1, <1>6
<1>8. QED
  BY <1>7 DEF z

(* The raw bits of a number are coded in times, one after another.         *)
LEMMA RawSame ==
  ASSUME SymbolAssumption, NEW x, NEW v, NEW nbits \in Nat
  PROVE  Untouched(x, p_raw(x, v, nbits))
<1> DEFINE N == (nbits + RawBits - 1) \div RawBits
           low(i) == IF i * RawBits < nbits THEN nbits - i * RawBits ELSE 0
           F(i, u) == [Flat(u, (v \div 2 ^ low(i)) % 2 ^ (low(i - 1) - low(i)), 2 ^ (low(i - 1) - low(i)))
                         EXCEPT !.v = u.v + @ * 2 ^ low(i)]
           z == [x EXCEPT !.v = 0]
           Is(q, n) == q = [k \in 0 .. n |-> IF k = 0 THEN z ELSE F(k, q[k - 1])]
           all == CHOOSE q : Is(q, N)
<1>1. N \in Nat
  <2>1. RawBits \in Nat /\ RawBits > 0
    BY DEF SymbolAssumption
  <2>2. nbits + RawBits - 1 \in Nat
    BY <2>1
  <2> DEFINE m == nbits + RawBits - 1
  <2> HIDE DEF m
  <2>3. m \div RawBits \in Nat
    BY <2>1, <2>2, Shared DEF m
  <2>4. QED
    BY <2>3 DEF m
<1>2. p_raw(x, v, nbits) = all[N]
  BY Zenon DEF p_raw
<1>3. \A k, u : Untouched(u, F(k, u))
  <2>1. ASSUME NEW k, NEW u PROVE Untouched(u, F(k, u))
    <3> DEFINE w == Flat(u, (v \div 2 ^ low(k)) % 2 ^ (low(k - 1) - low(k)), 2 ^ (low(k - 1) - low(k)))
               g == u.v + w.v * 2 ^ low(k)
    <3>1. Untouched(u, w)
      BY FlatSame
    <3>2. F(k, u) = [w EXCEPT !.v = g]
      OBVIOUS
    <3> HIDE DEF w, g, F
    <3>3. Untouched(w, [w EXCEPT !.v = g])
      BY ValueSame
    <3>4. QED
      BY <3>1, <3>2, <3>3, SameTwice
  <2>2. QED
    BY <2>1
<1>4. Untouched(x, z)
  BY ValueSame
<1> HIDE DEF N, z
<1>5. N \in Nat
  BY <1>1 DEF N
<1>6. \E q : Is(q, N)
  <2> HIDE DEF F
  <2> DEFINE D == {n \in Nat : \E q : Is(q, n)}
  <2>1. 0 \in D
    <3>1. Is([k \in 0 .. 0 |-> z], 0)
      OBVIOUS
    <3>2. QED
      BY <3>1
  <2>2. ASSUME NEW n \in Nat, n \in D PROVE n + 1 \in D
    <3>1. PICK q : Is(q, n)
      BY <2>2
    <3> DEFINE e == F(n + 1, q[n])
               p == [k \in 0 .. n + 1 |-> IF k <= n THEN q[k] ELSE e]
    <3>2. \A k \in 0 .. n : p[k] = q[k]
      OBVIOUS
    <3>3. p[n + 1] = e
      OBVIOUS
    <3>4. \A k \in 0 .. n + 1 : p[k] = IF k = 0 THEN z ELSE F(k, p[k - 1])
      <4>1. ASSUME NEW k \in 0 .. n + 1 PROVE p[k] = IF k = 0 THEN z ELSE F(k, p[k - 1])
        <5>1. CASE k = n + 1
          <6>1. k # 0 /\ k - 1 = n /\ n \in 0 .. n
            BY <5>1
          <6>2. QED
            BY <3>2, <3>3, <5>1, <6>1
        <5>2. CASE k # n + 1
          <6>1. k \in 0 .. n /\ (k # 0 => k - 1 \in 0 .. n)
            BY <5>2
          <6>2. q[k] = IF k = 0 THEN z ELSE F(k, q[k - 1])
            BY <3>1, <6>1
          <6>3. QED
            BY <3>2, <6>1, <6>2
        <5>3. QED
          BY <5>1, <5>2
      <4>2. QED
        BY <4>1
    <3>5. p = [k \in 0 .. n + 1 |-> p[k]]
      OBVIOUS
    <3> HIDE DEF p
    <3>6. Is(p, n + 1)
      BY <3>4, <3>5
    <3>7. QED
      BY <3>6
  <2> HIDE DEF D
  <2>3. \A n \in Nat : n \in D
    BY <2>1, <2>2, Inducts
  <2>4. QED
    BY <1>5, <2>3 DEF D
<1>7. Is(all, N)
  <2> HIDE DEF Is
  <2>1. QED
    BY <1>6
<1> HIDE DEF all
<1>8. all[0] = z /\ \A k \in 1 .. N : all[k] = F(k, all[k - 1])
  <2> HIDE DEF F
  <2>1. \A k \in 0 .. N : all[k] = IF k = 0 THEN z ELSE F(k, all[k - 1])
    BY <1>7
  <2>2. 0 \in 0 .. N /\ \A k \in 1 .. N : k \in 0 .. N /\ k # 0
    BY <1>5
  <2>3. QED
    BY <2>1, <2>2
<1> HIDE DEF F
<1> DEFINE D == {k \in Nat : k <= N => Untouched(x, all[k])}
<1>9. 0 \in D
  BY <1>4, <1>8
<1>10. ASSUME NEW k \in Nat, k \in D PROVE k + 1 \in D
  <2> SUFFICES ASSUME k + 1 <= N PROVE Untouched(x, all[k + 1])
    OBVIOUS
  <2>1. k + 1 \in 1 .. N /\ (k + 1) - 1 = k /\ Untouched(x, all[k])
    BY <1>5, <1>10
  <2>2. all[k + 1] = F(k + 1, all[k])
    BY <1>8, <2>1
  <2>3. Untouched(all[k], F(k + 1, all[k]))
    BY <1>3
  <2>4. QED
    BY <2>1, <2>2, <2>3, SameTwice
<1> HIDE DEF D
<1>11. \A k \in Nat : k \in D
  BY <1>9, <1>10, Inducts
<1>12. Untouched(x, all[N])
  BY <1>5, <1>11 DEF D
<1>13. QED
  BY <1>2, <1>12

(* A number of bits is a number.                                           *)
LEMMA ilogIn == ASSUME NEW v PROVE ilog(v) \in Nat
<1> DEFINE S == {n \in 0 .. 31 : 2 * n <= v /\ 2 ^ n <= v}
<1>1. IsFiniteSet(0 .. 31)
  <2>1. 0 \in Int /\ 31 \in Int
    OBVIOUS
  <2>2. QED
    BY <2>1, FS_Interval
<1>2. S \subseteq 0 .. 31
  OBVIOUS
<1>3. ilog(v) = Cardinality(S)
  BY DEF ilog
<1> HIDE DEF S
<1>4. IsFiniteSet(S)
  BY <1>1, <1>2, FS_Subset
<1>5. QED
  BY <1>3, <1>4, FS_CardinalityType

(* A uniform value in two parts leaves the table alone.                    *)
LEMMA UniformSplitSame ==
  ASSUME SymbolAssumption, NEW x, NEW v, NEW t, NEW low \in Nat
  PROVE  Untouched(x, UniformSplit(x, v, t, low))
<1> DEFINE y == Flat(x, v \div 2 ^ low, t \div 2 ^ low + 1)
           w == p_raw(y, v % 2 ^ low, low)
           g == IF y.v * 2 ^ low + w.v > t THEN t ELSE y.v * 2 ^ low + w.v
<1>1. UniformSplit(x, v, t, low) = [w EXCEPT !.v = g]
  BY DEF UniformSplit
<1>2. Untouched(x, y)
  BY FlatSame
<1> HIDE DEF y
<1>3. Untouched(y, w)
  BY RawSame
<1> HIDE DEF w, g
<1>4. Untouched(w, [w EXCEPT !.v = g])
  BY ValueSame
<1>5. Untouched(x, [w EXCEPT !.v = g])
  BY <1>2, <1>3, <1>4, SameTwice
<1>6. QED
  BY <1>1, <1>5

(* So does any uniform value.                                              *)
LEMMA UniformSame ==
  ASSUME SymbolAssumption, NEW x, NEW v, NEW V
  PROVE  Untouched(x, p_uniform(x, v, V))
<1> DEFINE n == ilog(V - 1)
<1>1. n \in Nat
  BY ilogIn
<1>2. \/ p_uniform(x, v, V) = [x EXCEPT !.v = 0] \/ p_uniform(x, v, V) = Fatal(x)
      \/ p_uniform(x, v, V) = Flat(x, v, V)
      \/ n > HeadBits /\ p_uniform(x, v, V) = UniformSplit(x, v, V - 1, n - HeadBits)
  <2>1. CASE V <= 1
    BY <2>1, Zenon DEF p_uniform
  <2>2. CASE ~(V <= 1) /\ Packing(x) /\ v >= V
    BY <2>2, Zenon DEF p_uniform
  <2>3. CASE ~(V <= 1) /\ ~(Packing(x) /\ v >= V) /\ n > HeadBits
    BY <2>3, Zenon DEF p_uniform
  <2>4. CASE ~(V <= 1) /\ ~(Packing(x) /\ v >= V) /\ ~(n > HeadBits)
    BY <2>4, Zenon DEF p_uniform
  <2>5. QED
    BY <2>1, <2>2, <2>3, <2>4
<1> HIDE DEF n
<1>3. ASSUME n > HeadBits PROVE Untouched(x, UniformSplit(x, v, V - 1, n - HeadBits))
  <2>1. n - HeadBits \in Nat
    BY <1>1, <1>3 DEF SymbolAssumption
  <2>2. QED
    BY <2>1, UniformSplitSame
<1>4. Untouched(x, [x EXCEPT !.v = 0]) /\ Untouched(x, Fatal(x)) /\ Untouched(x, Flat(x, v, V))
  BY ValueSame, FailedSame, FlatSame
<1>5. QED
  BY <1>2, <1>3, <1>4

(* Bits have slots of their own.                                           *)
LEMMA BitSame ==
  ASSUME NEW x, NEW key, NEW init, NEW i, NEW bit
  PROVE  /\ Untouched(x, WithSlot(x, key, init)) /\ Untouched(x, SlotBit(x, i, bit))
         /\ Untouched(x, om_bit(x, key, init, bit))
<1>1. \A u : Untouched(u, WithSlot(u, key, init))
  BY DEF Untouched, WithSlot, Fatal
<1>2. \A u, j, b, p : Untouched(u, p_bit(u, j, p, b))
  <2>1. ASSUME NEW u, NEW j, NEW b, NEW p PROVE Untouched(u, p_bit(u, j, p, b))
    <3> DEFINE told == Head(u.wire).bit
               z == [u EXCEPT !.wire = Tail(@)]
               Adapted(y, c) == [y EXCEPT !.v = c, !.bins[j].p = rc_adapt(p, c)]
               w == [u EXCEPT !.wire = Append(@, [p |-> p, bit |-> b])]
               y == p_bit(u, j, p, b)
    <3>1. y = Adapted(w, b) \/ y = Lost(u) \/ y = Adapted(z, told)
      <4>1. CASE Packing(u)
        BY <4>1, Zenon DEF p_bit
      <4>2. CASE ~Packing(u)
        BY <4>2 DEF p_bit
      <4>3. QED
        BY <4>1, <4>2
    <3> HIDE DEF y
    <3>2. \A q, c : Untouched(q, Adapted(q, c))
      BY DEF Untouched
    <3>3. Untouched(u, w) /\ Untouched(u, z) /\ Untouched(u, Lost(u))
      BY DEF Untouched, Lost
    <3> HIDE DEF Adapted, w, z
    <3>4. Untouched(w, Adapted(w, b)) /\ Untouched(z, Adapted(z, told))
      BY <3>2
    <3>5. Untouched(u, y)
      BY <3>1, <3>3, <3>4, SameTwice
    <3>6. QED
      BY <3>5 DEF y
  <2>2. QED
    BY <2>1
<1>3. \A u, j, b : Untouched(u, SlotBit(u, j, b))
  BY <1>2 DEF SlotBit, Untouched
<1>4. om_bit(x, key, init, bit)
        = SlotBit(WithSlot(x, key, init), bin_slot(WithSlot(x, key, init).bins, key), bit)
  BY DEF om_bit
<1>5. Untouched(x, om_bit(x, key, init, bit))
  BY <1>1, <1>3, <1>4, SameTwice
<1>6. QED
  BY <1>1, <1>3, <1>5

-----------------------------------------------------------------------------
(* A part of a vector of pulses.                                           *)
LEMMA LeafSame ==
  ASSUME SymbolAssumption, NEW x, NEW p
  PROVE  Untouched(x, LeafCoded(x, p))
<1> DEFINE v == IF Packing(x) THEN pvq_enc(x.ut, p.n, p.k, p.y) ELSE 0
           V == pvq_V(x.ut, p.n, p.k)
           z == p_uniform(x, v, V)
           g == z.y \o pvq_dec(x.ut, p.n, p.k, z.v)
<1>1. LeafCoded(x, p) = [z EXCEPT !.y = g] \/ LeafCoded(x, p) = z
  BY DEF LeafCoded
<1> HIDE DEF v, V
<1>2. Untouched(x, z)
  BY UniformSame
<1> HIDE DEF z, g
<1>3. Untouched(z, [z EXCEPT !.y = g])
  BY DEF Untouched
<1>4. QED
  BY <1>1, <1>2, <1>3, SameTwice

(* How a vector splits has a context.                                      *)
LEMMA SplitKeeps ==
  ASSUME SymbolAssumption, Hashes, NEW x, Tabled(x), NEW p, NEW band
  PROVE  Tabled(SplitCoded(x, p, band))
<1> DEFINE key == <<"halves", p.dep, band>>
           pr == prior_split(x.ut, p.n \div 2, p.n - p.n \div 2, p.k)
           v == IF Packing(x) THEN Magnitudes(SubSeq(p.y, 1, p.n \div 2)) ELSE 0
<1>1. SplitCoded(x, p, band) = ctx_code(x, key, pr, v)
  BY DEF SplitCoded
<1> HIDE DEF key, pr, v
<1>2. QED
  BY <1>1, CodeKeeps

(* A vector of pulses, part by part.                                       *)
LEMMA TreeKeeps ==
  ASSUME SymbolAssumption, Hashes, NEW x, Tabled(x), NEW band, NEW m \in Nat, NEW h, NEW y
  PROVE  Tabled(pvq_tree(x, band, m, h, y))
<1> DEFINE N == 2 * m
           Walk(u, todo) == [x |-> u, todo |-> todo]
           Split(u, p, todo) == Walk(u, HalvesOf(p, u.v) \o todo)
           Of(u, p, todo) == IF Leaf(p) THEN Walk(LeafCoded(u, p), todo)
                             ELSE Split(SplitCoded(u, p, band), p, todo)
           F(i, w) == IF w.todo = <<>> \/ w.x.mode # x.mode THEN w
                      ELSE Of(w.x, Head(w.todo), Tail(w.todo))
           z == Walk([x EXCEPT !.y = <<>>], <<Part(m, h, 0, y)>>)
           Is(q, n) == q = [k \in 0 .. n |-> IF k = 0 THEN z ELSE F(k, q[k - 1])]
           all == CHOOSE q : Is(q, N)
<1>1. N \in Nat
  OBVIOUS
<1>2. pvq_tree(x, band, m, h, y) = all[N].x
  BY Zenon DEF pvq_tree
<1>3. ASSUME NEW k, NEW w, Tabled(w.x) PROVE Tabled(F(k, w).x)
  <2> DEFINE p == Head(w.todo)
             leaf == LeafCoded(w.x, p)
             split == SplitCoded(w.x, p, band)
  <2>1. F(k, w) = w \/ F(k, w).x = leaf \/ F(k, w).x = split
    OBVIOUS
  <2>2. Tabled(leaf)
    <3>1. Untouched(w.x, leaf)
      BY LeafSame
    <3>2. QED
      BY <1>3, <3>1, SameKeeps
  <2>3. Tabled(split)
    BY <1>3, SplitKeeps
  <2> HIDE DEF F, leaf, split
  <2>4. QED
    BY <1>3, <2>1, <2>2, <2>3
<1>4. Tabled(z.x)
  <2>1. Untouched(x, [x EXCEPT !.y = <<>>])
    BY DEF Untouched
  <2>2. QED
    BY <2>1, SameKeeps
<1> HIDE DEF N, z
<1>5. N \in Nat
  BY <1>1 DEF N
<1>6. \E q : Is(q, N)
  <2> HIDE DEF F
  <2> DEFINE D == {n \in Nat : \E q : Is(q, n)}
  <2>1. 0 \in D
    <3>1. Is([k \in 0 .. 0 |-> z], 0)
      OBVIOUS
    <3>2. QED
      BY <3>1
  <2>2. ASSUME NEW n \in Nat, n \in D PROVE n + 1 \in D
    <3>1. PICK q : Is(q, n)
      BY <2>2
    <3> DEFINE e == F(n + 1, q[n])
               p == [k \in 0 .. n + 1 |-> IF k <= n THEN q[k] ELSE e]
    <3>2. \A k \in 0 .. n : p[k] = q[k]
      OBVIOUS
    <3>3. p[n + 1] = e
      OBVIOUS
    <3>4. \A k \in 0 .. n + 1 : p[k] = IF k = 0 THEN z ELSE F(k, p[k - 1])
      <4>1. ASSUME NEW k \in 0 .. n + 1 PROVE p[k] = IF k = 0 THEN z ELSE F(k, p[k - 1])
        <5>1. CASE k = n + 1
          <6>1. k # 0 /\ k - 1 = n /\ n \in 0 .. n
            BY <5>1
          <6>2. QED
            BY <3>2, <3>3, <5>1, <6>1
        <5>2. CASE k # n + 1
          <6>1. k \in 0 .. n /\ (k # 0 => k - 1 \in 0 .. n)
            BY <5>2
          <6>2. q[k] = IF k = 0 THEN z ELSE F(k, q[k - 1])
            BY <3>1, <6>1
          <6>3. QED
            BY <3>2, <6>1, <6>2
        <5>3. QED
          BY <5>1, <5>2
      <4>2. QED
        BY <4>1
    <3>5. p = [k \in 0 .. n + 1 |-> p[k]]
      OBVIOUS
    <3> HIDE DEF p
    <3>6. Is(p, n + 1)
      BY <3>4, <3>5
    <3>7. QED
      BY <3>6
  <2> HIDE DEF D
  <2>3. \A n \in Nat : n \in D
    BY <2>1, <2>2, Inducts
  <2>4. QED
    BY <1>5, <2>3 DEF D
<1>7. Is(all, N)
  <2> HIDE DEF Is
  <2>1. QED
    BY <1>6
<1> HIDE DEF all
<1>8. all[0] = z /\ \A k \in 1 .. N : all[k] = F(k, all[k - 1])
  <2> HIDE DEF F
  <2>1. \A k \in 0 .. N : all[k] = IF k = 0 THEN z ELSE F(k, all[k - 1])
    BY <1>7
  <2>2. 0 \in 0 .. N /\ \A k \in 1 .. N : k \in 0 .. N /\ k # 0
    BY <1>5
  <2>3. QED
    BY <2>1, <2>2
<1> HIDE DEF F
<1> DEFINE D == {k \in Nat : k <= N => Tabled(all[k].x)}
<1>9. 0 \in D
  BY <1>4, <1>8
<1>10. ASSUME NEW k \in Nat, k \in D PROVE k + 1 \in D
  <2> SUFFICES ASSUME k + 1 <= N PROVE Tabled(all[k + 1].x)
    OBVIOUS
  <2>1. k + 1 \in 1 .. N /\ (k + 1) - 1 = k /\ Tabled(all[k].x)
    BY <1>5, <1>10
  <2>2. all[k + 1] = F(k + 1, all[k])
    BY <1>8, <2>1
  <2>3. Tabled(F(k + 1, all[k]).x)
    BY <1>3, <2>1
  <2>4. QED
    BY <2>2, <2>3
<1> HIDE DEF D
<1>11. \A k \in Nat : k \in D
  BY <1>9, <1>10, Inducts
<1>12. Tabled(all[N].x)
  BY <1>5, <1>11 DEF D
<1>13. QED
  BY <1>2, <1>12

-----------------------------------------------------------------------------
(* The kinds of symbols: each codes, and then keeps a history.             *)
LEMMA IcdfKeeps ==
  ASSUME SymbolAssumption, Hashes, NEW x, Tabled(x), NEW op
  PROVE  Tabled(om_icdf(x, op))
<1> DEFINE u == ctx_code(x, <<"icdf", op.table, op.site, HistoryOf(x.site, op.site)>>,
                         prior_icdf(op.table), op.v)
           g == Set(u.site, op.site, IF u.v > 7 THEN 7 ELSE u.v)
<1>1. om_icdf(x, op) = [u EXCEPT !.site = g]
  BY Zenon DEF om_icdf
<1>2. Tabled(u)
  BY CodeKeeps
<1> HIDE DEF u, g
<1>3. Untouched(u, [u EXCEPT !.site = g])
  BY DEF Untouched
<1>4. QED
  BY <1>1, <1>2, <1>3, SameKeeps

(* Bits with a chance (om_logp).                                           *)
LEMMA LogpKeeps ==
  ASSUME NEW x, Tabled(x), NEW op
  PROVE  Tabled(om_logp(x, op))
<1> DEFINE key == <<"logp", op.site, op.logp, HistoryOf(x.site, op.site)>>
           u == om_bit(x, key, Chance - 1 - (Chance \div 2 ^ op.logp), op.v)
           g == Set(u.site, op.site, (2 * HistoryOf(x.site, op.site) + u.v) % 4)
<1>1. om_logp(x, op) = [u EXCEPT !.site = g]
  BY Zenon DEF om_logp
<1>2. Tabled(u)
  <2>1. Untouched(x, u)
    BY BitSame
  <2> HIDE DEF u
  <2>2. QED
    BY <2>1, SameKeeps
<1> HIDE DEF u, g
<1>3. Untouched(u, [u EXCEPT !.site = g])
  BY DEF Untouched
<1>4. QED
  BY <1>1, <1>2, <1>3, SameKeeps

(* Coarse energy, with its escape (om_laplace).                            *)
LEMMA LaplaceKeeps ==
  ASSUME SymbolAssumption, Hashes, NEW x, Tabled(x), NEW op
  PROVE  Tabled(om_laplace(x, op))
<1> DEFINE last == 2 * LapWindow + 1
           key == <<"laplace", op.b, op.c, op.intra, op.LM, q5of(HistoryOf(x.qi, <<op.b, op.c>>)),
                    q5of(x.bandqi[op.c + 1]),
                    IF op.c = 1 /\ x.c0qi[1] = op.b THEN 1 + q5of(x.c0qi[2]) ELSE 0>>
           sym == IF op.v + LapWindow \in 0 .. last - 1 THEN op.v + LapWindow ELSE last
           u == ctx_code(x, key, prior_laplace(op.fs0, op.decay), sym)
           bit == om_bit(u, <<"escape">>, Chance \div 2, IF op.v < 0 THEN 1 ELSE 0)
           mag == p_uniform(bit, Mag(op.v), 2 ^ RawBits)
           n == IF bit.v = 1 THEN -mag.v ELSE mag.v
           d == u.v - LapWindow
           z == IF u.v = last THEN [mag EXCEPT !.v = n] ELSE [u EXCEPT !.v = d]
           q == Set(z.qi, <<op.b, op.c>>, z.v)
           c == IF op.c = 0 THEN <<op.b, z.v>> ELSE z.c0qi
           w == [z EXCEPT !.qi = q, !.bandqi[op.c + 1] = z.v, !.c0qi = c]
<1>1. om_laplace(x, op) = w
  BY Zenon DEF om_laplace
<1>2. Tabled(u)
  BY CodeKeeps
<1> HIDE DEF u, d
<1>3. Tabled([u EXCEPT !.v = d])
  BY <1>2, ValueSame, SameKeeps
<1>4. Tabled([mag EXCEPT !.v = n])
  <2>1. Untouched(u, bit)
    BY BitSame
  <2> HIDE DEF bit
  <2>2. Untouched(bit, mag)
    BY UniformSame
  <2> HIDE DEF mag, n
  <2>3. Untouched(mag, [mag EXCEPT !.v = n])
    BY ValueSame
  <2>4. QED
    BY <1>2, <2>1, <2>2, <2>3, SameKeeps
<1> HIDE DEF mag, n
<1>5. Tabled(z)
  BY <1>3, <1>4
<1> HIDE DEF z, q, c
<1>6. Untouched(z, w)
  BY DEF Untouched
<1>7. QED
  BY <1>1, <1>5, <1>6, SameKeeps

(* Angles (om_theta).                                                      *)
LEMMA ThetaKeeps ==
  ASSUME SymbolAssumption, Hashes, NEW x, Tabled(x), NEW op
  PROVE  Tabled(om_theta(x, op))
<1> DEFINE qn == AtLeastOne(op.qn)
           key == <<"theta", op.b, op.step, bktN(op.n), qn, HistoryOf(x.theta, op.b) % 8>>
           u == ctx_code(x, key, prior_theta(op.step, qn), op.v)
           g == Set(u.theta, op.b, (u.v * 8) \div (qn + 1))
<1>1. om_theta(x, op) = [u EXCEPT !.theta = g]
  BY Zenon DEF om_theta
<1>2. Tabled(u)
  BY CodeKeeps
<1> HIDE DEF u, g
<1>3. Untouched(u, [u EXCEPT !.theta = g])
  BY DEF Untouched
<1>4. QED
  BY <1>1, <1>2, <1>3, SameKeeps

(* An index of pulses: by halves, or flat.                                 *)
LEMMA PulsesKeep ==
  ASSUME SymbolAssumption, Hashes, NEW x, Tabled(x), NEW op
  PROVE  Tabled(om_pulses(x, op))
<1> DEFINE g == <<op.b, bktN(x.n), bktK(x.k)>>
           known == g \in DOMAIN x.pvq
           last == IF known THEN x.pvq[g].v ELSE 0
           again == known /\ x.pvq[g].V = op.V
           key == <<"again">> \o g
           Kept(z) == [z EXCEPT !.pvq = Set(@, g, [v |-> z.v, V |-> op.V]), !.k = 0]
           Indexed(z) == IF z.mode = x.mode THEN [z EXCEPT !.v = pvq_enc(x.ut, x.n, x.k, z.y)] ELSE z
           Shifted(z) == IF again /\ ~Packing(x) /\ z.v >= last THEN [z EXCEPT !.v = @ + 1]
                         ELSE IF Packing(x) THEN [z EXCEPT !.v = op.v] ELSE z
           vector == IF Packing(x) THEN pvq_dec(x.ut, x.n, x.k, op.v) ELSE [j \in 1 .. x.n |-> 0]
           index == IF again THEN WithoutLast(op.v, last) ELSE op.v
           alphabet == IF again THEN op.V - 1 ELSE op.V
           Whole(z) == IF Geometry(x, op.V) THEN Indexed(pvq_tree(z, op.b, x.n, x.k, vector))
                       ELSE Shifted(p_uniform(z, index, alphabet))
           Repeats(z) == IF z.v = 1 THEN [z EXCEPT !.v = last, !.k = 0] ELSE Kept(Whole(z))
           Heard(z) == IF ~again THEN Kept(Whole(z))
                      ELSE Repeats(SlotBit(z, bin_slot(z.bins, key), IF op.v = last THEN 1 ELSE 0))
           start == WithSlot(x, key, Chance - 2)
<1>1. om_pulses(x, op) = Heard(start)
  BY Zenon DEF om_pulses
<1> HIDE DEF g, known, last, again, key, vector, index, alphabet
<1>2. ASSUME NEW z PROVE Untouched(z, Kept(z)) /\ Untouched(z, Indexed(z)) /\ Untouched(z, Shifted(z))
  BY DEF Untouched
<1>3. ASSUME NEW z, Tabled(z) PROVE Tabled(Whole(z))
  <2> DEFINE tree == pvq_tree(z, op.b, x.n, x.k, vector)
             flat == p_uniform(z, index, alphabet)
  <2>1. CASE Geometry(x, op.V)
    <3>1. x.n \in Nat
      BY <2>1 DEF Geometry, SymbolAssumption
    <3>2. Tabled(tree)
      BY <1>3, <3>1, TreeKeeps
    <3> HIDE DEF tree
    <3>3. Whole(z) = Indexed(tree)
      BY <2>1 DEF tree
    <3> HIDE DEF Indexed, Whole
    <3>4. Untouched(tree, Indexed(tree))
      BY <1>2
    <3>5. QED
      BY <3>2, <3>3, <3>4, SameKeeps
  <2>2. CASE ~Geometry(x, op.V)
    <3>1. Untouched(z, flat)
      BY UniformSame
    <3> HIDE DEF flat
    <3>2. Whole(z) = Shifted(flat)
      BY <2>2 DEF flat
    <3> HIDE DEF Shifted, Whole
    <3>3. Untouched(flat, Shifted(flat))
      BY <1>2
    <3>4. QED
      BY <1>3, <3>1, <3>2, <3>3, SameKeeps
  <2>3. QED
    BY <2>1, <2>2
<1> HIDE DEF Whole
<1>4. ASSUME NEW z, Tabled(z) PROVE Tabled(Kept(Whole(z)))
  <2> DEFINE w == Whole(z)
  <2>1. Tabled(w)
    BY <1>3, <1>4
  <2> HIDE DEF w, Kept
  <2>2. Untouched(w, Kept(w))
    BY <1>2
  <2>3. QED
    BY <2>1, <2>2, SameKeeps DEF w
<1> HIDE DEF Kept
<1>5. ASSUME NEW z, Tabled(z) PROVE Tabled(Repeats(z))
  <2>1. Untouched(z, [z EXCEPT !.v = last, !.k = 0])
    BY DEF Untouched
  <2>2. QED
    BY <1>4, <1>5, <2>1, SameKeeps
<1> HIDE DEF Repeats
<1>6. Tabled(start)
  <2>1. Untouched(x, start)
    BY BitSame
  <2> HIDE DEF start
  <2>2. QED
    BY <2>1, SameKeeps
<1> HIDE DEF start
<1>7. Tabled(Heard(start))
  <2> DEFINE w == SlotBit(start, bin_slot(start.bins, key), IF op.v = last THEN 1 ELSE 0)
  <2>1. Untouched(start, w)
    BY BitSame
  <2>2. Tabled(w)
    <3> HIDE DEF w
    <3>1. QED
      BY <1>6, <2>1, SameKeeps
  <2>3. Heard(start) = Kept(Whole(start)) \/ Heard(start) = Repeats(w)
    OBVIOUS
  <2> HIDE DEF w, Heard
  <2>4. QED
    BY <1>4, <1>5, <1>6, <2>2, <2>3
<1>8. QED
  BY <1>1, <1>7

(* Uniform values (om_uint).                                               *)
LEMMA UintKeeps ==
  ASSUME SymbolAssumption, Hashes, NEW x, Tabled(x), NEW op
  PROVE  Tabled(om_uint(x, op))
<1> DEFINE u == ctx_code(x, <<"uint", op.site, op.V>>, prior_uniform(op.V), op.v)
           w == p_uniform(x, op.v, op.V)
<1>1. om_uint(x, op) = om_pulses(x, op) \/ om_uint(x, op) = u \/ om_uint(x, op) = w
  BY DEF om_uint
<1>2. Tabled(om_pulses(x, op)) /\ Tabled(u)
  BY PulsesKeep, CodeKeeps
<1>3. Tabled(w)
  <2>1. Untouched(x, w)
    BY UniformSame
  <2> HIDE DEF w
  <2>2. QED
    BY <2>1, SameKeeps
<1> HIDE DEF u, w
<1>4. QED
  BY <1>1, <1>2, <1>3

(* Raw bits and fine energy (om_bits).                                     *)
LEMMA BitsKeep ==
  ASSUME SymbolAssumption, Hashes, NEW x, Tabled(x), NEW op, op.nb \in Nat
  PROVE  Tabled(om_bits(x, op))
<1> DEFINE other == IF op.c = 1 /\ x.c0fine[1] = op.b /\ x.c0fine[2] = op.nb
                      THEN 1 + (x.c0fine[3] * 5) \div 2 ^ op.nb ELSE 0
           key == <<"bits", op.b, op.c, op.nb, HistoryOf(x.fine, <<op.b, op.c>>), other>>
           u == ctx_code(x, key, prior_uniform(2 ^ op.nb), op.v)
           g == Set(u.fine, <<op.b, op.c>>, u.v)
           c == IF op.c = 0 THEN <<op.b, op.nb, u.v>> ELSE u.c0fine
           w == p_raw(x, op.v, op.nb)
<1>1. om_bits(x, op) = [u EXCEPT !.fine = g, !.c0fine = c] \/ om_bits(x, op) = w
  BY Zenon DEF om_bits
<1>2. Tabled(u)
  BY CodeKeeps
<1>3. Untouched(x, w)
  BY RawSame
<1> HIDE DEF u, g, c, w
<1>4. Untouched(u, [u EXCEPT !.fine = g, !.c0fine = c])
  BY DEF Untouched
<1>5. QED
  BY <1>1, <1>2, <1>3, <1>4, SameKeeps

(* Whatever is coded, the table is a map.                                  *)
LEMMA OpKeeps ==
  ASSUME SymbolAssumption, Hashes, NEW x, Tabled(x), NEW op, IsOp(op)
  PROVE  Tabled(om_op(x, op))
<1> DEFINE w == WithPulses(x, op)
<1>1. Untouched(x, w)
  BY DEF WithPulses, Untouched
<1> HIDE DEF w
<1>2. Tabled(w)
  BY <1>1, SameKeeps
<1>3. CASE op.kind = "icdf"
  <2>1. om_op(x, op) = om_icdf(x, op)
    BY <1>3 DEF om_op
  <2>2. QED
    BY <2>1, IcdfKeeps
<1>4. CASE op.kind = "logp"
  <2>1. om_op(x, op) = om_logp(x, op)
    BY <1>4 DEF om_op
  <2>2. QED
    BY <2>1, LogpKeeps
<1>5. CASE op.kind = "laplace"
  <2>1. om_op(x, op) = om_laplace(x, op)
    BY <1>5 DEF om_op
  <2>2. QED
    BY <2>1, LaplaceKeeps
<1>6. CASE op.kind = "theta"
  <2>1. om_op(x, op) = om_theta(x, op)
    BY <1>6 DEF om_op
  <2>2. QED
    BY <2>1, ThetaKeeps
<1>7. CASE op.kind = "uint"
  <2>1. om_op(x, op) = om_uint(w, op)
    BY <1>7 DEF om_op, w
  <2>2. QED
    BY <1>2, <2>1, UintKeeps
<1>8. CASE op.kind = "bits"
  <2>1. om_op(x, op) = om_bits(x, op)
    BY <1>8 DEF om_op
  <2>2. op.nb \in Nat
    BY <1>8 DEF IsOp
  <2>3. QED
    BY <2>1, <2>2, BitsKeep
<1>9. QED
  BY <1>3, <1>4, <1>5, <1>6, <1>7, <1>8 DEF IsOp

-----------------------------------------------------------------------------
(* The table of the packer and then of the unpacker is a map; the ops that *)
(* are left to code are ops.                                               *)
SymbolInv == Tabled(model) /\ ops \in SymbolRuns

(* A new model has an empty table.                                         *)
LEMMA NewModel ==
  ASSUME SymbolAssumption, NEW mode
  PROVE  Tabled(om_init(mode))
<1> DEFINE t == ctx_new(FirstSize)
           x == om_init(mode)
<1>1. PICK f : t = Table(FirstSize, f, <<>>) /\ IsTable(FirstSize, f, <<>>)
  BY NewTable DEF SymbolAssumption
<1> HIDE DEF t
<1>2. IsMap(t)
  BY <1>1 DEF IsMap
<1>3. {"ctxs", "done"} \subseteq DOMAIN x /\ x.ctxs = t /\ x.done = 0
  BY DEF om_init, t
<1> HIDE DEF x
<1>4. QED
  BY <1>2, <1>3 DEF Tabled, x

(* A map: each used slot listed once, room left, and every context found.  *)
LEMMA MapIsMap ==
  ASSUME SymbolAssumption, Hashes, SymbolInv
  PROVE  TableIsMap
<1> DEFINE t == model.ctxs
           used == {i \in TableSlots(t.size) : t.slot[i].used}
<1>1. PICK s, f, l : t = Table(s, f, l) /\ IsTable(s, f, l)
  BY DEF SymbolInv, Tabled, IsMap
<1>2. t.size = s /\ t.slot = f /\ t.live = l
  BY <1>1 DEF Table
<1> HIDE DEF t
<1>3. used = {i \in TableSlots(s) : f[i].used}
  BY <1>2
<1>4. Cardinality(used) = Len(l) /\ used = {l[j] : j \in DOMAIN l} /\ Cardinality(used) < s
  <2>1. used = UsedIn(s, f)
    BY <1>3 DEF UsedIn
  <2> HIDE DEF used
  <2>2. QED
    BY <1>1, <2>1, LiveCounted
<1>5. \A i \in used : SlotOf(t, t.slot[i].key, t.slot[i].pr) = i
  BY <1>1, <1>2, <1>3, FoundWhereItIs
<1> HIDE DEF used
<1>6. /\ used = {t.live[j] : j \in DOMAIN t.live} /\ Cardinality(used) = Len(t.live)
      /\ Cardinality(used) < t.size
      /\ \A i \in used : SlotOf(t, t.slot[i].key, t.slot[i].pr) = i
  BY <1>2, <1>4, <1>5
<1>7. QED
  BY <1>6 DEF TableIsMap, used, t

(* What is coded next is an op, and so it is when it is asked for.         *)
LEMMA NextOp ==
  ASSUME SymbolAssumption, SymbolInv, model.done < Len(ops)
  PROVE  IsOp(ops[model.done + 1]) /\ IsOp(Asked(ops[model.done + 1]))
<1> DEFINE n == model.done
           op == ops[n + 1]
<1>1. n \in Nat /\ ops \in Seq({ops[i] : i \in DOMAIN ops}) /\ \A i \in DOMAIN ops : IsOp(ops[i])
  BY DEF SymbolInv, Tabled, SymbolAssumption
<1>2. Len(ops) \in Nat /\ DOMAIN ops = 1 .. Len(ops)
  <2> DEFINE S == {ops[i] : i \in DOMAIN ops}
  <2>1. ops \in Seq(S)
    BY <1>1
  <2> HIDE DEF S
  <2>2. QED
    BY <2>1
<1> HIDE DEF n
<1>3. n + 1 \in DOMAIN ops
  BY <1>1, <1>2 DEF n
<1>4. IsOp(op)
  BY <1>1, <1>3
<1> HIDE DEF op
<1>5. IsOp([op EXCEPT !.v = 0])
  BY <1>4 DEF IsOp
<1>6. QED
  BY <1>4, <1>5 DEF Asked, op, n

(* Packing, turning and unpacking keep the invariant.                      *)
LEMMA SymbolNextKeeps ==
  ASSUME SymbolAssumption, Hashes, SymbolInv, [SymbolNext]_symVars
  PROVE  SymbolInv'
<1>1. ASSUME NEW x, Tabled(x) PROVE Tabled([x EXCEPT !.done = @ + 1])
  <2> DEFINE y == [x EXCEPT !.done = x.done + 1]
  <2>1. "ctxs" \in DOMAIN y /\ "done" \in DOMAIN y /\ y.ctxs = x.ctxs /\ y.done = x.done + 1
    BY <1>1 DEF Tabled
  <2> HIDE DEF y
  <2>2. Tabled(y)
    BY <1>1, <2>1 DEF Tabled
  <2>3. QED
    BY <2>2 DEF y
<1>2. CASE Pack
  <2> DEFINE x == om_op(model, ops[model.done + 1])
  <2>1. model.done < Len(ops) /\ model' = [x EXCEPT !.done = @ + 1] /\ ops' = ops
    BY <1>2 DEF Pack
  <2>2. Tabled(x)
    BY <2>1, NextOp, OpKeeps DEF SymbolInv
  <2> HIDE DEF x
  <2>3. QED
    BY <1>1, <2>1, <2>2 DEF SymbolInv
<1>3. CASE Turn
  <2> DEFINE x == om_init("unpack")
  <2>1. model' = [x EXCEPT !.wire = model.wire] /\ ops' = ops
    BY <1>3 DEF Turn
  <2>2. Tabled(x)
    BY NewModel
  <2> HIDE DEF x
  <2>3. Untouched(x, [x EXCEPT !.wire = model.wire])
    BY DEF Untouched
  <2>4. QED
    BY <2>1, <2>2, <2>3, SameKeeps DEF SymbolInv
<1>4. CASE Unpack
  <2> DEFINE x == om_op(model, Asked(ops[model.done + 1]))
  <2>1. model.done < Len(ops) /\ model' = [x EXCEPT !.done = @ + 1] /\ ops' = ops
    BY <1>4 DEF Unpack
  <2>2. Tabled(x)
    BY <2>1, NextOp, OpKeeps DEF SymbolInv
  <2> HIDE DEF x
  <2>3. QED
    BY <1>1, <2>1, <2>2 DEF SymbolInv
<1>5. CASE UNCHANGED symVars
  BY <1>5 DEF symVars, SymbolInv
<1>6. QED
  BY <1>2, <1>3, <1>4, <1>5 DEF SymbolNext

(* The context table of the packer and of the unpacker is a map whatever   *)
(* collides in it and however often it has grown, for any sizes, alphabets *)
(* and sequences of symbols, if hashes are numbers (ctx_find, ctx_grow).   *)
THEOREM TableStaysMap ==
  ASSUME SymbolAssumption, Hashes
  PROVE  SymbolSpec => []TableIsMap
<1>1. SymbolInit => SymbolInv
  BY NewModel DEF SymbolInit, SymbolInv
<1>2. SymbolInv /\ [SymbolNext]_symVars => SymbolInv'
  BY SymbolNextKeeps
<1>3. SymbolInv => TableIsMap
  BY MapIsMap
<1>4. QED
  BY <1>1, <1>2, <1>3, PTL DEF SymbolSpec

-----------------------------------------------------------------------------
(* Sums of parts of a sequence.                                            *)
Totals(p, f, n) ==
  n \in Nat /\ p \in [0 .. n -> Int] /\ p[0] = 0 /\ \A i \in 1 .. n : f[i] \in Int /\ p[i] = p[i - 1] + f[i]

(* The sums of the first numbers.                                          *)
LEMMA TotalsExist ==
  ASSUME NEW n \in Nat, NEW f, \A i \in 1 .. n : f[i] \in Int
  PROVE  \E p : Totals(p, f, n)
<1> DEFINE D == {m \in Nat : m <= n => \E p : Totals(p, f, m)}
<1>1. 0 \in D
  <2>1. Totals([i \in 0 .. 0 |-> 0], f, 0)
    BY DEF Totals
  <2>2. QED
    BY <2>1
<1>2. ASSUME NEW m \in Nat, m \in D PROVE m + 1 \in D
  <2> SUFFICES ASSUME m + 1 <= n PROVE \E p : Totals(p, f, m + 1)
    OBVIOUS
  <2>1. PICK p : Totals(p, f, m)
    BY <1>2
  <2> DEFINE q == [i \in 0 .. m + 1 |-> IF i <= m THEN p[i] ELSE p[m] + f[m + 1]]
  <2>2. p \in [0 .. m -> Int] /\ p[0] = 0 /\ \A i \in 1 .. m : f[i] \in Int /\ p[i] = p[i - 1] + f[i]
    BY <2>1 DEF Totals
  <2>3. f[m + 1] \in Int
    OBVIOUS
  <2>4. q \in [0 .. m + 1 -> Int] /\ q[0] = 0
    BY <2>2, <2>3
  <2>5. ASSUME NEW i \in 1 .. m + 1 PROVE f[i] \in Int /\ q[i] = q[i - 1] + f[i]
    <3>1. CASE i <= m
      BY <2>2, <3>1
    <3>2. CASE i = m + 1
      BY <3>2
    <3>3. QED
      BY <3>1, <3>2
  <2> HIDE DEF q
  <2>6. Totals(q, f, m + 1)
    BY <2>4, <2>5 DEF Totals
  <2>7. QED
    BY <2>6
<1> HIDE DEF D
<1>3. \A m \in Nat : m \in D
  BY <1>1, <1>2, Inducts
<1>4. QED
  BY <1>3 DEF D

(* The sum of a part is the difference of two of them.                     *)
LEMMA BetweenIs ==
  ASSUME NEW n, NEW f, NEW p, Totals(p, f, n), NEW a \in 1 .. n + 1, NEW b \in a - 1 .. n
  PROVE  Between(f, a, b) = p[b] - p[a - 1]
<1> DEFINE Is(s) == s = [i \in a - 1 .. b |-> IF i < a THEN 0 ELSE s[i - 1] + f[i]]
           sum == CHOOSE s : Is(s)
           q == [i \in a - 1 .. b |-> p[i] - p[a - 1]]
<1>1. /\ n \in Nat /\ p \in [0 .. n -> Int]
      /\ \A i \in 1 .. n : f[i] \in Int /\ p[i] = p[i - 1] + f[i]
  BY DEF Totals
<1>2. Is(q)
  <2>1. ASSUME NEW i \in a - 1 .. b PROVE q[i] = IF i < a THEN 0 ELSE q[i - 1] + f[i]
    <3>1. CASE i < a
      <4>1. i = a - 1 /\ i \in 0 .. n
        BY <3>1, <1>1
      <4>2. p[i] \in Int
        BY <1>1, <4>1
      <4>3. QED
        BY <3>1, <4>1, <4>2
    <3>2. CASE ~(i < a)
      <4>1. i \in 1 .. n /\ i - 1 \in a - 1 .. b /\ i - 1 \in 0 .. n /\ a - 1 \in 0 .. n
        BY <3>2, <1>1
      <4>2. p[i - 1] \in Int /\ p[a - 1] \in Int /\ f[i] \in Int /\ p[i] = p[i - 1] + f[i]
        BY <1>1, <4>1
      <4>3. QED
        BY <3>2, <4>1, <4>2
    <3>3. QED
      BY <3>1, <3>2
  <2>2. q = [i \in a - 1 .. b |-> q[i]]
    OBVIOUS
  <2> HIDE DEF q
  <2>3. QED
    BY <2>1, <2>2
<1>3. Is(sum)
  <2> HIDE DEF Is
  <2>1. QED
    BY <1>2
<1> HIDE DEF sum
<1>4. \A i \in a - 1 .. b : sum[i] = IF i < a THEN 0 ELSE sum[i - 1] + f[i]
  BY <1>3
<1> DEFINE D == {k \in Nat : a - 1 + k <= b => sum[a - 1 + k] = p[a - 1 + k] - p[a - 1]}
<1>5. 0 \in D
  <2>1. a - 1 \in a - 1 .. b /\ a - 1 \in 0 .. n /\ a - 1 < a
    BY <1>1
  <2>2. sum[a - 1] = 0 /\ p[a - 1] \in Int
    BY <1>1, <1>4, <2>1
  <2>3. a - 1 + 0 = a - 1
    OBVIOUS
  <2>4. QED
    BY <2>2, <2>3
<1>6. ASSUME NEW k \in Nat, k \in D PROVE k + 1 \in D
  <2> SUFFICES ASSUME a - 1 + (k + 1) <= b PROVE sum[a - 1 + (k + 1)] = p[a - 1 + (k + 1)] - p[a - 1]
    OBVIOUS
  <2> DEFINE i == a - 1 + (k + 1)
  <2>1. /\ i \in a - 1 .. b /\ ~(i < a) /\ i \in 1 .. n /\ i - 1 = a - 1 + k /\ i - 1 \in 0 .. n
        /\ a - 1 \in 0 .. n /\ a - 1 + k <= b
    BY <1>1
  <2>2. sum[i - 1] = p[i - 1] - p[a - 1]
    BY <1>6, <2>1
  <2> HIDE DEF i
  <2>3. sum[i] = sum[i - 1] + f[i]
    BY <1>4, <2>1
  <2>4. p[i - 1] \in Int /\ p[a - 1] \in Int /\ f[i] \in Int /\ p[i] = p[i - 1] + f[i]
    BY <1>1, <2>1
  <2>5. sum[i] = p[i] - p[a - 1]
    BY <2>2, <2>3, <2>4
  <2>6. QED
    BY <2>5 DEF i
<1> HIDE DEF D
<1>7. \A k \in Nat : k \in D
  BY <1>5, <1>6, Inducts
<1>8. b - (a - 1) \in Nat /\ a - 1 + (b - (a - 1)) = b
  BY <1>1
<1>9. sum[b] = p[b] - p[a - 1]
  BY <1>7, <1>8 DEF D
<1>10. Between(f, a, b) = sum[b]
  BY DEF Between, sum
<1>11. QED
  BY <1>9, <1>10

(* Of numbers that are not negative the sums rise.                         *)
LEMMA TotalsRise ==
  ASSUME NEW n, NEW f, NEW p, Totals(p, f, n), \A i \in 1 .. n : f[i] >= 0
  PROVE  \A i, j \in 0 .. n : i <= j => p[i] <= p[j]
<1> DEFINE D == {k \in Nat : \A i \in 0 .. n : i + k <= n => p[i] <= p[i + k]}
<1>1. /\ n \in Nat /\ p \in [0 .. n -> Int]
      /\ \A i \in 1 .. n : f[i] \in Int /\ p[i] = p[i - 1] + f[i]
  BY DEF Totals
<1>2. 0 \in D
  BY <1>1
<1>3. ASSUME NEW k \in Nat, k \in D PROVE k + 1 \in D
  <2> SUFFICES ASSUME NEW i \in 0 .. n, i + (k + 1) <= n PROVE p[i] <= p[i + (k + 1)]
    OBVIOUS
  <2> DEFINE j == i + (k + 1)
  <2>1. j \in 1 .. n /\ j - 1 = i + k /\ i + k <= n /\ i + k \in 0 .. n
    BY <1>1
  <2>2. p[i] <= p[i + k]
    BY <1>3, <2>1
  <2> HIDE DEF j
  <2>3. p[j] = p[j - 1] + f[j] /\ f[j] \in Int /\ f[j] >= 0 /\ p[i + k] \in Int /\ p[i] \in Int
    BY <1>1, <2>1
  <2>4. p[i] <= p[j]
    BY <2>1, <2>2, <2>3
  <2>5. QED
    BY <2>4 DEF j
<1> HIDE DEF D
<1>4. \A k \in Nat : k \in D
  BY <1>2, <1>3, Inducts
<1>5. ASSUME NEW i \in 0 .. n, NEW j \in 0 .. n, i <= j PROVE p[i] <= p[j]
  <2>1. j - i \in Nat /\ i + (j - i) = j
    BY <1>1, <1>5
  <2>2. QED
    BY <1>4, <2>1 DEF D
<1>6. QED
  BY <1>5

(* Products rise with a factor.                                            *)
LEMMA ProductsRise ==
  ASSUME NEW a \in Nat, NEW b \in Nat, a <= b, NEW k \in Nat
  PROVE  a * k \in Nat /\ a * k <= b * k
<1>1. PICK d \in Nat : b = a + d
  <2>1. b - a \in Nat /\ b = a + (b - a)
    OBVIOUS
  <2>2. QED
    BY <2>1
<1>2. a * k \in Nat /\ d * k \in Nat
  OBVIOUS
<1>3. (a + d) * k = a * k + d * k
  OBVIOUS
<1>4. QED
  BY <1>1, <1>2, <1>3

Blocked == Block \in Nat /\ Block > 0

(* Blocks begin within the sequence, and all of them reach its end; the    *)
(* whole ones lie in it.                                                   *)
LEMMA BlocksLie ==
  ASSUME Blocked, NEW n \in Nat
  PROVE  /\ BlockCount(n) \in Nat /\ n <= BlockCount(n) * Block
         /\ \A b \in 1 .. BlockCount(n) : (b - 1) * Block \in Nat /\ (b - 1) * Block < n
         /\ n \div Block \in 0 .. BlockCount(n)
         /\ \A b \in 0 .. n \div Block : b * Block \in 0 .. n
         /\ n < (n \div Block + 1) * Block
<1> DEFINE k == BlockCount(n)
           m == n \div Block
           e == n + Block - 1
<1>1. Block \in Nat /\ Block > 0
  BY DEF Blocked
<1>2. e \in Nat
  BY <1>1
<1>3. k = e \div Block
  BY DEF BlockCount
<1> HIDE DEF e
<1>4. e \div Block \in Nat /\ e % Block \in 0 .. Block - 1 /\ e = Block * (e \div Block) + (e % Block)
  BY <1>1, <1>2, Shared
<1>5. PICK r \in 0 .. Block - 1 : k \in Nat /\ e = Block * k + r
  BY <1>3, <1>4
<1>6. n \div Block \in Nat /\ n % Block \in 0 .. Block - 1 /\ n = Block * (n \div Block) + (n % Block)
  BY <1>1, Shared
<1>7. PICK s \in 0 .. Block - 1 : m \in Nat /\ n = Block * m + s
  BY <1>6
<1> HIDE DEF k, m
<1>8. Block * k = k * Block /\ Block * m = m * Block /\ k * Block \in Nat /\ m * Block \in Nat
  BY <1>1, <1>5, <1>7
<1>9. k * Block + r = n + Block - 1 /\ m * Block + s = n
  BY <1>5, <1>7, <1>8 DEF e
<1>10. n <= k * Block
  BY <1>1, <1>8, <1>9
<1>11. ASSUME NEW b \in 1 .. k PROVE (b - 1) * Block \in Nat /\ (b - 1) * Block < n
  <2>1. b - 1 \in Nat /\ b \in Nat /\ b <= k
    BY <1>5
  <2>2. b * Block \in Nat /\ b * Block <= k * Block
    BY <1>1, <1>5, <2>1, ProductsRise
  <2>3. (b - 1) * Block = b * Block - Block
    BY <1>1, <2>1
  <2>4. (b - 1) * Block \in Nat
    BY <1>1, <2>1
  <2>5. QED
    BY <1>1, <1>8, <1>9, <2>2, <2>3, <2>4
<1>12. m <= k
  <2>1. SUFFICES ASSUME k + 1 <= m PROVE FALSE
    BY <1>5, <1>7
  <2>2. (k + 1) * Block <= m * Block
    BY <1>1, <1>5, <1>7, <2>1, ProductsRise
  <2>3. (k + 1) * Block = k * Block + Block
    BY <1>1, <1>5
  <2>4. QED
    BY <1>1, <1>8, <1>9, <2>2, <2>3
<1>13. ASSUME NEW b \in 0 .. m PROVE b * Block \in 0 .. n
  <2>1. b \in Nat /\ b <= m
    BY <1>7
  <2>2. b * Block \in Nat /\ b * Block <= m * Block
    BY <1>1, <1>7, <2>1, ProductsRise
  <2>3. QED
    BY <1>1, <1>8, <1>9, <2>2
<1>14. n < (m + 1) * Block
  <2>1. (m + 1) * Block = m * Block + Block
    BY <1>1, <1>7
  <2>2. QED
    BY <1>1, <1>8, <1>9, <2>1
<1>15. QED
  BY <1>5, <1>7, <1>10, <1>11, <1>12, <1>13, <1>14 DEF k, m

(* The block of a symbol.                                                  *)
LEMMA BlockOfIs ==
  ASSUME Blocked, NEW n \in Nat, NEW i \in 1 .. n
  PROVE  /\ BlockOf(i) \in 1 .. BlockCount(n) /\ (BlockOf(i) - 1) * Block \in 0 .. i - 1
         /\ i <= BlockOf(i) * Block
         /\ \A b \in 1 .. BlockCount(n) : (b - 1) * Block < i /\ i <= b * Block => b = BlockOf(i)
<1> DEFINE k == BlockCount(n)
           d == (i - 1) \div Block
<1>1. Block \in Nat /\ Block > 0 /\ i - 1 \in Nat /\ i \in Nat
  BY DEF Blocked
<1>2. d \in Nat /\ (i - 1) % Block \in 0 .. Block - 1 /\ i - 1 = Block * d + ((i - 1) % Block)
  BY <1>1, Shared
<1>3. PICK r \in 0 .. Block - 1 : i - 1 = Block * d + r
  BY <1>2
<1>4. BlockOf(i) = d + 1
  BY DEF BlockOf
<1> HIDE DEF d
<1>5. Block * d = d * Block /\ d * Block \in Nat /\ (d + 1) * Block = d * Block + Block
  BY <1>1, <1>2
<1>6. d * Block <= i - 1 /\ i <= (d + 1) * Block
  BY <1>1, <1>3, <1>5
<1>7. k \in Nat /\ n <= k * Block
  BY BlocksLie
<1> HIDE DEF k
<1>8. d + 1 <= k
  <2>1. SUFFICES ASSUME k <= d PROVE FALSE
    BY <1>2, <1>7
  <2>2. k * Block \in Nat /\ k * Block <= d * Block
    BY <1>1, <1>2, <1>7, <2>1, ProductsRise
  <2>3. QED
    BY <1>1, <1>5, <1>6, <1>7, <2>2
<1>9. ASSUME NEW b \in 1 .. k, (b - 1) * Block < i, i <= b * Block PROVE b = d + 1
  <2>0. b \in Nat /\ b - 1 \in Nat /\ (b - 1) * Block \in Nat /\ b * Block \in Nat
    BY <1>1, <1>7
  <2>1. ASSUME b <= d PROVE FALSE
    <3>1. b * Block <= d * Block
      BY <1>1, <1>2, <2>0, <2>1, ProductsRise
    <3>2. QED
      BY <1>1, <1>5, <1>6, <1>9, <2>0, <3>1
  <2>2. ASSUME d + 1 <= b - 1 PROVE FALSE
    <3>1. (d + 1) * Block <= (b - 1) * Block
      BY <1>1, <1>2, <2>0, <2>2, ProductsRise
    <3>2. QED
      BY <1>1, <1>5, <1>6, <1>9, <2>0, <3>1
  <2>3. QED
    BY <1>2, <2>0, <2>1, <2>2
<1>10. d + 1 \in 1 .. k /\ (d + 1) - 1 = d
  BY <1>2, <1>7, <1>8
<1>11. QED
  BY <1>1, <1>4, <1>5, <1>6, <1>9, <1>10 DEF k

EndOf(b, n) == IF b * Block < n THEN b * Block ELSE n

(* The sums of blocks are sums at their ends.                              *)
LEMMA BlockTotals ==
  ASSUME Blocked, NEW f, f \in Seq(Nat), NEW p, Totals(p, f, Len(f))
  PROVE  /\ BlockSums(f) = [b \in 1 .. BlockCount(Len(f)) |-> BlockSums(f)[b]]
         /\ Totals([b \in 0 .. BlockCount(Len(f)) |-> p[EndOf(b, Len(f))]], BlockSums(f), BlockCount(Len(f)))
         /\ \A b \in 1 .. BlockCount(Len(f)) : BlockSums(f)[b] = p[EndOf(b, Len(f))] - p[(b - 1) * Block]
<1> DEFINE n == Len(f)
           k == BlockCount(n)
           q == [b \in 0 .. k |-> p[EndOf(b, n)]]
           s == BlockSums(f)
<1>1. n \in Nat /\ Block \in Nat /\ Block > 0
  BY DEF Blocked
<1>2. p \in [0 .. n -> Int] /\ p[0] = 0
  BY DEF Totals
<1>3. k \in Nat /\ \A b \in 1 .. k : (b - 1) * Block \in Nat /\ (b - 1) * Block < n
  <2> HIDE DEF n
  <2>1. QED
    BY <1>1, BlocksLie
<1>4. s = [b \in 1 .. k |-> Between(f, (b - 1) * Block + 1, EndOf(b, n))]
  BY DEF BlockSums, EndOf
<1> HIDE DEF k, s
<1>5. ASSUME NEW b \in 1 .. k
      PROVE  /\ EndOf(b, n) \in 0 .. n /\ (b - 1) * Block \in 0 .. n
             /\ s[b] = p[EndOf(b, n)] - p[(b - 1) * Block]
             /\ EndOf(b - 1, n) = (b - 1) * Block
  <2>1. b \in Nat /\ b - 1 \in Nat /\ b * Block \in Nat /\ (b - 1) * Block \in Nat /\ (b - 1) * Block < n
    BY <1>1, <1>3
  <2>2. b * Block = (b - 1) * Block + Block
    BY <1>1, <2>1
  <2> DEFINE a == (b - 1) * Block + 1
             e == EndOf(b, n)
  <2>3. a \in 1 .. n + 1 /\ e \in a - 1 .. n /\ a - 1 = (b - 1) * Block /\ e \in 0 .. n /\ a - 1 \in 0 .. n
    BY <1>1, <2>1, <2>2 DEF EndOf
  <2>4. s[b] = Between(f, a, e)
    BY <1>4
  <2> HIDE DEF a, e, n
  <2>5. Between(f, a, e) = p[e] - p[a - 1]
    BY <2>3, BetweenIs DEF n
  <2>6. EndOf(b - 1, n) = (b - 1) * Block
    BY <2>1 DEF EndOf
  <2>7. QED
    BY <2>3, <2>4, <2>5, <2>6 DEF e
<1>6. EndOf(0, n) = 0
  BY <1>1 DEF EndOf
<1>7. \A b \in 0 .. k : EndOf(b, n) \in 0 .. n
  <2>1. ASSUME NEW b \in 0 .. k PROVE EndOf(b, n) \in 0 .. n
    <3>1. CASE b = 0
      BY <1>1, <1>6, <3>1
    <3>2. CASE b # 0
      <4>1. b \in 1 .. k
        BY <1>3, <3>2
      <4>2. QED
        BY <1>5, <4>1
    <3>3. QED
      BY <3>1, <3>2
  <2>2. QED
    BY <2>1
<1>8. q \in [0 .. k -> Int] /\ q[0] = 0
  BY <1>1, <1>2, <1>3, <1>6, <1>7
<1>9. ASSUME NEW b \in 1 .. k PROVE s[b] \in Int /\ q[b] = q[b - 1] + s[b]
  <2>1. b \in 0 .. k /\ b - 1 \in 0 .. k
    BY <1>3
  <2>2. q[b] = p[EndOf(b, n)] /\ q[b - 1] = p[(b - 1) * Block]
    BY <1>5, <2>1
  <2>3. q[b] \in Int /\ q[b - 1] \in Int /\ s[b] = q[b] - q[b - 1]
    BY <1>5, <1>8, <2>1, <2>2
  <2> HIDE DEF q, n
  <2>4. QED
    BY <2>3
<1> HIDE DEF q
<1>10. Totals(q, s, k)
  BY <1>3, <1>8, <1>9 DEF Totals
<1>11. s = [b \in 1 .. k |-> s[b]]
  BY <1>4
<1>12. QED
  BY <1>5, <1>10, <1>11 DEF s, q, k

(* A context's counts: none is nought, and block sums and total are theirs.*)
IsPrior(pr) ==
  /\ pr.f \in Seq(Nat \ {0}) /\ Len(pr.f) > 0
  /\ pr.tot = Added(pr.f)

IsCounts(c) ==
  /\ {"f", "blk", "tot", "pr"} \subseteq DOMAIN c /\ IsPrior(c.pr)
  /\ c.f \in Seq(Nat \ {0}) /\ Len(c.f) = Len(c.pr.f) /\ \A j \in 1 .. Len(c.f) : c.f[j] >= c.pr.f[j]
  /\ c.blk = BlockSums(c.f)
  /\ c.tot \in Nat /\ c.pr.tot + c.tot = Added(c.f)

(* The sums of its blocks up to one, and within one up to a symbol.        *)
LEMMA PartsOf ==
  ASSUME Blocked, NEW c, c.f \in Seq(Nat), c.blk = BlockSums(c.f), NEW p, Totals(p, c.f, Len(c.f))
  PROVE  /\ \A b \in 0 .. BlockCount(Len(c.f)) : b * Block <= Len(c.f) =>
              b * Block \in 0 .. Len(c.f) /\ Between(c.blk, 1, b) = p[b * Block]
         /\ \A b \in 1 .. BlockCount(Len(c.f)), i \in 0 .. Len(c.f) : (b - 1) * Block <= i =>
              Between(c.f, (b - 1) * Block + 1, i) = p[i] - p[(b - 1) * Block]
<1> DEFINE n == Len(c.f)
           k == BlockCount(n)
           q == [b \in 0 .. k |-> p[EndOf(b, n)]]
<1>1. n \in Nat /\ Block \in Nat /\ Block > 0
  BY DEF Blocked
<1>2. p \in [0 .. n -> Int] /\ p[0] = 0
  BY DEF Totals
<1>3. Totals(q, c.blk, k)
  BY BlockTotals
<1>4. k \in Nat /\ \A b \in 1 .. k : (b - 1) * Block \in Nat /\ (b - 1) * Block < n
  <2> HIDE DEF n
  <2>1. QED
    BY <1>1, BlocksLie
<1> HIDE DEF k
<1>5. ASSUME NEW b \in 0 .. k, b * Block <= n PROVE b * Block \in 0 .. n /\ Between(c.blk, 1, b) = p[b * Block]
  <2>1. b \in Nat /\ b * Block \in Nat
    BY <1>1, <1>4
  <2>2. EndOf(b, n) = b * Block /\ EndOf(0, n) = 0
    BY <1>1, <1>5, <2>1 DEF EndOf
  <2>3. 0 \in 0 .. k /\ 1 \in 1 .. k + 1 /\ b \in 1 - 1 .. k
    BY <1>4
  <2>4. q[b] = p[b * Block] /\ q[0] = 0
    BY <1>2, <2>2, <2>3
  <2> HIDE DEF q, n
  <2>5. Between(c.blk, 1, b) = q[b] - q[1 - 1]
    BY <1>3, <2>3, BetweenIs
  <2>6. b * Block \in 0 .. n
    BY <1>1, <1>5, <2>1
  <2>7. p[b * Block] \in Int
    BY <1>2, <2>6
  <2>8. QED
    BY <2>4, <2>5, <2>6, <2>7
<1>6. ASSUME NEW b \in 1 .. k, NEW i \in 0 .. n, (b - 1) * Block <= i
      PROVE  Between(c.f, (b - 1) * Block + 1, i) = p[i] - p[(b - 1) * Block]
  <2>1. (b - 1) * Block \in Nat /\ (b - 1) * Block < n
    BY <1>4
  <2> DEFINE a == (b - 1) * Block + 1
  <2>2. a \in 1 .. n + 1 /\ i \in a - 1 .. n /\ a - 1 = (b - 1) * Block
    BY <1>1, <1>6, <2>1
  <2> HIDE DEF a, n
  <2>3. Between(c.f, a, i) = p[i] - p[a - 1]
    BY <2>2, BetweenIs DEF n
  <2>4. QED
    BY <2>2, <2>3 DEF a
<1>7. QED
  BY <1>5, <1>6 DEF k

(* Symbol i begins where those before it end.                              *)
LEMMA FirstIs ==
  ASSUME Blocked, NEW c, c.f \in Seq(Nat), c.blk = BlockSums(c.f), NEW p, Totals(p, c.f, Len(c.f)),
         NEW i \in 1 .. Len(c.f)
  PROVE  FirstOf(c, i) = p[i - 1]
<1> DEFINE n == Len(c.f)
           b == BlockOf(i)
<1>1. n \in Nat /\ Block \in Nat /\ i - 1 \in 0 .. n
  BY DEF Blocked
<1>2. b \in 1 .. BlockCount(n) /\ (b - 1) * Block \in 0 .. i - 1
  <2> HIDE DEF n, b
  <2>1. QED
    BY <1>1, BlockOfIs DEF n, b
<1>3. BlockCount(n) \in Nat
  <2> HIDE DEF n
  <2>1. QED
    BY <1>1, BlocksLie
<1> HIDE DEF b
<1>4. b - 1 \in 0 .. BlockCount(n) /\ (b - 1) * Block <= n /\ (b - 1) * Block <= i - 1 /\ (b - 1) * Block \in 0 .. n
  BY <1>1, <1>2, <1>3
<1>5. Between(c.blk, 1, b - 1) = p[(b - 1) * Block]
  BY <1>4, PartsOf
<1>6. Between(c.f, (b - 1) * Block + 1, i - 1) = p[i - 1] - p[(b - 1) * Block]
  BY <1>1, <1>2, <1>4, PartsOf
<1>7. p[i - 1] \in Int /\ p[(b - 1) * Block] \in Int
  BY <1>1, <1>4 DEF Totals
<1>8. FirstOf(c, i) = Between(c.blk, 1, b - 1) + Between(c.f, (b - 1) * Block + 1, i - 1)
  BY DEF FirstOf, b
<1>9. QED
  BY <1>5, <1>6, <1>7, <1>8

(* A target that lies in symbol i is found to: the blocks in front of it   *)
(* are skipped, and then the symbols.                                      *)
LEMMA SymbolIs ==
  ASSUME Blocked, NEW c, c.f \in Seq(Nat), c.blk = BlockSums(c.f), NEW p, Totals(p, c.f, Len(c.f)),
         NEW i \in 1 .. Len(c.f), NEW t \in Int, p[i - 1] <= t, t < p[i]
  PROVE  Symbol(c, t) = i
<1> DEFINE n == Len(c.f)
           m == n \div Block
           skipped == {b \in 0 .. m : \A d \in 1 .. b : t >= Between(c.blk, 1, d)}
           top == CHOOSE b \in skipped : \A d \in skipped : d <= b
           from == Block * top
           within == {j \in from + 1 .. n : t < Between(c.blk, 1, from \div Block) + Between(c.f, from + 1, j)}
<1>1. n \in Nat /\ Block \in Nat /\ Block > 0
  BY DEF Blocked
<1>2. p \in [0 .. n -> Int] /\ p[0] = 0 /\ \A j \in 1 .. n : c.f[j] \in Int /\ p[j] = p[j - 1] + c.f[j]
  BY DEF Totals
<1>3. \A j, k \in 0 .. n : j <= k => p[j] <= p[k]
  <2>1. \A j \in 1 .. n : c.f[j] >= 0
    OBVIOUS
  <2>2. QED
    BY <2>1, TotalsRise
<1>4. Symbol(c, t) = IF within = {} THEN n ELSE CHOOSE j \in within : \A k \in within : j <= k
  BY DEF Symbol
<1>5. /\ BlockCount(n) \in Nat /\ m \in 0 .. BlockCount(n) /\ \A b \in 0 .. m : b * Block \in 0 .. n
      /\ \A b \in 1 .. BlockCount(n) : (b - 1) * Block \in Nat /\ (b - 1) * Block < n
  <2> HIDE DEF n
  <2>1. QED
    BY <1>1, BlocksLie
<1> HIDE DEF m
<1>6. m \in Nat
  BY <1>5
<1>7. \A b \in 0 .. m : b * Block \in 0 .. n /\ Between(c.blk, 1, b) = p[b * Block]
  <2>1. ASSUME NEW b \in 0 .. m PROVE b * Block \in 0 .. n /\ Between(c.blk, 1, b) = p[b * Block]
    <3>1. b * Block \in 0 .. n /\ b * Block <= n /\ b \in 0 .. BlockCount(n)
      BY <1>1, <1>5, <1>6
    <3>2. QED
      BY <3>1, PartsOf
  <2>2. QED
    BY <2>1
<1>8. skipped \subseteq 0 .. m /\ 0 \in skipped
  BY <1>6
<1>9. \A b \in skipped : t >= p[b * Block]
  <2>1. ASSUME NEW b \in skipped PROVE t >= p[b * Block]
    <3>1. b \in 0 .. m /\ \A d \in 1 .. b : t >= Between(c.blk, 1, d)
      OBVIOUS
    <3>2. CASE b = 0
      <4>1. b * Block = 0 /\ i - 1 \in 0 .. n /\ 0 \in 0 .. n /\ 0 <= i - 1
        BY <1>1, <3>2
      <4>2. p[0] <= p[i - 1] /\ p[0] \in Int /\ p[i - 1] \in Int
        BY <1>2, <1>3, <4>1
      <4>3. QED
        BY <4>1, <4>2
    <3>3. CASE b # 0
      <4>1. b \in 1 .. b
        BY <1>6, <3>1, <3>3
      <4>2. t >= Between(c.blk, 1, b)
        BY <3>1, <4>1
      <4>3. QED
        BY <1>7, <3>1, <4>2
    <3>4. QED
      BY <3>2, <3>3
  <2>2. QED
    BY <2>1
<1> HIDE DEF skipped
<1>10. top \in skipped
  <2> DEFINE P(x) == x \in skipped /\ \A d \in skipped : d <= x
  <2>1. \E x \in skipped : \A d \in skipped : d <= x
    <3> DEFINE D == {k \in Nat : \A y \in skipped : m - y <= k => \E x \in skipped : \A d \in skipped : d <= x}
    <3>1. 0 \in D
      <4>1. ASSUME NEW y \in skipped, m - y <= 0 PROVE \A d \in skipped : d <= y
        BY <1>6, <1>8, <4>1
      <4>2. QED
        BY <4>1
    <3>2. ASSUME NEW k \in Nat, k \in D PROVE k + 1 \in D
      <4>1. ASSUME NEW y \in skipped, m - y <= k + 1 PROVE \E x \in skipped : \A d \in skipped : d <= x
        <5>1. CASE \A d \in skipped : d <= y
          BY <5>1
        <5>2. CASE ~\A d \in skipped : d <= y
          <6>1. PICK d \in skipped : ~(d <= y)
            BY <5>2
          <6>2. m - d <= k
            BY <1>6, <1>8, <4>1, <6>1
          <6>3. QED
            BY <3>2, <6>2
        <5>3. QED
          BY <5>1, <5>2
      <4>2. QED
        BY <4>1
    <3> HIDE DEF D
    <3>3. \A k \in Nat : k \in D
      BY <3>1, <3>2, Inducts
    <3>4. m \in D /\ m - 0 <= m
      BY <1>6, <3>3
    <3>5. QED
      BY <1>8, <3>4 DEF D
  <2>2. QED
    BY <2>1
<1> HIDE DEF top
<1>11. top \in 0 .. m /\ top \in Nat /\ from = top * Block /\ from \in 0 .. n /\ p[from] <= t
  <2>1. top \in 0 .. m /\ top \in Nat
    BY <1>6, <1>8, <1>10
  <2>2. from = top * Block
    BY <1>1, <2>1
  <2>3. p[top * Block] <= t /\ top * Block \in 0 .. n
    BY <1>2, <1>7, <1>9, <1>10, <2>1
  <2>4. QED
    BY <2>1, <2>2, <2>3
<1>12. from \div Block = top
  <2>1. Block * top + 0 = from /\ 0 \in 0 .. Block - 1
    BY <1>1, <1>11
  <2>2. from \in Nat
    BY <1>11
  <2>3. from \div Block \in Nat /\ from % Block \in 0 .. Block - 1 /\ from = Block * (from \div Block) + (from % Block)
    BY <1>1, <2>2, Shared
  <2>4. from % Block = 0
    <3>1. (Block * top + 0) % Block = 0
      BY <1>1, <1>11, <2>1, RestIs
    <3>2. QED
      BY <2>1, <3>1
  <2> DEFINE e == from \div Block
  <2>5. e \in Nat /\ Block * e = Block * top
    BY <1>1, <1>11, <2>1, <2>3, <2>4
  <2> HIDE DEF e
  <2>6. e = top
    BY <1>1, <1>11, <2>5
  <2>7. QED
    BY <2>6 DEF e
<1> HIDE DEF from
<1>13. Between(c.blk, 1, top) = p[from]
  BY <1>7, <1>11
<1>14. \A j \in from + 1 .. n : Between(c.f, from + 1, j) = p[j] - p[from]
  <2>1. ASSUME NEW j \in from + 1 .. n PROVE Between(c.f, from + 1, j) = p[j] - p[from]
    <3> DEFINE a == from + 1
    <3>1. a \in 1 .. n + 1 /\ j \in a - 1 .. n /\ a - 1 = from
      BY <1>1, <1>11
    <3> HIDE DEF a, n
    <3>2. Between(c.f, a, j) = p[j] - p[a - 1]
      BY <3>1, BetweenIs DEF n
    <3>3. QED
      BY <3>1, <3>2 DEF a
  <2>2. QED
    BY <2>1
<1>15. within = {j \in from + 1 .. n : t < p[j]}
  <2>1. ASSUME NEW j \in from + 1 .. n
        PROVE  t < Between(c.blk, 1, from \div Block) + Between(c.f, from + 1, j) <=> t < p[j]
    <3>1. j \in 0 .. n
      BY <1>11
    <3>2. p[j] \in Int /\ p[from] \in Int
      BY <1>2, <1>11, <3>1
    <3>3. QED
      BY <1>12, <1>13, <1>14, <3>2
  <2>2. QED
    BY <2>1
<1> HIDE DEF within
<1>16. i \in within /\ \A j \in within : i <= j
  <2>1. from < i
    <3>1. SUFFICES ASSUME i <= from PROVE FALSE
      BY <1>11
    <3>2. p[i] <= p[from] /\ p[i] \in Int /\ p[from] \in Int
      <4>1. i \in 0 .. n
        BY <1>1
      <4>2. QED
        BY <1>2, <1>3, <1>11, <3>1, <4>1
    <3>3. QED
      BY <1>11, <3>2
  <2>2. i \in within
    BY <1>1, <1>11, <1>15, <2>1
  <2>3. ASSUME NEW j \in within, j < i PROVE FALSE
    <3>0. j \in from + 1 .. n /\ t < p[j]
      BY <1>15
    <3>1. j \in 0 .. n /\ i - 1 \in 0 .. n /\ j <= i - 1 /\ t < p[j]
      BY <1>1, <1>11, <2>3, <3>0
    <3>2. p[j] <= p[i - 1] /\ p[j] \in Int /\ p[i - 1] \in Int
      BY <1>2, <1>3, <3>1
    <3>3. QED
      BY <3>1, <3>2
  <2>4. within \subseteq Int
    BY <1>11, <1>15
  <2>5. QED
    BY <2>2, <2>3, <2>4
<1>17. \A j \in within : (\A k \in within : j <= k) => j = i
  <2>1. within \subseteq Int
    BY <1>11, <1>15
  <2>2. QED
    BY <1>16, <2>1
<1>18. (CHOOSE j \in within : \A k \in within : j <= k) = i
  <2> DEFINE z == CHOOSE j \in within : \A k \in within : j <= k
  <2>1. z \in within /\ \A k \in within : z <= k
    BY <1>16
  <2>2. QED
    BY <1>17, <2>1
<1>19. QED
  BY <1>4, <1>16, <1>18

(* The sum of all.                                                         *)
LEMMA AddedIs ==
  ASSUME NEW s, NEW p, Len(s) \in Nat, Totals(p, s, Len(s))
  PROVE  Added(s) = p[Len(s)]
<1> DEFINE n == Len(s)
<1>1. 1 \in 1 .. n + 1 /\ n \in 1 - 1 .. n
  OBVIOUS
<1>2. Between(s, 1, n) = p[n] - p[1 - 1]
  <2> HIDE DEF n
  <2>1. QED
    BY <1>1, BetweenIs DEF n
<1>3. p[n] \in Int /\ p[0] = 0 /\ 1 - 1 = 0
  BY DEF Totals
<1>4. QED
  BY <1>2, <1>3 DEF Added

(* One number of a sequence that grows, and what that does to its sums.    *)
RisesAt(f, g, i, d) ==
  /\ f \in Seq(Nat) /\ g \in Seq(Nat) /\ Len(g) = Len(f) /\ i \in 1 .. Len(f) /\ d \in Nat
  /\ g[i] = f[i] + d /\ \A j \in 1 .. Len(f) : j # i => g[j] = f[j]

SumsRise(f, g, i, d) ==
  /\ Added(f) \in Nat /\ Added(g) = Added(f) + d
  /\ BlockSums(g) = [BlockSums(f) EXCEPT ![BlockOf(i)] = @ + d]

(* The sum of its block grows by as much, and so does the sum of all.      *)
LEMMA SumsAre ==
  ASSUME Blocked, NEW f, NEW g, NEW i, NEW d, RisesAt(f, g, i, d)
  PROVE  SumsRise(f, g, i, d)
<1>0. \A j \in 1 .. Len(f) : g[j] = IF j = i THEN f[j] + d ELSE f[j]
  BY DEF RisesAt
<1> SUFFICES ASSUME f \in Seq(Nat), g \in Seq(Nat), Len(g) = Len(f), i \in 1 .. Len(f), d \in Nat,
                    \A j \in 1 .. Len(f) : g[j] = IF j = i THEN f[j] + d ELSE f[j]
             PROVE  SumsRise(f, g, i, d)
  BY <1>0 DEF RisesAt
<1> DEFINE n == Len(f)
           k == BlockCount(n)
<1>1. n \in Nat /\ n = Len(g) /\ i \in Nat
  OBVIOUS
<1>2. PICK p : Totals(p, f, n)
  <2>1. \A j \in 1 .. n : f[j] \in Int
    OBVIOUS
  <2> HIDE DEF n
  <2>2. QED
    BY <1>1, <2>1, TotalsExist
<1>3. /\ p \in [0 .. n -> Int] /\ p[0] = 0
      /\ \A j \in 1 .. n : f[j] \in Int /\ p[j] = p[j - 1] + f[j]
  BY <1>2 DEF Totals
<1> DEFINE q == [j \in 0 .. n |-> IF j >= i THEN p[j] + d ELSE p[j]]
<1>4. Totals(q, g, n)
  <2>1. q \in [0 .. n -> Int] /\ q[0] = 0
    BY <1>1, <1>3
  <2>2. ASSUME NEW j \in 1 .. n PROVE g[j] \in Int /\ q[j] = q[j - 1] + g[j]
    <3>1. j \in 0 .. n /\ j - 1 \in 0 .. n
      BY <1>1
    <3>2. p[j] \in Int /\ p[j - 1] \in Int /\ f[j] \in Int /\ p[j] = p[j - 1] + f[j]
      BY <1>3, <3>1
    <3>3. q[j] = (IF j >= i THEN p[j] + d ELSE p[j]) /\ q[j - 1] = IF j - 1 >= i THEN p[j - 1] + d ELSE p[j - 1]
      BY <3>1
    <3>0. g[j] = (IF j = i THEN f[j] + d ELSE f[j]) /\ j \in Int
      BY <1>1
    <3> HIDE DEF q, n
    <3>4. CASE j = i
      BY <1>1, <3>0, <3>2, <3>3, <3>4
    <3>5. CASE j < i
      <4>1. q[j] = p[j] /\ q[j - 1] = p[j - 1] /\ g[j] = f[j]
        BY <1>1, <3>0, <3>3, <3>5
      <4>2. QED
        BY <3>2, <4>1
    <3>6. CASE j > i
      <4>1. q[j] = p[j] + d /\ q[j - 1] = p[j - 1] + d /\ g[j] = f[j] /\ d \in Int
        BY <1>1, <3>0, <3>3, <3>6
      <4>2. \A a, b, c \in Int : a = b + c => a + d = (b + d) + c
        BY <4>1
      <4>3. p[j] + d = (p[j - 1] + d) + f[j]
        BY <3>2, <4>2
      <4>4. QED
        BY <3>2, <4>1, <4>3
    <3>7. QED
      BY <1>1, <3>0, <3>4, <3>5, <3>6
  <2> HIDE DEF q
  <2>3. QED
    BY <1>1, <2>1, <2>2 DEF Totals
<1>5. \A j \in 0 .. n : q[j] = (IF j >= i THEN p[j] + d ELSE p[j]) /\ q[j] \in Int /\ p[j] \in Int
  <2>1. \A j \in 0 .. n : q[j] = IF j >= i THEN p[j] + d ELSE p[j]
    OBVIOUS
  <2> HIDE DEF q, n
  <2>2. ASSUME NEW j \in 0 .. n PROVE q[j] \in Int /\ p[j] \in Int
    <3>1. p[j] \in Int
      BY <1>3
    <3>2. p[j] + d \in Int
      BY <3>1
    <3>3. q[j] = p[j] + d \/ q[j] = p[j]
      BY <2>1
    <3>4. QED
      BY <3>1, <3>2, <3>3
  <2>3. QED
    BY <2>1, <2>2
<1> HIDE DEF q
<1>6. Added(f) = p[n] /\ Added(g) = q[n]
  <2>1. Added(f) = p[n]
    BY <1>1, <1>2, AddedIs
  <2>2. Added(g) = q[n]
    BY <1>1, <1>4, AddedIs
  <2>3. QED
    BY <2>1, <2>2
<1>7. Added(f) \in Nat /\ Added(g) = Added(f) + d
  <2>1. \A a, b \in 0 .. n : a <= b => p[a] <= p[b]
    <3>1. \A j \in 1 .. n : f[j] >= 0
      OBVIOUS
    <3> HIDE DEF n
    <3>2. QED
      BY <1>2, <3>1, TotalsRise
  <2>2. 0 \in 0 .. n /\ n \in 0 .. n /\ 0 <= n /\ n >= i
    BY <1>1
  <2>3. p[0] <= p[n] /\ p[n] \in Int /\ q[n] = p[n] + d
    BY <1>5, <2>1, <2>2
  <2>4. QED
    BY <1>3, <1>6, <2>3
<1>8. /\ BlockSums(f) = [b \in 1 .. k |-> BlockSums(f)[b]]
      /\ \A b \in 1 .. k : BlockSums(f)[b] = p[EndOf(b, n)] - p[(b - 1) * Block]
  BY <1>2, BlockTotals
<1>9. /\ BlockSums(g) = [b \in 1 .. k |-> BlockSums(g)[b]]
      /\ \A b \in 1 .. k : BlockSums(g)[b] = q[EndOf(b, n)] - q[(b - 1) * Block]
  <2>1. Len(g) = n /\ Totals(q, g, Len(g))
    BY <1>1, <1>4
  <2> HIDE DEF n
  <2>2. QED
    BY <2>1, BlockTotals
<1>10. /\ k \in Nat /\ n <= k * Block
       /\ \A b \in 1 .. k : (b - 1) * Block \in Nat /\ (b - 1) * Block < n
  <2> HIDE DEF n
  <2>1. QED
    BY <1>1, BlocksLie
<1>11. /\ BlockOf(i) \in 1 .. k /\ (BlockOf(i) - 1) * Block \in 0 .. i - 1 /\ i <= BlockOf(i) * Block
       /\ \A b \in 1 .. k : (b - 1) * Block < i /\ i <= b * Block => b = BlockOf(i)
  <2> HIDE DEF n
  <2>1. QED
    BY <1>1, BlockOfIs DEF n
<1> DEFINE u == BlockOf(i)
<1> HIDE DEF k, u, n
<1>12. Block \in Nat
  BY DEF Blocked
<1>13. ASSUME NEW b \in 1 .. k PROVE BlockSums(g)[b] = IF b = u THEN BlockSums(f)[b] + d ELSE BlockSums(f)[b]
  <2>1. b \in Nat /\ b * Block \in Nat /\ (b - 1) * Block \in Nat /\ (b - 1) * Block < n
    BY <1>10, <1>12
  <2>2. EndOf(b, n) \in 0 .. n /\ (b - 1) * Block \in 0 .. n /\ (EndOf(b, n) >= i <=> i <= b * Block)
    <3>1. i \in 1 .. n
      BY DEF n
    <3>2. QED
      BY <1>1, <2>1, <3>1 DEF EndOf
  <2> DEFINE e == EndOf(b, n)
             a == (b - 1) * Block
  <2>3. /\ BlockSums(f)[b] = p[e] - p[a] /\ BlockSums(g)[b] = q[e] - q[a]
        /\ q[e] = (IF e >= i THEN p[e] + d ELSE p[e]) /\ p[e] \in Int
        /\ q[a] = (IF a >= i THEN p[a] + d ELSE p[a]) /\ p[a] \in Int
    BY <1>5, <1>8, <1>9, <2>2
  <2>4. b = u => ~(a >= i) /\ e >= i
    <3>1. ASSUME b = u PROVE ~(a >= i) /\ e >= i
      <4>1. (b - 1) * Block \in 0 .. i - 1 /\ i <= b * Block
        BY <1>11, <3>1 DEF u
      <4>2. QED
        BY <1>1, <2>2, <4>1
    <3>2. QED
      BY <3>1
  <2>5. b # u => (a >= i /\ e >= i) \/ (~(a >= i) /\ ~(e >= i))
    <3>1. ASSUME b # u PROVE (a >= i /\ e >= i) \/ (~(a >= i) /\ ~(e >= i))
      <4>1. ~(a < i /\ i <= b * Block)
        BY <1>11, <3>1 DEF u
      <4>2. ~(a < i) => i <= b * Block
        <5>1. b * Block = a + Block
          BY <1>12, <2>1
        <5> HIDE DEF a
        <5>2. a \in Nat
          BY <2>1 DEF a
        <5>3. QED
          BY <1>1, <1>12, <5>1, <5>2
      <4> HIDE DEF a
      <4>3. a \in Nat
        BY <2>1 DEF a
      <4>4. QED
        BY <1>1, <2>2, <4>1, <4>2, <4>3
    <3>2. QED
      BY <3>1
  <2> HIDE DEF e, a
  <2>6. QED
    BY <2>3, <2>4, <2>5
<1>14. BlockSums(g) = [b \in 1 .. k |-> IF b = u THEN BlockSums(f)[b] + d ELSE BlockSums(f)[b]]
  BY <1>9, <1>13
<1>15. [BlockSums(f) EXCEPT ![u] = @ + d] = [b \in 1 .. k |-> IF b = u THEN BlockSums(f)[b] + d ELSE BlockSums(f)[b]]
  BY <1>8
<1>16. QED
  BY <1>7, <1>14, <1>15 DEF u, SumsRise

(* Sums of sums.                                                           *)
LEMMA AddedTwice ==
  ASSUME NEW f, f \in Seq(Nat), NEW g, g \in Seq(Nat), NEW h, h \in Seq(Nat), Len(g) = Len(f), Len(h) = Len(f),
         \A j \in 1 .. Len(f) : h[j] = f[j] + g[j]
  PROVE  Added(f) \in Nat /\ Added(g) \in Nat /\ Added(h) = Added(f) + Added(g)
<1> DEFINE n == Len(f)
<1>1. n \in Nat /\ n = Len(g) /\ n = Len(h)
  OBVIOUS
<1>2. ASSUME NEW s, s \in Seq(Nat), Len(s) = n
      PROVE  \E p : /\ p \in [0 .. n -> Int] /\ p[0] = 0 /\ \A j \in 1 .. n : s[j] \in Int /\ p[j] = p[j - 1] + s[j]
                    /\ Added(s) = p[n] /\ p[n] \in Nat
  <2>1. \A j \in 1 .. n : s[j] \in Int /\ s[j] >= 0
    BY <1>2
  <2> HIDE DEF n
  <2>2. PICK p : Totals(p, s, n)
    BY <1>1, <2>1, TotalsExist
  <2>3. /\ p \in [0 .. n -> Int] /\ p[0] = 0 /\ \A j \in 1 .. n : s[j] \in Int /\ p[j] = p[j - 1] + s[j]
    BY <2>2 DEF Totals
  <2>4. Added(s) = p[n]
    BY <1>1, <1>2, <2>2, AddedIs
  <2>5. \A a, b \in 0 .. n : a <= b => p[a] <= p[b]
    BY <2>1, <2>2, TotalsRise
  <2>6. p[n] \in Nat
    <3>1. 0 \in 0 .. n /\ n \in 0 .. n /\ 0 <= n
      BY <1>1
    <3>2. p[0] <= p[n] /\ p[n] \in Int
      BY <2>3, <2>5, <3>1
    <3>3. QED
      BY <2>3, <3>2
  <2>7. QED
    BY <2>3, <2>4, <2>6
<1>3. PICK p : /\ p \in [0 .. n -> Int] /\ p[0] = 0 /\ \A j \in 1 .. n : f[j] \in Int /\ p[j] = p[j - 1] + f[j]
               /\ Added(f) = p[n] /\ p[n] \in Nat
  BY <1>1, <1>2
<1>4. PICK q : /\ q \in [0 .. n -> Int] /\ q[0] = 0 /\ \A j \in 1 .. n : g[j] \in Int /\ q[j] = q[j - 1] + g[j]
               /\ Added(g) = q[n] /\ q[n] \in Nat
  BY <1>1, <1>2
<1> DEFINE r == [j \in 0 .. n |-> p[j] + q[j]]
<1> HIDE DEF n
<1>5. r \in [0 .. n -> Int] /\ r[0] = 0 /\ r[n] = p[n] + q[n]
  BY <1>1, <1>3, <1>4
<1>6. ASSUME NEW j \in 1 .. n PROVE h[j] \in Int /\ r[j] = r[j - 1] + h[j]
  <2>1. j \in 0 .. n /\ j - 1 \in 0 .. n /\ h[j] = f[j] + g[j]
    BY <1>1 DEF n
  <2>2. r[j] = p[j] + q[j] /\ r[j - 1] = p[j - 1] + q[j - 1]
    BY <2>1
  <2>3. p[j] = p[j - 1] + f[j] /\ q[j] = q[j - 1] + g[j] /\ f[j] \in Int /\ g[j] \in Int
        /\ p[j - 1] \in Int /\ q[j - 1] \in Int
    BY <1>3, <1>4, <2>1
  <2> HIDE DEF r
  <2>4. \A a, b, c, d \in Int : (a + c) + (b + d) = (a + b) + (c + d)
    OBVIOUS
  <2>5. (p[j - 1] + f[j]) + (q[j - 1] + g[j]) = (p[j - 1] + q[j - 1]) + (f[j] + g[j])
    BY <2>3, <2>4
  <2>6. h[j] \in Int
    BY <2>1, <2>3
  <2>7. QED
    BY <2>1, <2>2, <2>3, <2>5, <2>6
<1> HIDE DEF r
<1>7. Totals(r, h, n)
  BY <1>1, <1>5, <1>6 DEF Totals
<1>8. Added(h) = r[n]
  BY <1>1, <1>7, AddedIs
<1>9. QED
  BY <1>3, <1>4, <1>5, <1>8

Counting == Blocked /\ Inc \in Nat

(* A symbol that counts leaves the counts sound, halved or not.            *)
LEMMA CountedSound ==
  ASSUME Counting, NEW c, IsCounts(c), NEW i \in 1 .. Len(c.f)
  PROVE  IsCounts(Counted(c, i)) /\ Counted(c, i).pr = c.pr
<1> DEFINE d == [c EXCEPT !.f[i] = @ + Inc, !.blk[BlockOf(i)] = @ + Inc, !.tot = @ + Inc]
           halves == [j \in DOMAIN d.f |-> d.pr.f[j] + (d.f[j] - d.pr.f[j]) \div 2]
           added == [j \in DOMAIN d.f |-> (d.f[j] - d.pr.f[j]) \div 2]
           h == [d EXCEPT !.f = halves, !.blk = BlockSums(halves), !.tot = Added(added)]
           n == Len(c.f)
           g == [c.f EXCEPT ![i] = @ + Inc]
           r == c.pr.f
<1>1. Counted(c, i) = IF d.tot > Cap THEN h ELSE d
  BY DEF Counted
<1>2. /\ {"f", "blk", "tot", "pr"} \subseteq DOMAIN c /\ IsPrior(c.pr)
      /\ c.f \in Seq(Nat \ {0}) /\ n = Len(r) /\ \A j \in 1 .. n : c.f[j] >= r[j]
      /\ c.blk = BlockSums(c.f) /\ c.tot \in Nat /\ c.pr.tot + c.tot = Added(c.f)
  BY DEF IsCounts
<1>3. r \in Seq(Nat \ {0}) /\ c.pr.tot = Added(r) /\ Inc \in Nat /\ Blocked /\ n \in Nat
  BY <1>2 DEF IsPrior, Counting
<1>4. /\ d.f = g /\ d.blk = [c.blk EXCEPT ![BlockOf(i)] = @ + Inc] /\ d.tot = c.tot + Inc /\ d.pr = c.pr
      /\ DOMAIN d = DOMAIN c
  BY <1>2
<1> HIDE DEF d
<1>5. g \in Seq(Nat \ {0}) /\ Len(g) = n /\ \A j \in 1 .. n : g[j] = IF j = i THEN c.f[j] + Inc ELSE c.f[j]
  <2>1. c.f \in [1 .. n -> Nat \ {0}]
    BY <1>2
  <2>2. g = [j \in 1 .. n |-> IF j = i THEN c.f[j] + Inc ELSE c.f[j]]
    BY <2>1
  <2>3. \A j \in 1 .. n : (IF j = i THEN c.f[j] + Inc ELSE c.f[j]) \in Nat \ {0}
    BY <1>3, <2>1
  <2> HIDE DEF g, n
  <2>4. g \in [1 .. n -> Nat \ {0}]
    BY <2>2, <2>3
  <2>5. QED
    BY <1>3, <2>2, <2>4
<1> HIDE DEF g
<1>6. Added(c.f) \in Nat /\ Added(g) = Added(c.f) + Inc /\ BlockSums(g) = [c.blk EXCEPT ![BlockOf(i)] = @ + Inc]
  <2>1. c.f \in Seq(Nat) /\ g \in Seq(Nat) /\ Len(g) = Len(c.f) /\ i \in 1 .. Len(c.f)
    BY <1>2, <1>5
  <2>2. \A j \in 1 .. Len(c.f) : g[j] = IF j = i THEN c.f[j] + Inc ELSE c.f[j]
    BY <1>5
  <2>3. /\ Added(c.f) \in Nat /\ Added(g) = Added(c.f) + Inc
        /\ BlockSums(g) = [BlockSums(c.f) EXCEPT ![BlockOf(i)] = @ + Inc]
    <3>1. Blocked /\ Inc \in Nat
      BY <1>3
    <3>2. RisesAt(c.f, g, i, Inc)
      BY <2>1, <2>2, <3>1 DEF RisesAt
    <3>3. SumsRise(c.f, g, i, Inc)
      BY <3>1, <3>2, SumsAre
    <3>4. QED
      BY <3>3 DEF SumsRise
  <2>4. QED
    BY <1>2, <2>3
<1>7. \A j \in 1 .. n : r[j] \in Nat /\ g[j] \in Nat /\ c.f[j] \in Nat /\ r[j] > 0 /\ g[j] >= r[j]
  <2>1. ASSUME NEW j \in 1 .. n PROVE r[j] \in Nat /\ g[j] \in Nat /\ c.f[j] \in Nat /\ r[j] > 0 /\ g[j] >= r[j]
    <3>1. r[j] \in Nat \ {0} /\ c.f[j] \in Nat \ {0} /\ g[j] \in Nat \ {0} /\ c.f[j] >= r[j]
      BY <1>2, <1>3, <1>5
    <3>2. g[j] = IF j = i THEN c.f[j] + Inc ELSE c.f[j]
      BY <1>5
    <3>3. QED
      BY <1>3, <3>1, <3>2
  <2>2. QED
    BY <2>1
<1>8. Added(r) \in Nat /\ c.pr.tot \in Nat
  <2> DEFINE nought == [j \in 1 .. n |-> 0]
  <2>1. nought \in Seq(Nat) /\ Len(nought) = n /\ r \in Seq(Nat) /\ Len(r) = n /\ \A j \in 1 .. n : r[j] = r[j] + nought[j]
    BY <1>2, <1>3, <1>7
  <2>2. Added(r) \in Nat
    <3> HIDE DEF nought, r, n
    <3>1. QED
      BY <2>1, AddedTwice
  <2>3. QED
    BY <1>3, <2>2
<1>9. IsCounts(d)
  <2>1. d.pr.tot + d.tot = Added(d.f)
    BY <1>2, <1>3, <1>4, <1>6, <1>8
  <2>2. d.tot \in Nat
    BY <1>2, <1>3, <1>4
  <2>3. \A j \in 1 .. Len(d.f) : d.f[j] >= d.pr.f[j]
    BY <1>4, <1>5, <1>7
  <2>4. QED
    BY <1>2, <1>4, <1>5, <1>6, <2>1, <2>2, <2>3 DEF IsCounts
<1>10. DOMAIN d.f = 1 .. n
  BY <1>4, <1>5
<1>11. \A j \in 1 .. n : (g[j] - r[j]) \div 2 \in Nat
  <2>1. ASSUME NEW j \in 1 .. n PROVE (g[j] - r[j]) \div 2 \in Nat
    <3>1. g[j] - r[j] \in Nat
      BY <1>7
    <3>2. QED
      BY <3>1, Shared
  <2>2. QED
    BY <2>1
<1>12. added = [j \in 1 .. n |-> (g[j] - r[j]) \div 2] /\ halves = [j \in 1 .. n |-> r[j] + (g[j] - r[j]) \div 2]
  BY <1>4, <1>10
<1>13. added \in Seq(Nat) /\ Len(added) = n
  <2>1. added \in [1 .. n -> Nat]
    BY <1>11, <1>12
  <2> HIDE DEF added, n
  <2>2. QED
    BY <1>3, <2>1
<1>14. /\ halves \in Seq(Nat \ {0}) /\ halves \in Seq(Nat) /\ Len(halves) = n
       /\ \A j \in 1 .. n : halves[j] = r[j] + added[j] /\ halves[j] >= r[j]
  <2>1. \A j \in 1 .. n : halves[j] = r[j] + added[j] /\ added[j] \in Nat
    BY <1>11, <1>12
  <2>2. \A j \in 1 .. n : halves[j] \in Nat \ {0} /\ halves[j] >= r[j]
    <3> HIDE DEF halves, added, n, r
    <3>1. QED
      BY <1>7, <2>1
  <2>3. halves \in [1 .. n -> Nat \ {0}]
    BY <1>12, <2>2
  <2> HIDE DEF halves, added, n
  <2>4. halves \in [1 .. n -> Nat]
    BY <2>3
  <2>5. QED
    BY <1>3, <2>1, <2>2, <2>3, <2>4
<1> HIDE DEF halves, added
<1>15. Added(added) \in Nat /\ Added(halves) = Added(r) + Added(added)
  <2>1. r \in Seq(Nat) /\ Len(r) = n
    BY <1>2, <1>3
  <2> HIDE DEF r, n
  <2>2. QED
    BY <1>13, <1>14, <2>1, AddedTwice
<1>16. /\ h.f = halves /\ h.blk = BlockSums(halves) /\ h.tot = Added(added) /\ h.pr = c.pr
       /\ DOMAIN h = DOMAIN c
  BY <1>2, <1>4
<1> HIDE DEF h
<1>17. IsCounts(h)
  <2>1. h.pr.tot + h.tot = Added(h.f)
    BY <1>3, <1>15, <1>16
  <2>2. h.tot \in Nat
    BY <1>15, <1>16
  <2>3. \A j \in 1 .. Len(h.f) : h.f[j] >= h.pr.f[j]
    BY <1>14, <1>16
  <2>4. QED
    BY <1>2, <1>14, <1>16, <2>1, <2>2, <2>3 DEF IsCounts
<1>18. QED
  BY <1>1, <1>4, <1>9, <1>16, <1>17

(* The counts of a table are sound.                                        *)
Sound(t) == \A i \in TableSlots(t.size) : t.slot[i].used => IsCounts(t.slot[i])

(* A new context has the counts of its prior.                              *)
LEMMA NewSound ==
  ASSUME NEW key, NEW pr, IsPrior(pr)
  PROVE  IsCounts(NewContext(key, pr))
<1> DEFINE c == NewContext(key, pr)
           f == pr.f
           n == Len(f)
           nought == [j \in 1 .. n |-> 0]
<1>1. f \in Seq(Nat \ {0}) /\ pr.tot = Added(f)
  BY DEF IsPrior
<1>2. /\ nought \in Seq(Nat) /\ Len(nought) = n /\ f \in Seq(Nat) /\ n \in Nat
      /\ \A j \in 1 .. n : f[j] = f[j] + nought[j] /\ f[j] \in Nat
  <2>1. n \in Nat /\ f \in [1 .. n -> Nat \ {0}]
    BY <1>1
  <2> HIDE DEF f, n
  <2>2. \A j \in 1 .. n : f[j] \in Nat
    BY <2>1
  <2>3. f \in [1 .. n -> Nat]
    BY <2>1, <2>2
  <2>4. QED
    BY <2>1, <2>2, <2>3, <1>1 DEF n
<1>3. Added(f) \in Nat
  <2> HIDE DEF f, nought
  <2>1. QED
    BY <1>2, AddedTwice
<1>4. /\ DOMAIN c = {"used", "key", "pr", "f", "blk", "tot"} /\ c.pr = pr /\ c.f = f /\ c.blk = BlockSums(f)
      /\ c.tot = 0
  BY DEF NewContext
<1> HIDE DEF c
<1>5. c.pr.tot + c.tot = Added(f)
  BY <1>1, <1>3, <1>4
<1>6. \A j \in 1 .. Len(c.f) : c.f[j] >= c.pr.f[j]
  BY <1>2, <1>4
<1>7. IsCounts(c)
  BY <1>1, <1>4, <1>5, <1>6 DEF IsCounts
<1>8. QED
  BY <1>7 DEF c

(* The context of a symbol has sound counts when all of the table do.      *)
LEMMA FoundSound ==
  ASSUME SymbolAssumption, Hashes, NEW t, IsMap(t), Sound(t), NEW key, NEW pr, IsPrior(pr)
  PROVE  LET a == ctx_find(t, key, pr)
         IN  /\ IsMap(a.t) /\ Sound(a.t) /\ a.at \in TableSlots(a.t.size) /\ a.t.slot[a.at].used
             /\ IsCounts(a.t.slot[a.at]) /\ a.t.slot[a.at].pr = pr
<1> DEFINE a == ctx_find(t, key, pr)
<1>1. /\ IsMap(a.t) /\ a.at \in TableSlots(a.t.size) /\ a.t.slot[a.at].used
      /\ Holds(a.t.slot[a.at], key, pr)
      /\ \A k \in TableSlots(a.t.size) : a.t.slot[k].used =>
            \/ a.t.slot[k] = NewContext(key, pr)
            \/ \E j \in TableSlots(t.size) : t.slot[j].used /\ a.t.slot[k] = t.slot[j]
  BY Finds
<1> HIDE DEF a
<1>2. IsCounts(NewContext(key, pr))
  BY NewSound
<1>3. Sound(a.t)
  BY <1>1, <1>2 DEF Sound
<1>4. IsCounts(a.t.slot[a.at]) /\ a.t.slot[a.at].pr = pr
  BY <1>1, <1>3 DEF Sound, Holds
<1>5. QED
  BY <1>1, <1>3, <1>4 DEF a

(* The table stays sound when a symbol counts.                             *)
LEMMA TableSound ==
  ASSUME SymbolAssumption, Hashes, Counting, NEW t, IsMap(t), Sound(t), NEW i \in TableSlots(t.size),
         t.slot[i].used, NEW n \in 1 .. Len(t.slot[i].f)
  PROVE  LET u == [t EXCEPT !.slot[i] = Counted(t.slot[i], n)] IN IsMap(u) /\ Sound(u)
<1> DEFINE c == Counted(t.slot[i], n)
           u == With(t, i, c)
<1>1. IsMap([t EXCEPT !.slot[i] = Counted(t.slot[i], n)])
  BY Counts
<1>2. u = [t EXCEPT !.slot[i] = Counted(t.slot[i], n)]
  BY Zenon DEF With
<1>3. IsCounts(c)
  BY CountedSound DEF Sound
<1> HIDE DEF c
<1>4. PICK s, f, l : t = Table(s, f, l) /\ IsTable(s, f, l)
  BY DEF IsMap
<1>5. t.size = s /\ t.slot = f
  BY <1>4 DEF Table
<1>6. u = Table(s, [f EXCEPT ![i] = c], l)
  BY <1>4, WithIs
<1>7. u.size = s /\ u.slot = [f EXCEPT ![i] = c]
  BY <1>6 DEF Table
<1> HIDE DEF u
<1>8. f = [k \in TableSlots(s) |-> f[k]]
  BY <1>4, TableParts
<1>9. \A k \in TableSlots(s) : u.slot[k] = IF k = i THEN c ELSE f[k]
  BY <1>5, <1>7, <1>8
<1>10. Sound(u)
  BY <1>3, <1>5, <1>7, <1>9 DEF Sound
<1>11. QED
  BY <1>1, <1>2, <1>10

(* The step of a symbol, from where it begins to where it ends, lies within*)
(* the total, and its first and its last target are decoded to it.         *)
LEMMA StepIs ==
  ASSUME Blocked, NEW c, IsCounts(c), NEW i \in 1 .. Len(c.f)
  PROVE  LET fl == FirstOf(c, i)
             fh == FirstOf(c, i) + c.f[i]
         IN  /\ fl \in Nat /\ fh \in Nat /\ fl < fh /\ fh <= c.pr.tot + c.tot /\ c.pr.tot + c.tot \in Nat
             /\ Symbol(c, fl) = i /\ Symbol(c, fh - 1) = i
<1> DEFINE n == Len(c.f)
<1>1. c.f \in Seq(Nat \ {0}) /\ c.blk = BlockSums(c.f) /\ c.pr.tot + c.tot = Added(c.f)
  BY DEF IsCounts
<1>2. n \in Nat /\ c.f \in [1 .. n -> Nat \ {0}]
  BY <1>1
<1>3. c.f \in Seq(Nat) /\ \A j \in 1 .. n : c.f[j] \in Int /\ c.f[j] > 0 /\ c.f[j] >= 0
  <2> DEFINE f == c.f
  <2> HIDE DEF n
  <2>1. f \in [1 .. n -> Nat \ {0}]
    BY <1>2
  <2> HIDE DEF f
  <2>2. f \in [1 .. n -> Nat]
    BY <2>1
  <2>3. f \in Seq(Nat)
    BY <1>2, <2>2
  <2>4. \A j \in 1 .. n : f[j] \in Int /\ f[j] > 0 /\ f[j] >= 0
    BY <2>1
  <2>5. QED
    BY <2>3, <2>4 DEF f
<1>4. PICK p : Totals(p, c.f, n)
  <2> HIDE DEF n
  <2>1. QED
    BY <1>2, <1>3, TotalsExist
<1>5. p \in [0 .. n -> Int] /\ p[0] = 0 /\ \A j \in 1 .. n : c.f[j] \in Int /\ p[j] = p[j - 1] + c.f[j]
  BY <1>4 DEF Totals
<1>6. \A j, k \in 0 .. n : j <= k => p[j] <= p[k]
  <2> HIDE DEF n
  <2>1. QED
    BY <1>3, <1>4, TotalsRise
<1>7. FirstOf(c, i) = p[i - 1]
  BY <1>1, <1>3, <1>4, FirstIs
<1>8. Added(c.f) = p[n]
  BY <1>2, <1>4, AddedIs
<1>9. i - 1 \in 0 .. n /\ i \in 0 .. n /\ 0 \in 0 .. n /\ n \in 0 .. n /\ 0 <= i - 1 /\ i <= n
  BY <1>2
<1>10. /\ p[i - 1] \in Int /\ p[i] \in Int /\ p[n] \in Int /\ p[0] <= p[i - 1] /\ p[i] <= p[n] /\ p[0] = 0
       /\ p[i] = p[i - 1] + c.f[i] /\ c.f[i] \in Int /\ c.f[i] > 0
  BY <1>3, <1>5, <1>6, <1>9
<1>11. FirstOf(c, i) + c.f[i] = p[i]
  BY <1>7, <1>10
<1>12. p[i - 1] < p[i] /\ p[i] - 1 \in Int /\ p[i - 1] <= p[i] - 1 /\ p[i] - 1 < p[i]
  BY <1>10
<1>13. Symbol(c, p[i - 1]) = i
  <2>1. p[i - 1] <= p[i - 1]
    BY <1>10
  <2>2. QED
    BY <1>1, <1>3, <1>4, <1>10, <1>12, <2>1, SymbolIs
<1>14. Symbol(c, p[i] - 1) = i
  BY <1>1, <1>3, <1>4, <1>12, SymbolIs
<1>15. p[i - 1] \in Nat /\ p[i] \in Nat /\ p[n] \in Nat
  BY <1>10, <1>12
<1>16. QED
  BY <1>1, <1>7, <1>8, <1>10, <1>11, <1>12, <1>13, <1>14, <1>15

-----------------------------------------------------------------------------
(* A packer that has coded nothing but steps, and an unpacker like it.     *)
Spans == [fl : Nat, fh : Nat, ft : Nat]

Packer(x) ==
  /\ {"mode", "done", "v", "wire", "ctxs", "site", "theta", "fine", "c0fine", "k"} \subseteq DOMAIN x
  /\ x.mode = "pack" /\ x.wire \in Seq(Spans) /\ x.done \in Nat /\ x.k = 0
  /\ IsMap(x.ctxs) /\ Sound(x.ctxs)

Twin(x, w) == [x EXCEPT !.mode = "unpack", !.wire = w]

(* The step of a symbol in its context, and the table after it.            *)
StepOf(x, key, pr, v) ==
  LET a == ctx_find(x.ctxs, key, pr)
      c == a.t.slot[a.at]
  IN  Step(FirstOf(c, v + 1), FirstOf(c, v + 1) + c.f[v + 1], pr.tot + c.tot)

TableOf(x, key, pr, v) ==
  LET a == ctx_find(x.ctxs, key, pr)
  IN  [a.t EXCEPT !.slot[a.at] = Counted(a.t.slot[a.at], v + 1)]

(* What the packer makes of a symbol, and the unpacker that reads its step.*)
AfterPacking(x, sp, v, t) == [[[x EXCEPT !.wire = Append(@, sp)] EXCEPT !.v = v] EXCEPT !.ctxs = t]

AfterReading(y, v, t) == [[y EXCEPT !.wire = Tail(@), !.v = v] EXCEPT !.ctxs = t]

(* The step of a symbol is one of the coder's, and the table stays sound.  *)
LEMMA StepSound ==
  ASSUME SymbolAssumption, Hashes, Counting, NEW x, IsMap(x.ctxs), Sound(x.ctxs), NEW key, NEW pr, IsPrior(pr),
         NEW v \in 0 .. Len(pr.f) - 1
  PROVE  LET a == ctx_find(x.ctxs, key, pr)
             c == a.t.slot[a.at]
             fl == FirstOf(c, v + 1)
             fh == FirstOf(c, v + 1) + c.f[v + 1]
             ft == pr.tot + c.tot
         IN  /\ fl < fh /\ fh <= ft /\ StepOf(x, key, pr, v) = Step(fl, fh, ft) /\ StepOf(x, key, pr, v) \in Spans
             /\ Symbol(c, fl) - 1 = v /\ Symbol(c, fh - 1) - 1 = v
             /\ IsMap(TableOf(x, key, pr, v)) /\ Sound(TableOf(x, key, pr, v))
             /\ Len(pr.f) \in Nat
<1> DEFINE a == ctx_find(x.ctxs, key, pr)
           c == a.t.slot[a.at]
           fl == FirstOf(c, v + 1)
           fh == FirstOf(c, v + 1) + c.f[v + 1]
           ft == pr.tot + c.tot
<1>1. /\ IsMap(a.t) /\ Sound(a.t) /\ a.at \in TableSlots(a.t.size) /\ a.t.slot[a.at].used
      /\ IsCounts(a.t.slot[a.at]) /\ a.t.slot[a.at].pr = pr
  BY FoundSound
<1>2. TableOf(x, key, pr, v) = [a.t EXCEPT !.slot[a.at] = Counted(a.t.slot[a.at], v + 1)]
  BY Zenon DEF TableOf
<1>3. StepOf(x, key, pr, v) = Step(fl, fh, ft)
  BY DEF StepOf
<1> HIDE DEF a
<1>4. Len(pr.f) \in Nat /\ Len(c.f) = Len(pr.f)
  <2>1. pr.f \in Seq(Nat \ {0})
    BY DEF IsPrior
  <2>2. Len(c.f) = Len(pr.f)
    BY <1>1 DEF IsCounts
  <2>3. QED
    BY <2>1, <2>2
<1>5. v \in Nat /\ v + 1 \in 1 .. Len(c.f) /\ v + 1 \in 1 .. Len(a.t.slot[a.at].f)
  BY <1>4
<1>6. IsCounts(c) /\ c.pr = pr /\ Blocked
  BY <1>1 DEF Counting
<1>7. /\ fl \in Nat /\ fh \in Nat /\ fl < fh /\ fh <= c.pr.tot + c.tot /\ c.pr.tot + c.tot \in Nat
      /\ Symbol(c, fl) = v + 1 /\ Symbol(c, fh - 1) = v + 1
  <2> HIDE DEF c
  <2>1. QED
    BY <1>5, <1>6, StepIs
<1>8. IsMap(TableOf(x, key, pr, v)) /\ Sound(TableOf(x, key, pr, v))
  <2> DEFINE t == a.t
             i == a.at
             n == v + 1
             u == [t EXCEPT !.slot[i] = Counted(t.slot[i], n)]
  <2>1. IsMap(t) /\ Sound(t) /\ i \in TableSlots(t.size) /\ t.slot[i].used /\ n \in 1 .. Len(t.slot[i].f)
    BY <1>1, <1>5
  <2>2. TableOf(x, key, pr, v) = u
    BY <1>2
  <2> HIDE DEF t, i, n
  <2>3. IsMap(u) /\ Sound(u)
    BY <2>1, TableSound
  <2> HIDE DEF u
  <2>4. QED
    BY <2>2, <2>3
<1> HIDE DEF fl, fh, c
<1>9. fl \in Nat /\ fh \in Nat /\ ft \in Nat /\ fh <= ft
  BY <1>6, <1>7
<1> HIDE DEF ft
<1>10. Step(fl, fh, ft) \in Spans
  BY <1>9 DEF Step, Spans
<1>11. Symbol(c, fl) - 1 = v /\ Symbol(c, fh - 1) - 1 = v
  BY <1>5, <1>7
<1>12. QED
  BY <1>3, <1>4, <1>7, <1>8, <1>9, <1>10, <1>11 DEF a, c, fl, fh, ft

(* The packer codes the step of the symbol.                                *)
LEMMA CodePacks ==
  ASSUME SymbolAssumption, Hashes, Counting, NEW x, Packer(x), NEW key, NEW pr, IsPrior(pr),
         NEW v \in 0 .. Len(pr.f) - 1
  PROVE  ctx_code(x, key, pr, v) = AfterPacking(x, StepOf(x, key, pr, v), v, TableOf(x, key, pr, v))
<1> DEFINE a == ctx_find(x.ctxs, key, pr)
           c == a.t.slot[a.at]
           t == Clamp(v, Len(pr.f))
           fl == FirstOf(c, t + 1)
           fh == FirstOf(c, t + 1) + c.f[t + 1]
           ft == pr.tot + c.tot
           Updated(y) == IF y.mode = x.mode
                           THEN [y EXCEPT !.ctxs = [a.t EXCEPT !.slot[a.at] = Counted(c, y.v + 1)]]
                         ELSE y
           done == [p_cum(x, fl, fh, ft) EXCEPT !.v = t]
           z == ctx_code(x, key, pr, v)
<1>1. x.mode = "pack" /\ Packing(x)
  BY DEF Packer, Packing
<1>2. z = Updated(done)
  BY <1>1, ZenonT(60) DEF ctx_code
<1>3. t = v
  <2>1. Len(pr.f) \in Nat
    <3>1. pr.f \in Seq(Nat \ {0})
      BY DEF IsPrior
    <3>2. QED
      BY <3>1
  <2>2. QED
    BY <2>1 DEF Clamp
<1>4. IsMap(x.ctxs) /\ Sound(x.ctxs)
  BY DEF Packer
<1> HIDE DEF t, z
<1>5. fl < fh /\ fh <= ft /\ StepOf(x, key, pr, v) = Step(fl, fh, ft)
  BY <1>3, <1>4, StepSound
<1>6. TableOf(x, key, pr, v) = [a.t EXCEPT !.slot[a.at] = Counted(c, v + 1)]
  BY Zenon DEF TableOf
<1> DEFINE w == [x EXCEPT !.wire = Append(@, Step(fl, fh, ft))]
           u == [a.t EXCEPT !.slot[a.at] = Counted(c, v + 1)]
<1>7. p_cum(x, fl, fh, ft) = w
  <2> HIDE DEF fl, fh, ft
  <2>1. QED
    BY <1>5 DEF p_cum
<1>8. done = [w EXCEPT !.v = v]
  <2> HIDE DEF w, fl, fh, ft
  <2>1. QED
    BY <1>3, <1>7
<1>9. done.mode = x.mode /\ done.v = v
  <2>1. {"mode", "v"} \subseteq DOMAIN x
    BY DEF Packer
  <2> HIDE DEF done, fl, fh, ft
  <2>2. QED
    BY <1>8, <2>1
<1>10. Updated(done) = [done EXCEPT !.ctxs = u]
  <2> HIDE DEF done, a, c
  <2>1. QED
    BY <1>9
<1>11. QED
  <2> HIDE DEF done, u, Updated, fl, fh, ft, a, c
  <2>1. z = [[w EXCEPT !.v = v] EXCEPT !.ctxs = u]
    BY <1>2, <1>8, <1>10
  <2>2. QED
    BY <1>5, <1>6, <2>1, Zenon DEF AfterPacking, u, z

(* The unpacker reads the symbol from its step.                            *)
LEMMA CodeReads ==
  ASSUME SymbolAssumption, Hashes, Counting, NEW x, IsMap(x.ctxs), Sound(x.ctxs), NEW key, NEW pr, IsPrior(pr),
         NEW v \in 0 .. Len(pr.f) - 1, NEW y, {"mode", "wire", "v"} \subseteq DOMAIN y,
         y.mode = "unpack", y.ctxs = x.ctxs, y.wire # <<>>, Head(y.wire) = StepOf(x, key, pr, v), NEW any
  PROVE  ctx_code(y, key, pr, any) = AfterReading(y, v, TableOf(x, key, pr, v))
<1> DEFINE a == ctx_find(y.ctxs, key, pr)
           c == a.t.slot[a.at]
           fl == FirstOf(c, v + 1)
           fh == FirstOf(c, v + 1) + c.f[v + 1]
           ft == pr.tot + c.tot
           sp == Head(y.wire)
           w == Symbol(c, sp.fl) - 1
           Updated(u) == IF u.mode = y.mode
                           THEN [u EXCEPT !.ctxs = [a.t EXCEPT !.slot[a.at] = Counted(c, u.v + 1)]]
                         ELSE u
           read == [y EXCEPT !.wire = Tail(@), !.v = w]
           bad == y.wire = <<>> \/ y.mode # "unpack" \/ "fl" \notin DOMAIN sp
           fits == /\ sp.ft = ft /\ Symbol(c, sp.fh - 1) - 1 = w
                   /\ <<FirstOf(c, w + 1), FirstOf(c, w + 1) + c.f[w + 1]>> = <<sp.fl, sp.fh>>
           r == IF bad THEN Lost(y) ELSE IF fits THEN read ELSE Lost(y)
           z == ctx_code(y, key, pr, any)
<1>1. y.mode \in {"pack", "unpack"} /\ ~Packing(y)
  BY DEF Packing
<1>2. z = Updated(r)
  BY <1>1, ZenonT(60) DEF ctx_code, Targeted
<1>3. /\ StepOf(x, key, pr, v) = Step(fl, fh, ft) /\ Symbol(c, fl) - 1 = v /\ Symbol(c, fh - 1) - 1 = v
      /\ TableOf(x, key, pr, v) = [a.t EXCEPT !.slot[a.at] = Counted(c, v + 1)]
  <2> DEFINE b == ctx_find(x.ctxs, key, pr)
             d == b.t.slot[b.at]
             gl == FirstOf(d, v + 1)
             gh == FirstOf(d, v + 1) + d.f[v + 1]
  <2>1. /\ StepOf(x, key, pr, v) = Step(gl, gh, pr.tot + d.tot)
        /\ Symbol(d, gl) - 1 = v /\ Symbol(d, gh - 1) - 1 = v
    BY StepSound
  <2>2. TableOf(x, key, pr, v) = [b.t EXCEPT !.slot[b.at] = Counted(d, v + 1)]
    BY Zenon DEF TableOf
  <2>3. a = b
    OBVIOUS
  <2> HIDE DEF a, b
  <2>4. QED
    BY <2>1, <2>2, <2>3, Zenon
<1> HIDE DEF a, z, c
<1>4. sp = Step(fl, fh, ft)
  BY <1>3
<1>5. "fl" \in DOMAIN sp /\ sp.fl = fl /\ sp.fh = fh /\ sp.ft = ft
  <2> HIDE DEF fl, fh, ft, sp
  <2>1. QED
    BY <1>4 DEF Step
<1> HIDE DEF sp
<1>6. w = v /\ Symbol(c, sp.fh - 1) - 1 = w
  <2> HIDE DEF fl, fh
  <2>1. QED
    BY <1>3, <1>5
<1> HIDE DEF w
<1>7. ~bad /\ fits
  <2>1. <<FirstOf(c, w + 1), FirstOf(c, w + 1) + c.f[w + 1]>> = <<sp.fl, sp.fh>>
    BY <1>5, <1>6
  <2> HIDE DEF fl, fh, ft
  <2>2. QED
    BY <1>5, <1>6, <2>1
<1> HIDE DEF bad, fits
<1>8. r = read
  BY <1>7
<1>9. read.mode = y.mode /\ read.v = v /\ read = [y EXCEPT !.wire = Tail(@), !.v = v]
  BY <1>6
<1> HIDE DEF r, read
<1> DEFINE u == [a.t EXCEPT !.slot[a.at] = Counted(c, v + 1)]
<1>10. Updated(r) = [read EXCEPT !.ctxs = u]
  BY <1>8, <1>9
<1> HIDE DEF u, Updated
<1>11. z = [read EXCEPT !.ctxs = u] /\ TableOf(x, key, pr, v) = u
  BY <1>2, <1>3, <1>10 DEF u
<1>12. QED
  BY <1>9, <1>11, Zenon DEF AfterReading, z

(* Its state is then that of the packer again, but for what is left to read.*)
LEMMA StillTwins ==
  ASSUME NEW x, Packer(x), NEW sp, NEW v, NEW t, NEW rest, NEW all, Tail(all) = rest
  PROVE  AfterReading(Twin(x, all), v, t) = Twin(AfterPacking(x, sp, v, t), rest)
<1> DEFINE D == DOMAIN x
           p == Twin(x, all)
           l == AfterReading(p, v, t)
           q == AfterPacking(x, sp, v, t)
           r == Twin(q, rest)
           z == [d \in D |-> CASE d = "mode" -> "unpack" [] d = "wire" -> rest [] d = "v" -> v
                               [] d = "ctxs" -> t [] OTHER -> x[d]]
<1>1. {"mode", "wire", "v", "ctxs"} \subseteq D
  BY DEF Packer
<1>2. p = [d \in D |-> IF d = "mode" THEN "unpack" ELSE IF d = "wire" THEN all ELSE x[d]]
  BY <1>1 DEF Twin
<1> HIDE DEF p
<1>3. l = [d \in D |-> IF d = "ctxs" THEN t ELSE IF d = "v" THEN v ELSE IF d = "wire" THEN Tail(p.wire) ELSE p[d]]
  BY <1>1, <1>2 DEF AfterReading
<1>4. p.wire = all
  BY <1>1, <1>2
<1> HIDE DEF l
<1>5. l = z
  BY <1>2, <1>3, <1>4
<1>6. q = [d \in D |-> IF d = "ctxs" THEN t ELSE IF d = "v" THEN v ELSE IF d = "wire" THEN Append(x.wire, sp) ELSE x[d]]
  BY <1>1 DEF AfterPacking
<1> HIDE DEF q
<1>7. r = [d \in D |-> IF d = "mode" THEN "unpack" ELSE IF d = "wire" THEN rest ELSE q[d]]
  BY <1>1, <1>6 DEF Twin
<1> HIDE DEF r
<1>8. r = z
  BY <1>6, <1>7
<1>9. QED
  BY <1>5, <1>8 DEF l, r, p, q

(* The symbol as one step, read by whoever has the same state.             *)
CodedBy(x, key, pr, v, p, sp) ==
  /\ Packer(p) /\ sp \in Spans /\ p.wire = Append(x.wire, sp) /\ p.v = v /\ p.done = x.done
  /\ \A rest \in Seq(Spans) : \A any : ctx_code(Twin(x, <<sp>> \o rest), key, pr, any) = Twin(p, rest)

(* A symbol of a context comes back.                                       *)
LEMMA CodeReturns ==
  ASSUME SymbolAssumption, Hashes, Counting, NEW x, Packer(x), NEW key, NEW pr, IsPrior(pr),
         NEW v \in 0 .. Len(pr.f) - 1
  PROVE  CodedBy(x, key, pr, v, ctx_code(x, key, pr, v), StepOf(x, key, pr, v))
<1> DEFINE p == ctx_code(x, key, pr, v)
           sp == StepOf(x, key, pr, v)
           t == TableOf(x, key, pr, v)
<1>1. /\ {"mode", "done", "v", "wire", "ctxs", "site", "theta", "fine", "c0fine", "k"} \subseteq DOMAIN x
      /\ x.mode = "pack" /\ x.wire \in Seq(Spans) /\ x.done \in Nat /\ x.k = 0
      /\ IsMap(x.ctxs) /\ Sound(x.ctxs)
  BY DEF Packer
<1>2. p = AfterPacking(x, sp, v, t)
  BY CodePacks
<1>3. sp \in Spans /\ IsMap(t) /\ Sound(t)
  BY <1>1, StepSound
<1>4. ASSUME NEW rest \in Seq(Spans), NEW any
      PROVE  ctx_code(Twin(x, <<sp>> \o rest), key, pr, any) = Twin(p, rest)
  <2> DEFINE all == <<sp>> \o rest
             y == Twin(x, all)
  <2> HIDE DEF sp, t, p
  <2>1. all # <<>> /\ Head(all) = sp /\ Tail(all) = rest
    <3>1. <<sp>> \in Seq(Spans) /\ all \in Seq(Spans) /\ Len(all) = Len(rest) + 1 /\ all[1] = sp /\ Len(rest) \in Nat
      BY <1>3
    <3>2. \A i \in 1 .. Len(rest) : all[i + 1] = rest[i]
      BY <1>3
    <3>3. Tail(all) \in Seq(Spans) /\ Len(Tail(all)) = Len(rest) /\ \A i \in 1 .. Len(rest) : Tail(all)[i] = all[i + 1]
      BY <3>1
    <3>4. Tail(all) = [i \in 1 .. Len(rest) |-> Tail(all)[i]] /\ rest = [i \in 1 .. Len(rest) |-> rest[i]]
      BY <3>3
    <3>5. Tail(all) = rest
      BY <3>2, <3>3, <3>4
    <3>6. QED
      BY <3>1, <3>5
  <2> HIDE DEF all
  <2>2. {"mode", "wire", "v"} \subseteq DOMAIN y /\ y.mode = "unpack" /\ y.ctxs = x.ctxs /\ y.wire = all
    BY <1>1 DEF Twin
  <2> HIDE DEF y
  <2>3. ctx_code(y, key, pr, any) = AfterReading(y, v, t)
    BY <1>1, <2>1, <2>2, CodeReads DEF sp, t
  <2>4. AfterReading(Twin(x, all), v, t) = Twin(AfterPacking(x, sp, v, t), rest)
    BY <2>1, StillTwins
  <2>5. QED
    BY <1>2, <2>3, <2>4 DEF y, all
<1> HIDE DEF p, sp, t
<1>5. /\ DOMAIN p = DOMAIN x /\ p.wire = Append(x.wire, sp) /\ p.v = v /\ p.ctxs = t /\ p.mode = x.mode
      /\ p.k = x.k /\ p.done = x.done
  BY <1>1, <1>2 DEF AfterPacking
<1>6. Packer(p)
  <2>1. Append(x.wire, sp) \in Seq(Spans)
    BY <1>1, <1>3
  <2>2. QED
    BY <1>1, <1>3, <1>5, <2>1 DEF Packer
<1>7. QED
  BY <1>3, <1>4, <1>5, <1>6 DEF p, sp, CodedBy

-----------------------------------------------------------------------------
(* Priors that are built have a weight for each symbol.                    *)
LEMMA Builds ==
  ASSUME Scale \in Nat, NEW id, NEW raw, raw \in Seq(Nat), Len(raw) > 0, NEW ft \in Nat, ft > 0
  PROVE  IsPrior(pri_build(id, raw, ft, Scale)) /\ Len(pri_build(id, raw, ft, Scale).f) = Len(raw)
<1> DEFINE n == Len(raw)
           f == [i \in DOMAIN raw |-> AtLeastOne((raw[i] * Scale + ft \div 2) \div ft)]
           pr == pri_build(id, raw, ft, Scale)
<1>1. n \in Nat /\ n > 0 /\ DOMAIN raw = 1 .. n
  OBVIOUS
<1>2. pr.f = f /\ pr.tot = Added(f)
  BY DEF pri_build
<1>3. ASSUME NEW i \in 1 .. n PROVE AtLeastOne((raw[i] * Scale + ft \div 2) \div ft) \in Nat \ {0}
  <2>1. raw[i] \in Nat
    OBVIOUS
  <2>2. raw[i] * Scale \in Nat /\ ft \div 2 \in Nat
    BY <2>1, Shared
  <2> DEFINE a == raw[i] * Scale + ft \div 2
  <2>3. a \in Nat
    BY <2>2
  <2> HIDE DEF a
  <2>4. a \div ft \in Nat
    BY <2>3, Shared
  <2> DEFINE b == a \div ft
  <2> HIDE DEF b
  <2>5. AtLeastOne(b) \in Nat \ {0}
    BY <2>4 DEF AtLeastOne, b
  <2>6. QED
    BY <2>5 DEF a, b
<1>4. f \in [1 .. n -> Nat \ {0}]
  BY <1>1, <1>3
<1> HIDE DEF f, n, pr
<1>5. f \in Seq(Nat \ {0}) /\ Len(f) = n
  BY <1>1, <1>4
<1>6. QED
  BY <1>1, <1>2, <1>5 DEF IsPrior, pr, n

(* The priors of tables, angles and numbers that are all alike.            *)
LEMMA PriorsAre ==
  ASSUME Scale \in Nat
  PROVE  /\ \A raw \in Seq(Nat) : Len(raw) > 0 /\ Added(raw) \in Nat /\ Added(raw) > 0 =>
              IsPrior(prior_icdf(raw)) /\ Len(prior_icdf(raw).f) = Len(raw)
         /\ \A qn \in Nat : \A step \in BOOLEAN :
              IsPrior(prior_theta(step, qn)) /\ Len(prior_theta(step, qn).f) = qn + 1
         /\ \A n \in Nat : n > 0 => IsPrior(prior_uniform(n)) /\ Len(prior_uniform(n).f) = n
<1>1. ASSUME NEW raw \in Seq(Nat), Len(raw) > 0, Added(raw) \in Nat, Added(raw) > 0
      PROVE  IsPrior(prior_icdf(raw)) /\ Len(prior_icdf(raw).f) = Len(raw)
  BY <1>1, Builds DEF prior_icdf
<1>2. ASSUME NEW qn \in Nat, NEW step \in BOOLEAN
      PROVE  IsPrior(prior_theta(step, qn)) /\ Len(prior_theta(step, qn).f) = qn + 1
  <2> DEFINE h == qn \div 2
             raw == [i \in 1 .. qn + 1 |-> IF step THEN IF i - 1 <= h THEN 3 ELSE 1
                                           ELSE IF i - 1 <= h THEN i ELSE qn + 2 - i]
             ft == IF step THEN 3 * (h + 1) + h ELSE (h + 1) * (h + 1)
  <2>1. h \in Nat
    BY Shared
  <2>2. prior_theta(step, qn) = pri_build(<<"theta", step, qn>>, raw, ft, Scale)
    BY DEF prior_theta
  <2> HIDE DEF h
  <2>3. raw \in Seq(Nat) /\ Len(raw) = qn + 1
    <3>1. \A i \in 1 .. qn + 1 : i \in Nat /\ qn + 2 - i \in Nat
      OBVIOUS
    <3>2. raw \in [1 .. qn + 1 -> Nat]
      BY <2>1, <3>1
    <3> HIDE DEF raw
    <3>3. QED
      BY <3>2
  <2>4. ft \in Nat /\ ft > 0
    <3>1. (h + 1) * (h + 1) \in Nat /\ (h + 1) * (h + 1) > 0
      BY <2>1
    <3>2. 3 * (h + 1) + h \in Nat /\ 3 * (h + 1) + h > 0
      BY <2>1
    <3>3. QED
      BY <3>1, <3>2
  <2> HIDE DEF raw, ft
  <2>5. QED
    BY <2>2, <2>3, <2>4, Builds
<1>3. ASSUME NEW n \in Nat, n > 0 PROVE IsPrior(prior_uniform(n)) /\ Len(prior_uniform(n).f) = n
  <2> DEFINE raw == [i \in 1 .. n |-> 1]
  <2>1. raw \in Seq(Nat) /\ Len(raw) = n
    <3>1. raw \in [1 .. n -> Nat]
      OBVIOUS
    <3> HIDE DEF raw
    <3>2. QED
      BY <3>1
  <2>2. prior_uniform(n) = pri_build(<<"uniform", n>>, raw, n, Scale)
    BY DEF prior_uniform
  <2> HIDE DEF raw
  <2>3. QED
    BY <1>3, <2>1, <2>2, Builds
<1>4. QED
  BY <1>1, <1>2, <1>3

-----------------------------------------------------------------------------
(* Symbols that are coded in a context of their own: of tables, angles,    *)
(* numbers that have counts and are no index of pulses, and fine energy.   *)
InContext(op) ==
  /\ {"kind", "v"} \subseteq DOMAIN op
  /\ \/ /\ op.kind = "icdf" /\ {"table", "site"} \subseteq DOMAIN op
        /\ op.table \in Seq(Nat) /\ Added(op.table) \in Nat /\ Added(op.table) > 0
        /\ op.v \in 0 .. Len(op.table) - 1
     \/ /\ op.kind = "theta" /\ {"b", "step", "n", "qn"} \subseteq DOMAIN op
        /\ op.qn \in Nat \ {0} /\ op.step \in BOOLEAN /\ op.v \in 0 .. op.qn
     \/ /\ op.kind = "uint" /\ {"site", "V"} \subseteq DOMAIN op /\ "pulses" \notin DOMAIN op
        /\ op.V \in Nat \ {0} /\ op.V <= ModelMax /\ op.v \in 0 .. op.V - 1
     \/ /\ op.kind = "bits" /\ {"b", "c", "nb", "fine"} \subseteq DOMAIN op /\ op.fine
        /\ 2 ^ op.nb \in Nat \ {0} /\ op.v \in 0 .. 2 ^ op.nb - 1

(* The op codes one step, and whoever reads it has the value.              *)
ComesBy(x, op, p, sp) ==
  /\ Packer(p) /\ p.wire = Append(x.wire, sp) /\ p.v = op.v /\ p.done = x.done
  /\ \A rest \in Seq(Spans) : om_op(Twin(x, <<sp>> \o rest), Asked(op)) = Twin(p, rest)

(* What is asked for is the op without its value.                          *)
LEMMA AskedIs ==
  ASSUME NEW op
  PROVE  DOMAIN Asked(op) = DOMAIN op /\ \A d \in DOMAIN op : d # "v" => Asked(op)[d] = op[d]
BY DEF Asked

(* A twin has what the packer has.                                         *)
LEMMA TwinHas ==
  ASSUME NEW x, NEW w
  PROVE  /\ DOMAIN Twin(x, w) = DOMAIN x
         /\ \A d \in DOMAIN x : d # "mode" /\ d # "wire" => Twin(x, w)[d] = x[d]
BY DEF Twin

KeptBy(p, d, g, q) ==
  /\ Packer(q) /\ q.wire = p.wire /\ q.v = p.v /\ q.done = p.done
  /\ \A rest : [Twin(p, rest) EXCEPT ![d] = g] = Twin(q, rest)

(* What is kept of a symbol is kept on both sides.                         *)
LEMMA KeptTwin ==
  ASSUME NEW p, Packer(p), NEW d, d \in {"site", "theta", "fine", "c0fine"}, NEW g
  PROVE  KeptBy(p, d, g, [p EXCEPT ![d] = g])
<1> DEFINE q == [p EXCEPT ![d] = g]
           D == DOMAIN p
<1>1. {"mode", "done", "v", "wire", "ctxs", "site", "theta", "fine", "c0fine", "k"} \subseteq D
  BY DEF Packer
<1>2. q = [e \in D |-> IF e = d THEN g ELSE p[e]]
  BY <1>1
<1> HIDE DEF q
<1>3. /\ q.wire = p.wire /\ q.v = p.v /\ q.done = p.done /\ q.mode = p.mode /\ q.k = p.k /\ q.ctxs = p.ctxs
      /\ DOMAIN q = D
  BY <1>1, <1>2
<1>4. Packer(q)
  BY <1>1, <1>3 DEF Packer
<1>5. ASSUME NEW rest PROVE [Twin(p, rest) EXCEPT ![d] = g] = Twin(q, rest)
  <2> DEFINE y == Twin(p, rest)
             z == Twin(q, rest)
             u == [y EXCEPT ![d] = g]
  <2>1. y = [e \in D |-> IF e = "mode" THEN "unpack" ELSE IF e = "wire" THEN rest ELSE p[e]]
    BY <1>1 DEF Twin
  <2>2. z = [e \in D |-> IF e = "mode" THEN "unpack" ELSE IF e = "wire" THEN rest ELSE q[e]]
    BY <1>1, <1>3 DEF Twin
  <2> HIDE DEF y, z
  <2>3. u = [e \in D |-> IF e = d THEN g ELSE y[e]]
    BY <2>1
  <2> HIDE DEF u
  <2>4. u = z
    BY <1>2, <2>1, <2>2, <2>3
  <2>5. QED
    BY <2>4 DEF u, y, z
<1>6. QED
  BY <1>3, <1>4, <1>5 DEF q, KeptBy

(* Symbols of tables (om_icdf).                                            *)
LEMMA IcdfReturns ==
  ASSUME SymbolAssumption, Hashes, Counting, Scale \in Nat, NEW x, Packer(x), NEW op, InContext(op),
         op.kind = "icdf"
  PROVE  \E sp \in Spans : ComesBy(x, op, om_op(x, op), sp)
<1> DEFINE key == <<"icdf", op.table, op.site, HistoryOf(x.site, op.site)>>
           pr == prior_icdf(op.table)
           u == ctx_code(x, key, pr, op.v)
           sp == StepOf(x, key, pr, op.v)
           Kept(z) == Set(z.site, op.site, IF z.v > 7 THEN 7 ELSE z.v)
           g == Kept(u)
           p == [u EXCEPT !.site = g]
           ask == Asked(op)
<1>1. /\ {"kind", "v", "table", "site"} \subseteq DOMAIN op /\ op.table \in Seq(Nat)
      /\ Added(op.table) \in Nat /\ Added(op.table) > 0 /\ op.v \in 0 .. Len(op.table) - 1
  BY DEF InContext
<1>2. IsPrior(pr) /\ op.v \in 0 .. Len(pr.f) - 1
  <2>1. Len(op.table) > 0
    BY <1>1
  <2>2. QED
    BY <1>1, <2>1, PriorsAre
<1> HIDE DEF pr, key
<1>3. /\ Packer(u) /\ sp \in Spans /\ u.wire = Append(x.wire, sp) /\ u.v = op.v /\ u.done = x.done
      /\ \A rest \in Seq(Spans) : \A any : ctx_code(Twin(x, <<sp>> \o rest), key, pr, any) = Twin(u, rest)
  <2> DEFINE v == op.v
  <2>1. v \in 0 .. Len(pr.f) - 1
    BY <1>2
  <2> HIDE DEF v
  <2>2. CodedBy(x, key, pr, v, ctx_code(x, key, pr, v), StepOf(x, key, pr, v))
    BY <1>2, <2>1, CodeReturns
  <2>3. QED
    BY <2>2 DEF CodedBy, v
<1>4. om_op(x, op) = p
  <2>1. om_op(x, op) = om_icdf(x, op)
    BY DEF om_op
  <2>2. om_icdf(x, op) = p
    BY Zenon DEF om_icdf, key, pr
  <2>3. QED
    BY <2>1, <2>2
<1> HIDE DEF u, sp
<1>5. /\ Packer(p) /\ p.wire = u.wire /\ p.v = u.v /\ p.done = u.done
      /\ \A rest : [Twin(u, rest) EXCEPT !.site = g] = Twin(p, rest)
  <2> HIDE DEF g
  <2> DEFINE d == "site"
  <2>1. d \in {"site", "theta", "fine", "c0fine"}
    OBVIOUS
  <2> HIDE DEF d
  <2>2. KeptBy(u, d, g, [u EXCEPT ![d] = g])
    BY <1>3, <2>1, KeptTwin
  <2>3. QED
    BY <2>2 DEF KeptBy, d
<1>6. ask.kind = "icdf" /\ ask.table = op.table /\ ask.site = op.site
  BY <1>1, AskedIs
<1> HIDE DEF ask
<1>7. ASSUME NEW rest \in Seq(Spans) PROVE om_op(Twin(x, <<sp>> \o rest), ask) = Twin(p, rest)
  <2> DEFINE y == Twin(x, <<sp>> \o rest)
             z == ctx_code(y, key, pr, ask.v)
             tw == Twin(u, rest)
  <2>1. y.site = x.site
    BY TwinHas DEF Packer
  <2>2. om_op(y, ask) = om_icdf(y, ask)
    BY <1>6 DEF om_op
  <2>3. z = tw
    BY <1>3
  <2> HIDE DEF y
  <2>4. om_icdf(y, ask) = [z EXCEPT !.site = Kept(z)]
    BY <1>6, <2>1, Zenon DEF om_icdf, key, pr
  <2>5. tw.site = u.site /\ tw.v = u.v
    BY <1>3, TwinHas DEF Packer
  <2> HIDE DEF z, tw
  <2>6. Kept(z) = g
    BY <2>3, <2>5
  <2> HIDE DEF g, p, Kept
  <2>7. om_op(y, ask) = [tw EXCEPT !.site = g]
    BY <2>2, <2>3, <2>4, <2>6
  <2>8. QED
    BY <1>5, <2>7 DEF tw, y
<1>8. ComesBy(x, op, p, sp)
  <2> HIDE DEF p
  <2>1. QED
    BY <1>3, <1>5, <1>7 DEF ComesBy, ask
<1>9. QED
  BY <1>3, <1>4, <1>8

(* Angles (om_theta).                                                      *)
LEMMA ThetaReturns ==
  ASSUME SymbolAssumption, Hashes, Counting, Scale \in Nat, NEW x, Packer(x), NEW op, InContext(op),
         op.kind = "theta"
  PROVE  \E sp \in Spans : ComesBy(x, op, om_op(x, op), sp)
<1> DEFINE qn == AtLeastOne(op.qn)
           key == <<"theta", op.b, op.step, bktN(op.n), qn, HistoryOf(x.theta, op.b) % 8>>
           pr == prior_theta(op.step, qn)
           u == ctx_code(x, key, pr, op.v)
           sp == StepOf(x, key, pr, op.v)
           Kept(z) == Set(z.theta, op.b, (z.v * 8) \div (qn + 1))
           g == Kept(u)
           p == [u EXCEPT !.theta = g]
           ask == Asked(op)
<1>1. /\ {"kind", "v", "b", "step", "n", "qn"} \subseteq DOMAIN op
      /\ op.qn \in Nat \ {0} /\ op.step \in BOOLEAN /\ op.v \in 0 .. op.qn
  BY DEF InContext
<1>2. IsPrior(pr) /\ op.v \in 0 .. Len(pr.f) - 1
  <2>1. qn = op.qn
    BY <1>1 DEF AtLeastOne
  <2>2. IsPrior(pr) /\ Len(pr.f) = op.qn + 1
    BY <1>1, <2>1, PriorsAre
  <2>3. QED
    BY <1>1, <2>2
<1> HIDE DEF pr, key
<1>3. /\ Packer(u) /\ sp \in Spans /\ u.wire = Append(x.wire, sp) /\ u.v = op.v /\ u.done = x.done
      /\ \A rest \in Seq(Spans) : \A any : ctx_code(Twin(x, <<sp>> \o rest), key, pr, any) = Twin(u, rest)
  <2> DEFINE v == op.v
  <2>1. v \in 0 .. Len(pr.f) - 1
    BY <1>2
  <2> HIDE DEF v
  <2>2. CodedBy(x, key, pr, v, ctx_code(x, key, pr, v), StepOf(x, key, pr, v))
    BY <1>2, <2>1, CodeReturns
  <2>3. QED
    BY <2>2 DEF CodedBy, v
<1>4. om_op(x, op) = p
  <2>1. om_op(x, op) = om_theta(x, op)
    BY DEF om_op
  <2>2. om_theta(x, op) = p
    BY Zenon DEF om_theta, key, pr
  <2>3. QED
    BY <2>1, <2>2
<1> HIDE DEF u, sp
<1>5. /\ Packer(p) /\ p.wire = u.wire /\ p.v = u.v /\ p.done = u.done
      /\ \A rest : [Twin(u, rest) EXCEPT !.theta = g] = Twin(p, rest)
  <2> HIDE DEF g
  <2> DEFINE d == "theta"
  <2>1. d \in {"site", "theta", "fine", "c0fine"}
    OBVIOUS
  <2> HIDE DEF d
  <2>2. KeptBy(u, d, g, [u EXCEPT ![d] = g])
    BY <1>3, <2>1, KeptTwin
  <2>3. QED
    BY <2>2 DEF KeptBy, d
<1>6. ask.kind = "theta" /\ ask.b = op.b /\ ask.step = op.step /\ ask.n = op.n /\ ask.qn = op.qn
  BY <1>1, AskedIs
<1> HIDE DEF ask
<1>7. ASSUME NEW rest \in Seq(Spans) PROVE om_op(Twin(x, <<sp>> \o rest), ask) = Twin(p, rest)
  <2> DEFINE y == Twin(x, <<sp>> \o rest)
             z == ctx_code(y, key, pr, ask.v)
             tw == Twin(u, rest)
  <2>1. y.theta = x.theta
    BY TwinHas DEF Packer
  <2>2. om_op(y, ask) = om_theta(y, ask)
    BY <1>6 DEF om_op
  <2>3. z = tw
    BY <1>3
  <2> HIDE DEF y
  <2>4. om_theta(y, ask) = [z EXCEPT !.theta = Kept(z)]
    BY <1>6, <2>1, Zenon DEF om_theta, key, pr
  <2>5. tw.theta = u.theta /\ tw.v = u.v
    BY <1>3, TwinHas DEF Packer
  <2> HIDE DEF z, tw
  <2>6. Kept(z) = g
    BY <2>3, <2>5
  <2> HIDE DEF g, p, Kept
  <2>7. om_op(y, ask) = [tw EXCEPT !.theta = g]
    BY <2>2, <2>3, <2>4, <2>6
  <2>8. QED
    BY <1>5, <2>7 DEF tw, y
<1>8. ComesBy(x, op, p, sp)
  <2> HIDE DEF p
  <2>1. QED
    BY <1>3, <1>5, <1>7 DEF ComesBy, ask
<1>9. QED
  BY <1>3, <1>4, <1>8

(* Numbers that have counts (om_uint).                                     *)
LEMMA UintReturns ==
  ASSUME SymbolAssumption, Hashes, Counting, Scale \in Nat, NEW x, Packer(x), NEW op, InContext(op),
         op.kind = "uint"
  PROVE  \E sp \in Spans : ComesBy(x, op, om_op(x, op), sp)
<1> DEFINE key == <<"uint", op.site, op.V>>
           pr == prior_uniform(op.V)
           p == ctx_code(x, key, pr, op.v)
           sp == StepOf(x, key, pr, op.v)
           ask == Asked(op)
<1>1. /\ {"kind", "v", "site", "V"} \subseteq DOMAIN op /\ "pulses" \notin DOMAIN op
      /\ op.V \in Nat \ {0} /\ op.V <= ModelMax /\ op.v \in 0 .. op.V - 1
  BY DEF InContext
<1>2. IsPrior(pr) /\ op.v \in 0 .. Len(pr.f) - 1
  BY <1>1, PriorsAre
<1> HIDE DEF pr, key
<1>3. /\ Packer(p) /\ sp \in Spans /\ p.wire = Append(x.wire, sp) /\ p.v = op.v /\ p.done = x.done
      /\ \A rest \in Seq(Spans) : \A any : ctx_code(Twin(x, <<sp>> \o rest), key, pr, any) = Twin(p, rest)
  <2> DEFINE v == op.v
  <2>1. v \in 0 .. Len(pr.f) - 1
    BY <1>2
  <2> HIDE DEF v
  <2>2. CodedBy(x, key, pr, v, ctx_code(x, key, pr, v), StepOf(x, key, pr, v))
    BY <1>2, <2>1, CodeReturns
  <2>3. QED
    BY <2>2 DEF CodedBy, v
<1>4. ASSUME NEW y, y.k = 0, NEW o, o.kind = "uint", "pulses" \notin DOMAIN o, o.V = op.V, o.site = op.site
      PROVE  om_op(y, o) = ctx_code(y, key, pr, o.v)
  <2>1. om_op(y, o) = om_uint(y, o)
    BY <1>4 DEF om_op, WithPulses
  <2>2. ~(y.k > 0 /\ o.V > PvqFrom) /\ o.V <= ModelMax
    BY <1>1, <1>4
  <2>3. om_uint(y, o) = ctx_code(y, <<"uint", o.site, o.V>>, prior_uniform(o.V), o.v)
    BY <2>2, Zenon DEF om_uint
  <2>4. QED
    BY <1>4, <2>1, <2>3, Zenon DEF key, pr
<1>5. om_op(x, op) = p
  <2>1. x.k = 0
    BY DEF Packer
  <2>2. QED
    BY <1>1, <1>4, <2>1
<1>6. ask.kind = "uint" /\ "pulses" \notin DOMAIN ask /\ ask.V = op.V /\ ask.site = op.site
  BY <1>1, AskedIs
<1> HIDE DEF ask, p, sp
<1>7. ASSUME NEW rest \in Seq(Spans) PROVE om_op(Twin(x, <<sp>> \o rest), ask) = Twin(p, rest)
  <2> DEFINE y == Twin(x, <<sp>> \o rest)
  <2>1. y.k = 0
    BY TwinHas DEF Packer
  <2>2. ctx_code(y, key, pr, ask.v) = Twin(p, rest)
    BY <1>3
  <2> HIDE DEF y
  <2>3. om_op(y, ask) = ctx_code(y, key, pr, ask.v)
    BY <1>4, <1>6, <2>1
  <2>4. QED
    BY <2>2, <2>3 DEF y
<1>8. ComesBy(x, op, p, sp)
  BY <1>3, <1>7 DEF ComesBy, ask
<1>9. QED
  BY <1>3, <1>5, <1>8

(* Fine energy (om_bits).                                                  *)
LEMMA FineReturns ==
  ASSUME SymbolAssumption, Hashes, Counting, Scale \in Nat, NEW x, Packer(x), NEW op, InContext(op),
         op.kind = "bits"
  PROVE  \E sp \in Spans : ComesBy(x, op, om_op(x, op), sp)
<1> DEFINE other == IF op.c = 1 /\ x.c0fine[1] = op.b /\ x.c0fine[2] = op.nb
                      THEN 1 + (x.c0fine[3] * 5) \div 2 ^ op.nb ELSE 0
           key == <<"bits", op.b, op.c, op.nb, HistoryOf(x.fine, <<op.b, op.c>>), other>>
           pr == prior_uniform(2 ^ op.nb)
           u == ctx_code(x, key, pr, op.v)
           sp == StepOf(x, key, pr, op.v)
           Kept(z) == Set(z.fine, <<op.b, op.c>>, z.v)
           Last0(z) == IF op.c = 0 THEN <<op.b, op.nb, z.v>> ELSE z.c0fine
           g == Kept(u)
           c == Last0(u)
           w == [u EXCEPT !.fine = g]
           p == [w EXCEPT !.c0fine = c]
           ask == Asked(op)
<1>1. /\ {"kind", "v", "b", "c", "nb", "fine"} \subseteq DOMAIN op /\ op.fine
      /\ 2 ^ op.nb \in Nat \ {0} /\ op.v \in 0 .. 2 ^ op.nb - 1
  BY DEF InContext
<1>2. IsPrior(pr) /\ op.v \in 0 .. Len(pr.f) - 1
  <2> DEFINE n == 2 ^ op.nb
  <2>1. n \in Nat /\ n > 0 /\ op.v \in 0 .. n - 1
    BY <1>1
  <2> HIDE DEF n
  <2>2. IsPrior(prior_uniform(n)) /\ Len(prior_uniform(n).f) = n
    BY <2>1, PriorsAre
  <2>3. QED
    BY <2>1, <2>2 DEF n
<1> HIDE DEF pr, key
<1>3. /\ Packer(u) /\ sp \in Spans /\ u.wire = Append(x.wire, sp) /\ u.v = op.v /\ u.done = x.done
      /\ \A rest \in Seq(Spans) : \A any : ctx_code(Twin(x, <<sp>> \o rest), key, pr, any) = Twin(u, rest)
  <2> DEFINE v == op.v
  <2>1. v \in 0 .. Len(pr.f) - 1
    BY <1>2
  <2> HIDE DEF v
  <2>2. CodedBy(x, key, pr, v, ctx_code(x, key, pr, v), StepOf(x, key, pr, v))
    BY <1>2, <2>1, CodeReturns
  <2>3. QED
    BY <2>2 DEF CodedBy, v
<1>4. om_op(x, op) = p
  <2>1. om_op(x, op) = om_bits(x, op)
    BY DEF om_op
  <2>2. om_bits(x, op) = [u EXCEPT !.fine = g, !.c0fine = c]
    BY <1>1, Zenon DEF om_bits, key, pr
  <2>3. [u EXCEPT !.fine = g, !.c0fine = c] = p
    OBVIOUS
  <2>4. QED
    BY <2>1, <2>2, <2>3
<1> HIDE DEF u, sp
<1>5. /\ Packer(w) /\ w.wire = u.wire /\ w.v = u.v /\ w.done = u.done
      /\ \A rest : [Twin(u, rest) EXCEPT !.fine = g] = Twin(w, rest)
  <2> HIDE DEF g
  <2> DEFINE d == "fine"
  <2>1. d \in {"site", "theta", "fine", "c0fine"}
    OBVIOUS
  <2> HIDE DEF d
  <2>2. KeptBy(u, d, g, [u EXCEPT ![d] = g])
    BY <1>3, <2>1, KeptTwin
  <2>3. QED
    BY <2>2 DEF KeptBy, d
<1>6. /\ Packer(p) /\ p.wire = u.wire /\ p.v = u.v /\ p.done = u.done
      /\ \A rest : [Twin(w, rest) EXCEPT !.c0fine = c] = Twin(p, rest)
  <2> HIDE DEF w, c
  <2> DEFINE d == "c0fine"
  <2>1. d \in {"site", "theta", "fine", "c0fine"}
    OBVIOUS
  <2> HIDE DEF d
  <2>2. KeptBy(w, d, c, [w EXCEPT ![d] = c])
    BY <1>5, <2>1, KeptTwin
  <2>3. QED
    BY <1>5, <2>2 DEF KeptBy, d
<1>7. /\ ask.kind = "bits" /\ ask.b = op.b /\ ask.c = op.c /\ ask.nb = op.nb /\ ask.fine = op.fine
  BY <1>1, AskedIs
<1> HIDE DEF ask
<1>8. ASSUME NEW rest \in Seq(Spans) PROVE om_op(Twin(x, <<sp>> \o rest), ask) = Twin(p, rest)
  <2> DEFINE y == Twin(x, <<sp>> \o rest)
             z == ctx_code(y, key, pr, ask.v)
             tw == Twin(u, rest)
  <2>1. y.fine = x.fine /\ y.c0fine = x.c0fine
    BY TwinHas DEF Packer
  <2>2. om_op(y, ask) = om_bits(y, ask)
    BY <1>7 DEF om_op
  <2>3. z = tw
    BY <1>3
  <2> HIDE DEF y
  <2>4. om_bits(y, ask) = [z EXCEPT !.fine = Kept(z), !.c0fine = Last0(z)]
    <3> DEFINE theirs == IF ask.c = 1 /\ y.c0fine[1] = ask.b /\ y.c0fine[2] = ask.nb
                           THEN 1 + (y.c0fine[3] * 5) \div 2 ^ ask.nb ELSE 0
               called == <<"bits", ask.b, ask.c, ask.nb, HistoryOf(y.fine, <<ask.b, ask.c>>), theirs>>
               r == ctx_code(y, called, prior_uniform(2 ^ ask.nb), ask.v)
    <3>1. om_bits(y, ask) = [r EXCEPT !.fine = Set(r.fine, <<ask.b, ask.c>>, r.v),
                                      !.c0fine = IF ask.c = 0 THEN <<ask.b, ask.nb, r.v>> ELSE r.c0fine]
      BY <1>1, <1>7, Zenon DEF om_bits
    <3>2. theirs = other
      BY <1>7, <2>1
    <3> HIDE DEF theirs, other
    <3>3. called = key
      BY <1>7, <2>1, <3>2 DEF key
    <3>4. prior_uniform(2 ^ ask.nb) = pr
      BY <1>7 DEF pr
    <3> HIDE DEF called
    <3>5. r = z
      BY <3>3, <3>4
    <3> HIDE DEF r, z
    <3>6. Set(r.fine, <<ask.b, ask.c>>, r.v) = Kept(z)
      BY <1>7, <3>5
    <3>7. (IF ask.c = 0 THEN <<ask.b, ask.nb, r.v>> ELSE r.c0fine) = Last0(z)
      BY <1>7, <3>5
    <3> HIDE DEF Kept, Last0
    <3>8. QED
      BY <3>1, <3>5, <3>6, <3>7, Zenon
  <2>5. tw.fine = u.fine /\ tw.v = u.v /\ tw.c0fine = u.c0fine
    BY <1>3, TwinHas DEF Packer
  <2> HIDE DEF z, tw
  <2>6. Kept(z) = g /\ Last0(z) = c
    BY <2>3, <2>5
  <2> HIDE DEF g, c, p, w, Kept, Last0
  <2>7. om_op(y, ask) = [tw EXCEPT !.fine = g, !.c0fine = c]
    BY <2>2, <2>3, <2>4, <2>6
  <2>8. [tw EXCEPT !.fine = g, !.c0fine = c] = [[tw EXCEPT !.fine = g] EXCEPT !.c0fine = c]
    OBVIOUS
  <2>9. [tw EXCEPT !.fine = g] = Twin(w, rest)
    BY <1>5 DEF tw
  <2>10. QED
    BY <1>6, <2>7, <2>8, <2>9 DEF y
<1>9. ComesBy(x, op, p, sp)
  <2> HIDE DEF p
  <2>1. QED
    BY <1>3, <1>6, <1>8 DEF ComesBy, ask
<1>10. QED
  BY <1>3, <1>4, <1>9

(* Whatever is coded in a context comes back.                              *)
LEMMA OpReturns ==
  ASSUME SymbolAssumption, Hashes, Counting, Scale \in Nat, NEW x, Packer(x), NEW op, InContext(op)
  PROVE  \E sp \in Spans : ComesBy(x, op, om_op(x, op), sp)
BY IcdfReturns, ThetaReturns, UintReturns, FineReturns DEF InContext

-----------------------------------------------------------------------------
(* One symbol more: its step, and the unpacker that follows the packer.    *)
More(x) == [x EXCEPT !.done = @ + 1]

FollowsBy(x, op, y, sp) ==
  /\ y.wire = Append(x.wire, sp)
  /\ \A rest \in Seq(Spans) :
       LET z == om_op(Twin(x, <<sp>> \o rest), Asked(op))
       IN  z.v = op.v /\ z.mode = "unpack" /\ More(z) = Twin(y, rest)

(* A symbol more on both sides.                                            *)
LEMMA MoreReturns ==
  ASSUME SymbolAssumption, Hashes, Counting, Scale \in Nat, NEW x, Packer(x), NEW op, InContext(op)
  PROVE  /\ Packer(More(om_op(x, op))) /\ More(om_op(x, op)).done = x.done + 1 /\ om_op(x, op).mode = "pack"
         /\ \E sp \in Spans : FollowsBy(x, op, More(om_op(x, op)), sp)
<1> DEFINE p == om_op(x, op)
           y == More(p)
           D == DOMAIN p
<1>1. PICK sp \in Spans : ComesBy(x, op, p, sp)
  BY OpReturns
<1> HIDE DEF p
<1>2. /\ Packer(p) /\ p.wire = Append(x.wire, sp) /\ p.v = op.v /\ p.done = x.done
      /\ \A rest \in Seq(Spans) : om_op(Twin(x, <<sp>> \o rest), Asked(op)) = Twin(p, rest)
  BY <1>1 DEF ComesBy
<1>3. /\ {"mode", "done", "v", "wire", "ctxs", "site", "theta", "fine", "c0fine", "k"} \subseteq D
      /\ p.mode = "pack" /\ p.done \in Nat
  BY <1>2 DEF Packer
<1>4. y = [d \in D |-> IF d = "done" THEN p.done + 1 ELSE p[d]]
  BY <1>3 DEF More
<1> HIDE DEF y
<1>5. /\ DOMAIN y = D /\ y.done = p.done + 1 /\ y.wire = p.wire /\ y.mode = p.mode /\ y.k = p.k
      /\ y.ctxs = p.ctxs /\ y.done \in Nat
  BY <1>3, <1>4
<1>6. Packer(y)
  BY <1>2, <1>3, <1>5 DEF Packer
<1>7. ASSUME NEW rest \in Seq(Spans)
      PROVE  LET z == om_op(Twin(x, <<sp>> \o rest), Asked(op))
             IN  z.v = op.v /\ z.mode = "unpack" /\ More(z) = Twin(y, rest)
  <2> DEFINE z == om_op(Twin(x, <<sp>> \o rest), Asked(op))
             u == Twin(y, rest)
             m == More(z)
  <2>1. z = Twin(p, rest)
    BY <1>2
  <2> HIDE DEF z
  <2>2. z = [d \in D |-> IF d = "mode" THEN "unpack" ELSE IF d = "wire" THEN rest ELSE p[d]]
    BY <1>3, <2>1 DEF Twin
  <2>3. z.v = op.v /\ z.mode = "unpack" /\ z.done = p.done
    BY <1>2, <1>3, <2>2
  <2>4. u = [d \in D |-> IF d = "mode" THEN "unpack" ELSE IF d = "wire" THEN rest ELSE y[d]]
    BY <1>3, <1>5 DEF Twin
  <2>5. m = [d \in D |-> IF d = "done" THEN p.done + 1 ELSE z[d]]
    BY <1>3, <2>2, <2>3 DEF More
  <2> HIDE DEF u, m
  <2>6. m = u
    BY <1>4, <2>2, <2>4, <2>5
  <2>7. QED
    BY <2>3, <2>6 DEF z, u, m
<1>8. FollowsBy(x, op, y, sp)
  BY <1>2, <1>5, <1>7 DEF FollowsBy
<1>9. QED
  BY <1>2, <1>3, <1>5, <1>6, <1>8 DEF y, p

(* The states of the packer after each symbol, which are all that the      *)
(* unpacker goes through.                                                  *)
Trail(H, n) ==
  /\ H[0] = om_init("pack")
  /\ \A i \in 0 .. n : Packer(H[i]) /\ H[i].done = i /\ Len(H[i].wire) = i
  /\ \A i \in 0 .. n - 1 : \E sp \in Spans : FollowsBy(H[i], ops[i + 1], H[i + 1], sp)
  /\ \A i \in 0 .. n : \A j \in 1 .. i : H[i].wire[j] = H[n].wire[j]

(* A new packer has an empty table, and a new unpacker is its twin.        *)
LEMMA NewPacker ==
  ASSUME SymbolAssumption
  PROVE  /\ Packer(om_init("pack")) /\ om_init("pack").done = 0 /\ om_init("pack").wire = <<>>
         /\ \A w : [om_init("unpack") EXCEPT !.wire = w] = Twin(om_init("pack"), w)
<1> DEFINE x == om_init("pack")
           t == ctx_new(FirstSize)
<1>1. Tabled(x)
  BY NewModel
<1>2. /\ {"mode", "done", "v", "wire", "ctxs", "site", "theta", "fine", "c0fine", "k"} \subseteq DOMAIN x
      /\ x.mode = "pack" /\ x.wire = <<>> /\ x.done = 0 /\ x.k = 0 /\ x.ctxs = t
  BY DEF om_init
<1>3. Sound(t)
  BY DEF Sound, ctx_new, Empty
<1>4. ASSUME NEW w PROVE [om_init("unpack") EXCEPT !.wire = w] = Twin(x, w)
  <2> DEFINE y == om_init("unpack")
             D == DOMAIN x
             u == [y EXCEPT !.wire = w]
             v == Twin(x, w)
  <2>1. DOMAIN y = D /\ {"mode", "wire"} \subseteq D
    BY DEF om_init
  <2>2. y.mode = "unpack" /\ \A d \in D : d # "mode" => y[d] = x[d]
    <3> DEFINE bins == [i \in 0 .. Bins - 1 |-> [used |-> FALSE, tag |-> 0, p |-> 0]]
    <3>1. \A m : LET z == om_init(m) IN
            /\ DOMAIN z = {"mode", "done", "v", "y", "wire", "ctxs", "bins", "ut", "site", "qi", "bandqi", "c0qi",
                           "theta", "fine", "c0fine", "pvq", "k", "n"}
            /\ z.mode = m /\ z.done = 0 /\ z.v = 0 /\ z.y = <<>> /\ z.wire = <<>> /\ z.ctxs = ctx_new(FirstSize)
            /\ z.bins = bins /\ z.ut = pvq_ubuild /\ z.site = <<>> /\ z.qi = <<>> /\ z.bandqi = <<0, 0>>
            /\ z.c0qi = <<NoBand, 0>> /\ z.theta = <<>> /\ z.fine = <<>> /\ z.c0fine = <<NoBand, 0, 0>>
            /\ z.pvq = <<>> /\ z.k = 0 /\ z.n = 0
      BY DEF om_init
    <3> HIDE DEF x, y, bins
    <3>2. QED
      BY <3>1 DEF x, y
  <2>3. y = [d \in D |-> y[d]]
    BY <2>1 DEF om_init
  <2> HIDE DEF x, y
  <2>4. u = [d \in D |-> IF d = "wire" THEN w ELSE y[d]]
    BY <2>1, <2>3
  <2>5. v = [d \in D |-> IF d = "wire" THEN w ELSE IF d = "mode" THEN "unpack" ELSE x[d]]
    BY <2>1 DEF Twin
  <2> HIDE DEF u, v
  <2>6. u = v
    BY <2>1, <2>2, <2>4, <2>5
  <2>7. QED
    BY <2>6 DEF u, v, y
<1> HIDE DEF x, t
<1>5. IsMap(t)
  BY <1>1, <1>2 DEF Tabled
<1>6. <<>> \in Seq(Spans)
  OBVIOUS
<1>7. Packer(x)
  BY <1>2, <1>3, <1>5, <1>6 DEF Packer
<1>8. QED
  BY <1>2, <1>4, <1>7 DEF x

AllInContext == \A i \in DOMAIN ops : InContext(ops[i])

(* A packer that codes another symbol has a longer trail.                  *)
LEMMA TrailGrows ==
  ASSUME SymbolAssumption, Hashes, Counting, Scale \in Nat, NEW n \in Nat, NEW H, Trail(H, n),
         InContext(ops[n + 1])
  PROVE  /\ om_op(H[n], ops[n + 1]).mode = "pack"
         /\ \E G : Trail(G, n + 1) /\ G[n + 1] = More(om_op(H[n], ops[n + 1]))
<1> DEFINE x == H[n]
           op == ops[n + 1]
           y == More(om_op(x, op))
           G == [i \in 0 .. n + 1 |-> IF i <= n THEN H[i] ELSE y]
<1>1. /\ H[0] = om_init("pack")
      /\ \A i \in 0 .. n : Packer(H[i]) /\ H[i].done = i /\ Len(H[i].wire) = i
      /\ \A i \in 0 .. n - 1 : \E sp \in Spans : FollowsBy(H[i], ops[i + 1], H[i + 1], sp)
      /\ \A i \in 0 .. n : \A j \in 1 .. i : H[i].wire[j] = H[n].wire[j]
  BY DEF Trail
<1>2. Packer(x) /\ x.done = n /\ Len(x.wire) = n /\ x.wire \in Seq(Spans)
  BY <1>1 DEF Packer
<1>3. Packer(y) /\ y.done = n + 1 /\ om_op(x, op).mode = "pack" /\ \E sp \in Spans : FollowsBy(x, op, y, sp)
  BY <1>2, MoreReturns
<1>4. PICK sp \in Spans : FollowsBy(x, op, y, sp)
  BY <1>3
<1>5. y.wire = Append(x.wire, sp)
  BY <1>4 DEF FollowsBy
<1> HIDE DEF y, x, op
<1>6. Len(y.wire) = n + 1 /\ \A j \in 1 .. n : y.wire[j] = x.wire[j]
  BY <1>2, <1>5
<1>7. G[n + 1] = y /\ \A i \in 0 .. n : G[i] = H[i]
  OBVIOUS
<1> HIDE DEF G
<1>8. \A i \in 0 .. n + 1 : Packer(G[i]) /\ G[i].done = i /\ Len(G[i].wire) = i
  <2>1. ASSUME NEW i \in 0 .. n + 1 PROVE Packer(G[i]) /\ G[i].done = i /\ Len(G[i].wire) = i
    <3>1. CASE i = n + 1
      BY <1>3, <1>6, <1>7, <3>1
    <3>2. CASE i # n + 1
      <4>1. i \in 0 .. n
        BY <3>2
      <4>2. QED
        BY <1>1, <1>7, <4>1
    <3>3. QED
      BY <3>1, <3>2
  <2>2. QED
    BY <2>1
<1>9. \A i \in 0 .. (n + 1) - 1 : \E s \in Spans : FollowsBy(G[i], ops[i + 1], G[i + 1], s)
  <2>1. ASSUME NEW i \in 0 .. (n + 1) - 1 PROVE \E s \in Spans : FollowsBy(G[i], ops[i + 1], G[i + 1], s)
    <3>1. CASE i = n
      BY <1>4, <1>7, <3>1 DEF x, op
    <3>2. CASE i # n
      <4>1. i \in 0 .. n - 1 /\ i \in 0 .. n /\ i + 1 \in 0 .. n
        BY <3>2
      <4>2. QED
        BY <1>1, <1>7, <4>1
    <3>3. QED
      BY <3>1, <3>2
  <2>2. QED
    BY <2>1
<1>10. \A i \in 0 .. n + 1 : \A j \in 1 .. i : G[i].wire[j] = G[n + 1].wire[j]
  <2>1. ASSUME NEW i \in 0 .. n + 1, NEW j \in 1 .. i PROVE G[i].wire[j] = G[n + 1].wire[j]
    <3>1. CASE i = n + 1
      BY <3>1
    <3>2. CASE i # n + 1
      <4>1. i \in 0 .. n /\ j \in 1 .. n
        BY <3>2
      <4>2. H[i].wire[j] = x.wire[j]
        BY <1>1, <4>1 DEF x
      <4>3. QED
        BY <1>6, <1>7, <4>1, <4>2
    <3>3. QED
      BY <3>1, <3>2
  <2>2. QED
    BY <2>1
<1>11. G[0] = om_init("pack")
  BY <1>1, <1>7
<1>12. Trail(G, n + 1)
  <2>1. n + 1 \in Nat
    OBVIOUS
  <2>2. QED
    BY <1>8, <1>9, <1>10, <1>11 DEF Trail
<1>13. QED
  BY <1>3, <1>7, <1>12 DEF x, y, op

(* What is left of a sequence begins with the element that is next.        *)
LEMMA LeftOver ==
  ASSUME NEW S, NEW W \in Seq(S), NEW d \in Nat, d < Len(W)
  PROVE  SubSeq(W, d + 1, Len(W)) = <<W[d + 1]>> \o SubSeq(W, d + 2, Len(W))
OBVIOUS

(* What is left to read begins with the step of the next symbol.           *)
LEMMA LeftBegins ==
  ASSUME NEW W \in Seq(Spans), NEW d \in Nat, d < Len(W)
  PROVE  SubSeq(W, d + 1, Len(W)) = <<W[d + 1]>> \o SubSeq(W, d + 2, Len(W)) /\ SubSeq(W, d + 2, Len(W)) \in Seq(Spans)
<1>1. SubSeq(W, d + 1, Len(W)) = <<W[d + 1]>> \o SubSeq(W, d + 2, Len(W))
  BY LeftOver
<1>2. SubSeq(W, d + 2, Len(W)) \in Seq(Spans)
  OBVIOUS
<1>3. QED
  BY <1>1, <1>2

(* The packer is at the end of its trail, or the unpacker is as far on it  *)
(* as the values it has got, which are those of the symbols.               *)
ReturningBy(n, H) ==
  /\ Trail(H, n)
  /\ \/ doing = "pack" /\ n = model.done /\ model = H[n] /\ got = <<>>
     \/ /\ doing = "unpack" /\ n = Len(ops) /\ model.done \in 0 .. n
        /\ model = Twin(H[model.done], SubSeq(H[n].wire, model.done + 1, n))
        /\ got \in Seq(Int) /\ Len(got) = model.done /\ \A i \in 1 .. Len(got) : got[i] = ops[i].v

ReturnInv == ops \in SymbolRuns /\ (AllInContext => \E n \in 0 .. Len(ops) : \E H : ReturningBy(n, H))

(* The sequences that are coded are sequences.                             *)
LEMMA OpsAre ==
  ASSUME SymbolAssumption, ops \in SymbolRuns
  PROVE  Len(ops) \in Nat /\ DOMAIN ops = 1 .. Len(ops)
<1> DEFINE S == {ops[i] : i \in DOMAIN ops}
<1>1. ops \in Seq(S)
  BY DEF SymbolAssumption
<1> HIDE DEF S
<1>2. QED
  BY <1>1

(* Nothing is coded yet.                                                   *)
LEMMA ReturnInitially ==
  ASSUME SymbolAssumption, SymbolInit
  PROVE  ReturnInv
<1> DEFINE x == om_init("pack")
           H == [i \in 0 .. 0 |-> x]
<1>1. ops \in SymbolRuns /\ model = x /\ got = <<>> /\ doing = "pack"
  BY DEF SymbolInit
<1>2. Packer(x) /\ x.done = 0 /\ x.wire = <<>>
  BY NewPacker
<1> HIDE DEF x
<1>3. H[0] = x
  OBVIOUS
<1> HIDE DEF H
<1>4. Trail(H, 0)
  <2>1. \A i \in 0 .. 0 : i = 0
    OBVIOUS
  <2>2. Len(x.wire) = 0
    BY <1>2
  <2>3. 0 .. 0 - 1 = {}
    OBVIOUS
  <2>4. QED
    BY <1>2, <1>3, <2>1, <2>2, <2>3 DEF Trail, x
<1>5. ReturningBy(0, H)
  BY <1>1, <1>2, <1>3, <1>4 DEF ReturningBy
<1>6. 0 \in 0 .. Len(ops)
  BY <1>1, OpsAre
<1>7. QED
  BY <1>1, <1>5, <1>6 DEF ReturnInv

(* Packing, turning and unpacking keep it.                                 *)
LEMMA ReturnKeeps ==
  ASSUME SymbolAssumption, Hashes, Counting, Scale \in Nat, ReturnInv, [SymbolNext]_symVars
  PROVE  ReturnInv'
<1>1. ops' = ops /\ ops \in SymbolRuns /\ Len(ops) \in Nat /\ DOMAIN ops = 1 .. Len(ops)
  <2>1. ops' = ops
    BY DEF SymbolNext, Pack, Turn, Unpack, symVars
  <2>2. QED
    BY <2>1, OpsAre DEF ReturnInv
<1>2. SUFFICES ASSUME AllInContext PROVE \E n \in 0 .. Len(ops) : \E H : ReturningBy(n, H)'
  BY <1>1 DEF ReturnInv, AllInContext
<1>3. PICK n \in 0 .. Len(ops) : \E H : ReturningBy(n, H)
  BY <1>2 DEF ReturnInv
<1>4. PICK H : ReturningBy(n, H)
  BY <1>3
<1>5. n \in Nat /\ Trail(H, n) /\ \A i \in 0 .. n : Packer(H[i]) /\ H[i].done = i /\ Len(H[i].wire) = i
  <2>1. n \in Nat
    BY <1>1
  <2>2. Trail(H, n)
    BY <1>4 DEF ReturningBy
  <2>3. QED
    BY <2>1, <2>2 DEF Trail
<1>6. \A G, m : Trail(G, m) => Trail(G, m)'
  BY <1>1 DEF Trail
<1>7. CASE Pack
  <2> DEFINE op == ops[n + 1]
  <2>1. doing = "pack" /\ n = model.done /\ model = H[n] /\ got = <<>> /\ n < Len(ops)
    BY <1>4, <1>7 DEF Pack, ReturningBy
  <2>2. n + 1 \in DOMAIN ops
    BY <1>1, <2>1
  <2>3. InContext(op)
    BY <1>2, <2>2 DEF AllInContext
  <2>4. om_op(H[n], op).mode = "pack" /\ \E G : Trail(G, n + 1) /\ G[n + 1] = More(om_op(H[n], op))
    BY <1>5, <2>3, TrailGrows
  <2>5. PICK G : Trail(G, n + 1) /\ G[n + 1] = More(om_op(H[n], op))
    BY <2>4
  <2>6. model' = More(om_op(H[n], op)) /\ doing' = "pack" /\ got' = <<>>
    BY <1>7, <2>1, <2>4 DEF Pack, More
  <2>7. G[n + 1].done = n + 1
    BY <1>5, <2>5 DEF Trail
  <2> HIDE DEF op
  <2>8. ReturningBy(n + 1, G)'
    BY <1>6, <2>5, <2>6, <2>7 DEF ReturningBy
  <2>9. n + 1 \in 0 .. Len(ops)
    BY <1>1, <1>5, <2>1
  <2>10. QED
    BY <2>8, <2>9
<1>8. CASE Turn
  <2> DEFINE W == H[n].wire
  <2>1. doing = "pack" /\ n = model.done /\ model = H[n] /\ got = <<>> /\ n = Len(ops)
    BY <1>4, <1>8 DEF Turn, ReturningBy
  <2>2. H[0] = om_init("pack") /\ H[0].done = 0 /\ "done" \in DOMAIN H[0]
    BY <1>5 DEF Trail, Packer
  <2>3. model' = Twin(H[0], W) /\ doing' = "unpack" /\ got' = <<>>
    BY <1>8, <2>1, <2>2, NewPacker DEF Turn
  <2>4. W \in Seq(Spans) /\ Len(W) = n
    BY <1>5 DEF Packer
  <2> HIDE DEF W
  <2>5. SubSeq(W, 1, n) = W
    BY <2>4
  <2>6. model'.done = 0
    BY <2>2, <2>3, TwinHas
  <2>7. ReturningBy(n, H)'
    <3>1. got' \in Seq(Int) /\ Len(got') = 0 /\ 1 .. 0 = {}
      BY <2>3
    <3>2. model'.done \in 0 .. n /\ model'.done + 1 = 1
      BY <1>5, <2>6
    <3>3. model' = Twin(H[model'.done], SubSeq(H[n].wire, model'.done + 1, n))
      BY <2>3, <2>5, <2>6, <3>2 DEF W
    <3>4. Trail(H, n)'
      BY <1>5, <1>6
    <3>5. QED
      BY <1>1, <2>1, <2>3, <2>6, <3>1, <3>2, <3>3, <3>4 DEF ReturningBy
  <2>8. QED
    BY <2>7
<1>9. CASE Unpack
  <2> DEFINE d == model.done
             op == ops[d + 1]
             W == H[n].wire
             rest == SubSeq(W, d + 2, n)
             z == om_op(model, Asked(op))
  <2>1. /\ doing = "unpack" /\ n = Len(ops) /\ d \in 0 .. n /\ d < n
        /\ model = Twin(H[d], SubSeq(W, d + 1, n))
        /\ got \in Seq(Int) /\ Len(got) = d /\ \A i \in 1 .. Len(got) : got[i] = ops[i].v
    BY <1>4, <1>9 DEF Unpack, ReturningBy
  <2>2. model' = More(z) /\ got' = Append(got, z.v) /\ doing' = z.mode
    BY <1>9 DEF Unpack, More
  <2> HIDE DEF d
  <2>3. d \in Nat /\ d \in 0 .. n - 1 /\ d + 1 \in 0 .. n /\ d + 1 \in 1 .. n /\ d + 1 \in DOMAIN ops
    BY <1>1, <1>5, <2>1
  <2>4. W \in Seq(Spans) /\ Len(W) = n
    BY <1>5 DEF Packer
  <2>5. PICK sp \in Spans : FollowsBy(H[d], op, H[d + 1], sp)
    BY <1>5, <2>3 DEF Trail
  <2>6. sp = W[d + 1]
    <3>1. H[d].wire \in Seq(Spans) /\ Len(H[d].wire) = d
      BY <1>5, <2>1 DEF Packer
    <3>2. H[d + 1].wire = Append(H[d].wire, sp)
      BY <2>5 DEF FollowsBy
    <3>3. H[d + 1].wire[d + 1] = sp
      BY <3>1, <3>2
    <3>4. d + 1 \in 1 .. d + 1
      BY <2>3
    <3>5. H[d + 1].wire[d + 1] = W[d + 1]
      BY <1>5, <2>3, <3>4 DEF Trail
    <3>6. QED
      BY <3>3, <3>5
  <2>7. SubSeq(W, d + 1, n) = <<sp>> \o rest /\ rest \in Seq(Spans)
    <3> HIDE DEF W
    <3>1. d < Len(W)
      BY <2>1, <2>4
    <3>2. QED
      BY <2>3, <2>4, <2>6, <3>1, LeftBegins
  <2>8. z = om_op(Twin(H[d], <<sp>> \o rest), Asked(op))
    BY <2>1, <2>7
  <2> HIDE DEF z, rest
  <2>9. z.v = op.v /\ z.mode = "unpack" /\ More(z) = Twin(H[d + 1], rest)
    BY <2>5, <2>7, <2>8 DEF FollowsBy
  <2>10. op.v \in Int
    <3>1. InContext(op)
      BY <1>2, <2>3 DEF AllInContext
    <3>2. QED
      BY <3>1 DEF InContext
  <2>11. got' \in Seq(Int) /\ Len(got') = d + 1 /\ \A i \in 1 .. d + 1 : got'[i] = ops[i].v
    <3> DEFINE v == z.v
    <3>1. v \in Int /\ v = ops[d + 1].v /\ got' = Append(got, v)
      BY <2>2, <2>9, <2>10
    <3> HIDE DEF v
    <3>2. Append(got, v) \in Seq(Int) /\ Len(Append(got, v)) = d + 1 /\ Append(got, v)[d + 1] = v
          /\ \A i \in 1 .. d : Append(got, v)[i] = got[i]
      BY <2>1, <3>1
    <3>3. \A i \in 1 .. d + 1 : i = d + 1 \/ i \in 1 .. d
      BY <2>3
    <3>4. QED
      BY <2>1, <3>1, <3>2, <3>3
  <2>12. model' = Twin(H[d + 1], rest) /\ doing' = "unpack"
    BY <2>2, <2>9
  <2>13. model'.done = d + 1
    <3>1. H[d + 1].done = d + 1 /\ "done" \in DOMAIN H[d + 1]
      BY <1>5, <2>3 DEF Packer
    <3>2. QED
      BY <2>12, <3>1, TwinHas
  <2>14. ReturningBy(n, H)'
    <3>1. model' = Twin(H[model'.done], SubSeq(H[n].wire, model'.done + 1, n))
      <4>1. (d + 1) + 1 = d + 2
        BY <2>3
      <4>2. QED
        BY <2>12, <2>13, <4>1 DEF rest
    <3>2. Trail(H, n)'
      BY <1>5, <1>6
    <3>3. QED
      BY <1>1, <2>1, <2>3, <2>11, <2>12, <2>13, <3>1, <3>2 DEF ReturningBy
  <2>15. QED
    BY <2>14
<1>10. CASE UNCHANGED symVars
  <2>1. model' = model /\ got' = got /\ doing' = doing
    BY <1>10 DEF symVars
  <2>2. Trail(H, n)'
    BY <1>5, <1>6
  <2>3. ReturningBy(n, H)'
    BY <1>1, <1>4, <2>1, <2>2 DEF ReturningBy
  <2>4. QED
    BY <2>3
<1>11. QED
  BY <1>7, <1>8, <1>9, <1>10 DEF SymbolNext

(* Symbols that are coded in contexts come back: if all symbols of the     *)
(* packets are (AllInContext), the unpacker never asks for a step the      *)
(* packer did not code, never meets a value outside its alphabet, and has  *)
(* every value back (om_op and ctx_code of opusmode.c), however the        *)
(* contexts collide, the table grows, and the counts and their block sums  *)
(* are halved; for any sizes, priors and hash.                             *)
THEOREM ContextsComeBack ==
  ASSUME SymbolAssumption, CountAssumption, Hashes
  PROVE  SymbolSpec => [](AllInContext => SymbolsComeBack)
<1> USE DEF CountAssumption, Counting, Blocked
<1>1. SymbolInit => ReturnInv
  BY ReturnInitially
<1>2. ReturnInv /\ [SymbolNext]_symVars => ReturnInv'
  BY ReturnKeeps
<1>3. ReturnInv => (AllInContext => SymbolsComeBack)
  <2> SUFFICES ASSUME ReturnInv, AllInContext PROVE SymbolsComeBack
    OBVIOUS
  <2>1. PICK n \in 0 .. Len(ops) : \E H : ReturningBy(n, H)
    BY DEF ReturnInv
  <2>2. PICK H : ReturningBy(n, H)
    BY <2>1
  <2>3. CASE got = <<>> /\ doing = "pack"
    BY <2>3 DEF SymbolsComeBack
  <2>4. CASE doing = "unpack" /\ got \in Seq(Int) /\ \A i \in 1 .. Len(got) : got[i] = ops[i].v
    <3>1. DOMAIN got = 1 .. Len(got)
      BY <2>4
    <3>2. QED
      BY <2>4, <3>1 DEF SymbolsComeBack
  <2>5. QED
    BY <2>2, <2>3, <2>4 DEF ReturningBy
<1>4. QED
  BY <1>1, <1>2, <1>3, PTL DEF SymbolSpec
=============================================================================
