------------------------------ MODULE SlotPool ------------------------------
(***************************************************************************)
(* The model slots of src/vorbis.c.  Residue digits are coded with the     *)
(* statistics of a slot, of which there are few.  A codebook is given the  *)
(* slot of the codebook most like it, a free one, or that of the slot used *)
(* least.  Each slot has a region of the arena, cleared not when the slot  *)
(* changes hands but when it is next coded with; flags say whether it has  *)
(* to be.  The pool lives as long as the file: over its links, over resets *)
(* in between, and with setups that outlive both.                          *)
(*                                                                         *)
(* Slots are numbered from one; region 0 stands for the tables the slots   *)
(* share.  Only codebooks with a lookup table are here, the others have no *)
(* slot.  Encoder and decoder both run this code.                          *)
(***************************************************************************)
EXTENDS Integers, Sequences, FiniteSetsExt

CONSTANTS
  Books,    \* codebooks: shape (multiplicands and their step), lengths of the words
  NSlots,   \* ns
  MaxLinks, \* links of a file
  MaxBooks  \* codebooks in all its setups

ASSUME PoolAssumption ==
  /\ NSlots \in Nat \ {0} /\ \E i \in 0 .. 7 : NSlots = 2 ^ i
  /\ \A b \in Books : b.len \in Seq(0 .. 32)

VARIABLES
  solid,   \* whether links share what the models have learnt
  sl,      \* the slots in use: shape, len, use
  st,      \* the slots a codebook of this link was given
  ar,      \* whether the arena is there
  ai,      \* the slots whose regions need no clearing
  ad,      \* the slots whose regions were ever written
  su,      \* the setups: the slot of each codebook
  cur,     \* the setup of the link
  reused,  \* whether an earlier link coded it
  links,   \* links begun
  phase,   \* "idle", "headers" or "audio"
  region,  \* what a region has learnt: "now" from its codebook or one like it,
           \* "before" from another, or before a reset
  coded    \* the regions the link has coded with

pool == <<sl, st>>
arena == <<ar, ai, ad>>
link == <<cur, reused, links, phase>>
vars == <<solid, pool, arena, su, link, region, coded>>

Slots == 1 .. NSlots
Regions == 0 .. NSlots
Ages == {"now", "before"}

-----------------------------------------------------------------------------
(* How far a codebook is from those that have a slot.                      *)

Hole == 255
Close == 256     \* a bit of length for each word, in 256ths
Kin == 4094
Far == 2 ^ 24
NoBound == 2147483647    \* above every bound; 2^32 - 1 in the code

pool_cmp(b) == [i \in DOMAIN b.len |-> IF b.len[i] = 0 THEN Hole ELSE b.len[i]]

pool_dist(k, b) ==
  LET apart(i) == LET d == sl[k].len[i] - pool_cmp(b)[i] IN IF d < 0 THEN -d ELSE d
  IN  MapThenSumSet(apart, DOMAIN b.len)

Compatible(b) == {k \in DOMAIN sl : sl[k].shape = b.shape /\ Len(sl[k].len) = Len(b.len)}

(* A search that is content with any of the same shape.                    *)
FirstCompatible(b, k) == k \in Compatible(b) /\ \A j \in Compatible(b) : j >= k

(* The first of the nearest.                                               *)
Nearest(b, k) ==
  /\ k \in Compatible(b)
  /\ \A j \in Compatible(b) : /\ pool_dist(j, b) >= pool_dist(k, b)
                              /\ j < k => pool_dist(j, b) > pool_dist(k, b)

(* The distance for each word that is used.                                *)
Norm(b, d) ==
  LET used == {i \in DOMAIN b.len : b.len[i] # 0}
  IN  IF d >= Far THEN NoBound
      ELSE IF used # {} THEN (d * 256) \div Cardinality(used)
      ELSE IF d > 0 THEN NoBound ELSE 0

Within(b, k, bound) == Nearest(b, k) /\ Norm(b, pool_dist(k, b)) <= bound
SomeWithin(b, bound) == \E k \in DOMAIN sl : Within(b, k, bound)

(* The first of the least used.                                            *)
LeastUsed(k) == \A j \in DOMAIN sl : sl[j].use >= sl[k].use /\ (j < k => sl[j].use > sl[k].use)

(* The use of the others, shared out over the pool: shifted by its log.    *)
Seed(k) == LET use(i) == sl[i].use IN MapThenSumSet(use, DOMAIN sl \ {k}) \div NSlots

Age(learnt) == IF learnt = {} THEN {} ELSE {"before"}

-----------------------------------------------------------------------------
(* What codebooks() does with each codebook that has a lookup table.       *)

(* Slots whose use is not noted.                                           *)
TouchNone(k) == st

Touch(k) == st \cup {k}

Given(k) ==
  /\ phase = "headers"
  /\ st' = Touch(k)
  /\ su' = [su EXCEPT ![cur] = Append(@, k)]
  /\ UNCHANGED <<solid, ar, ad, link, coded>>

pool_take(b, use) == [shape |-> b.shape, len |-> pool_cmp(b), use |-> use]

Share(b) ==
  /\ \E k \in DOMAIN sl : /\ Within(b, k, Close)
                          /\ sl' = [sl EXCEPT ![k].use = @ + 1]
                          /\ Given(k)
  /\ UNCHANGED <<ai, region>>

HasRoom == Len(sl) < NSlots

(* Free slots begin with no use.  A codebook that nobody has yet been like *)
(* learns anew: what the region holds is from before.                      *)
TakeFree(b) ==
  LET k == Len(sl) + 1
  IN  /\ ~SomeWithin(b, Close) /\ HasRoom
      /\ sl' = Append(sl, pool_take(b, 0))
      /\ Given(k)
      /\ region' = [region EXCEPT ![k] = Age(@)]
      /\ UNCHANGED ai

(* A full pool: a codebook that is not close, but of a kind with another,  *)
(* goes on with what that one has learnt.                                  *)
Refit(b) ==
  /\ ~SomeWithin(b, Close) /\ ~HasRoom
  /\ \E k \in DOMAIN sl : /\ Within(b, k, Kin)
                          /\ sl' = [sl EXCEPT ![k] = pool_take(b, Seed(k))]
                          /\ Given(k)
  /\ UNCHANGED <<ai, region>>

(* An evicted slot that is still taken for seeded.                         *)
UnseedNone(k) == ai

Unseed(k) == ai \ {k}

Evict(b) ==
  /\ ~SomeWithin(b, Kin) /\ ~HasRoom
  /\ \E k \in DOMAIN sl : /\ LeastUsed(k)
                          /\ sl' = [sl EXCEPT ![k] = pool_take(b, Seed(k))]
                          /\ ai' = Unseed(k)
                          /\ Given(k)
                          /\ region' = [region EXCEPT ![k] = Age(@)]

pool_slot(b) == Share(b) \/ TakeFree(b) \/ Refit(b) \/ Evict(b)

BooksCoded == LET books(n) == Len(su[n]) IN MapThenSumSet(books, DOMAIN su)

Codebook == \E b \in Books : BooksCoded < MaxBooks /\ pool_slot(b)

-----------------------------------------------------------------------------
(* Links.                                                                  *)

(* The probabilities and the pool, but no setup.  The tables that slots    *)
(* share are cleared at once, the regions of slots when they are used.     *)
vb_reset ==
  /\ sl' = <<>>
  /\ IF ar THEN ai' = {} ELSE UNCHANGED ai
  /\ region' = [k \in Regions |-> IF k = 0 THEN {} ELSE Age(region[k])]

(* What begins a link: a reset that only the first and solid ones go       *)
(* without, and the histories, here the touched slots.                     *)
Enter ==
  /\ phase = "idle" /\ links < MaxLinks
  /\ IF solid \/ links = 0 THEN UNCHANGED <<sl, ai, region>> ELSE vb_reset
  /\ st' = {}
  /\ links' = links + 1
  /\ coded' = {}
  /\ UNCHANGED <<solid, ar, ad>>

CodeHeaders ==
  /\ Enter
  /\ su' = Append(su, <<>>) /\ cur' = Len(su) + 1
  /\ reused' = FALSE
  /\ phase' = "headers"

(* Header pages that repeat earlier ones are not coded.                    *)
vb_use ==
  /\ Enter
  /\ cur' \in DOMAIN su
  /\ reused' = TRUE
  /\ phase' = "audio"
  /\ UNCHANGED su

HeadersDone ==
  /\ phase = "headers"
  /\ phase' = "audio"
  /\ UNCHANGED <<solid, pool, arena, su, cur, reused, links, region, coded>>

(* A partition of a residue: the arena is made for the first packet, with  *)
(* every flag down; a region not seeded is cleared, if ever written.       *)
ar_slot(k) ==
  LET seeded == IF ar THEN ai ELSE {}
      written == IF ar THEN ad ELSE {}
      left == IF k \in written \ seeded THEN {} ELSE region[k]
  IN  /\ ar' = TRUE
      /\ ai' = seeded \cup {k}
      /\ ad' = IF k \in seeded THEN written ELSE written \cup {k}
      /\ region' = [region EXCEPT ![k] = left \cup {"now"}, ![0] = @ \cup {"now"}]

Partition ==
  /\ phase = "audio"
  /\ \E j \in DOMAIN su[cur] : ar_slot(su[cur][j]) /\ coded' = coded \cup {0, su[cur][j]}
  /\ UNCHANGED <<solid, pool, su, link>>

(* Slots that no codebook of the link was given lose some of their use.    *)
vb_endlink ==
  /\ phase = "audio"
  /\ phase' = "idle"
  /\ sl' = [k \in DOMAIN sl |->
              IF k \notin st /\ sl[k].use > 0 THEN [sl[k] EXCEPT !.use = @ - 1] ELSE sl[k]]
  /\ st' = {}
  /\ UNCHANGED <<solid, arena, su, cur, reused, links, region, coded>>

(* The flags of regions are not set before there is an arena.              *)
Init ==
  /\ solid \in BOOLEAN
  /\ sl = <<>> /\ st = {}
  /\ ar = FALSE /\ ai \in SUBSET Slots /\ ad \in SUBSET Slots
  /\ su = <<>> /\ cur = 0 /\ reused = FALSE
  /\ links = 0 /\ phase = "idle"
  /\ region = [k \in Regions |-> {}] /\ coded = {}

Next == CodeHeaders \/ vb_use \/ Codebook \/ HeadersDone \/ Partition \/ vb_endlink

Spec == Init /\ [][Next]_vars

-----------------------------------------------------------------------------
Flags == [ar : BOOLEAN, ai : SUBSET Slots, ad : SUBSET Slots]

(* The types.  Every codebook has a slot that the arena has a region for,  *)
(* after a reset too (vorbis.c:923).                                       *)
TypeOK ==
  /\ solid \in BOOLEAN /\ reused \in BOOLEAN
  /\ Len(sl) <= NSlots /\ \A k \in DOMAIN sl : sl[k].use \in Nat
  /\ st \subseteq DOMAIN sl
  /\ [ar |-> ar, ai |-> ai, ad |-> ad] \in Flags
  /\ \A n \in DOMAIN su : \A j \in DOMAIN su[n] : su[n][j] \in Slots
  /\ links \in 0 .. MaxLinks /\ phase \in {"idle", "headers", "audio"}
  /\ cur \in 0 .. Len(su) /\ (phase # "idle" => cur # 0)
  /\ region \in [Regions -> SUBSET Ages] /\ coded \subseteq Regions

(* Nothing is coded with what a region learnt before its slot was taken    *)
(* from another codebook, or before the models were reset: the flags       *)
(* ar_slot goes by always tell (vorbis.c:924-934), in whatever order the   *)
(* arena is made, slots are evicted, the pool is reset and setups reused.  *)
Fresh == \A k \in coded : region[k] = {"now"}

(* No two slots are for the same codebook: a codebook that has a slot gets *)
(* that one again, however the slots were refitted and evicted since       *)
(* (vorbis.c:459-474).                                                     *)
Distinct == \A j, k \in DOMAIN sl : j # k => sl[j].shape # sl[k].shape \/ sl[j].len # sl[k].len

(* A link that coded its own headers does not age the slots it coded with, *)
(* whichever way its codebooks came by them (vorbis.c:220).                *)
AgesNoneOfItsOwn ==
  [][phase = "audio" /\ phase' = "idle" /\ ~reused =>
       \A k \in coded \cap DOMAIN sl : sl'[k].use = sl[k].use]_vars

(* "Age unused model slots at the end of a link" (vorbis.h:261): of every  *)
(* link.                                                                   *)
AgesUnused ==
  [][phase = "audio" /\ phase' = "idle" =>
       \A k \in coded \cap DOMAIN sl : sl'[k].use = sl[k].use]_vars
=============================================================================
