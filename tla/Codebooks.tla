------------------------------ MODULE Codebooks ------------------------------
(***************************************************************************)
(* The codebooks of a Vorbis setup header, as src/vorbis.c keeps them to   *)
(* read and to write audio packets: the lengths of the codewords in the    *)
(* forms a header gives them, the words, the tree that reads them, with    *)
(* its table for the first bits, and the grid of a lookup table.           *)
(*                                                                         *)
(* A word is the sequence of its bits, and a node of the tree the sequence *)
(* of bits that leads there.  Entries are numbered from nought.            *)
(***************************************************************************)
EXTENDS Integers, SequencesExt, FiniteSetsExt

CONSTANTS
  LenMax,    \* the longest word, 32, which is also the bits of a number
  FastBits,  \* the bits the table is asked with, 8
  EntBits,   \* the bits of an entry that the reciprocal divides exactly, 24
  MaxEntries, SizeBits  \* the most entries, 2^20, and the bits of dimension and entries, 24

-----------------------------------------------------------------------------
(* lengths: an ordered form gives the number of words of each length, the  *)
(* others a length for each entry, the sparse one for those in use.        *)

Unread == [ok |-> FALSE, len |-> <<>>]

ordered(form, ent) ==
  LET Run(y, n) ==
        IF Len(y.len) = ent \/ ~y.ok THEN y
        ELSE IF n > ent - Len(y.len) \/ y.cur > LenMax THEN [y EXCEPT !.ok = FALSE]
        ELSE [y EXCEPT !.len = @ \o [i \in 1 .. n |-> y.cur], !.cur = @ + 1]
      Of(y) == IF y.ok /\ Len(y.len) = ent THEN [ok |-> TRUE, len |-> y.len] ELSE Unread
  IN  Of(FoldLeft(Run, [ok |-> TRUE, len |-> <<>>, cur |-> form.first], form.runs))

lengths(form) ==
  CASE form.kind = "ordered" -> ordered(form, form.ent)
    [] form.kind = "dense"   -> [ok |-> TRUE, len |-> form.len]
    [] form.kind = "sparse"  ->
         [ok |-> TRUE, len |-> [i \in DOMAIN form.used |-> IF form.used[i] THEN form.len[i] ELSE 0]]

Used(len) == {e \in 0 .. Len(len) - 1 : len[e + 1] > 0}

-----------------------------------------------------------------------------
(* Words.                                                                  *)

Number(v) == v % 2 ^ LenMax

(* Only the next word of the same length is another.                       *)
TakenAlone(mk, l) == [mk EXCEPT ![l] = Number(@ + 1)]

(* The next free words mk, after the one of length l has been taken: those *)
(* of shorter words that it was part of, and of longer ones below it.      *)
Taken(mk, l) ==
  LET odd == {j \in 1 .. l : mk[j] % 2 = 1}
      stop == IF odd = {} THEN 0 ELSE Max(odd)
      up == [j \in 1 .. LenMax |->
               IF j > l \/ j < stop THEN mk[j]
               ELSE IF j = stop /\ j > 1 THEN Number(2 * mk[j - 1])
               ELSE Number(mk[j] + 1)]
      below == Max({l} \cup {j \in l + 1 .. LenMax : \A i \in l + 1 .. j : mk[i] \div 2 = mk[i - 1]})
  IN  [j \in 1 .. LenMax |-> IF j > l /\ j <= below THEN Number(up[l] * 2 ^ (j - l)) ELSE up[j]]

Codeword(v, l) == [k \in 1 .. l |-> (v \div 2 ^ (l - k)) % 2]

Assigned(y, l) ==
  IF l = 0 THEN [y EXCEPT !.code = Append(@, <<>>)]
  ELSE IF l < LenMax /\ y.mk[l] >= 2 ^ l THEN [y EXCEPT !.ok = FALSE]
  ELSE [y EXCEPT !.code = Append(@, Codeword(y.mk[l], l)), !.mk = Taken(@, l)]

bk_words(len) ==
  FoldLeft(LAMBDA y, l : IF y.ok THEN Assigned(y, l) ELSE y,
           [ok |-> TRUE, code |-> <<>>, mk |-> [j \in 1 .. LenMax |-> 0]], len)

-----------------------------------------------------------------------------
(* The tree.                                                               *)

WordOf(b, e) == b.code[e + 1]

Fronts(w) == {SubSeq(w, 1, k) : k \in 0 .. Len(w) - 1}

Interior(b) == UNION {Fronts(WordOf(b, e)) : e \in Used(b.len)}

(* The tree has room for its root and one node more than it has entries.   *)
Overflows(b) == Cardinality(Interior(b) \cup {<<>>}) > Cardinality(Used(b.len)) + 2

Collide(b) ==
  \E e, d \in Used(b.len) : e # d /\ IsPrefix(WordOf(b, e), WordOf(b, d))

bk_tree(b) == ~Overflows(b) /\ ~Collide(b)

(* Where a walk from `node' along bits comes to: the first node that is    *)
(* none to go on from, or the last one.                                    *)
Walk(b, node, bits) ==
  LET Off(k) == node \o SubSeq(bits, 1, k) \notin Interior(b)
      ks == {k \in 1 .. Len(bits) : Off(k)}
  IN  IF ks = {} THEN Len(bits) ELSE Min(ks)

(* The entry at a node, or that there is none.                             *)
LeafAt(b, node) ==
  LET es == {e \in Used(b.len) : WordOf(b, e) = node}
  IN  IF es = {} THEN -1 ELSE CHOOSE e \in es : TRUE

-----------------------------------------------------------------------------
(* The grid of a lookup table.                                             *)

(* The largest v with v ^ dim <= entries, without a product beyond them.   *)
Power(v, dim, entries) ==
  FoldLeft(LAMBDA p, i : IF p > entries \div v THEN entries + 1 ELSE p * v, 1, [i \in 1 .. dim |-> i])

lk1(entries, dim) ==
  CHOOSE v \in 0 .. entries :
    Power(v + 1, dim, entries) > entries /\ \A u \in 1 .. v : Power(u, dim, entries) <= entries

ilog(v) == CHOOSE k \in 0 .. LenMax : v < 2 ^ k /\ (k > 0 => v >= 2 ^ (k - 1))

(* The quotient by nv: of a product by its reciprocal, rounded up.         *)
Quotient(t, nv) ==
  LET shift == EntBits + ilog(nv - 1)
      mul == (2 ^ shift + nv - 1) \div nv
  IN  (t * mul) \div 2 ^ shift

MultOf(b, i) == b.mult[i + 1]

Middle(b) == (Max(Range(b.mult)) + 1) \div 2

(* The multiplicands are as many as lk1 says, all different, and every     *)
(* entry in use has digits of its own.                                     *)
bk_look(b) ==
  LET np == IF b.nv > 1 THEN b.nv ^ b.dim ELSE 1
  IN  b.nv > 0 /\ IsInjective(b.mult) /\ \A e \in Used(b.len) : e < np

Digit(b, e, k) ==
  LET t[i \in 0 .. k] == IF i = 0 THEN e ELSE Quotient(t[i - 1], b.nv)
  IN  t[k] - Quotient(t[k], b.nv) * b.nv

-----------------------------------------------------------------------------
(* A book of the header: its form, its dimension, the type of its lookup   *)
(* table or 0, and the multiplicands there would be.                       *)

NoBook == [ok |-> FALSE]

Ent(form) == CASE form.kind = "ordered" -> form.ent
               [] form.kind = "dense"   -> Len(form.len)
               [] form.kind = "sparse"  -> Len(form.used)

Supported(dim, ent) == dim > 0 /\ ent <= MaxEntries /\ ilog(dim) + ilog(ent) <= SizeBits

codebook(x) ==
  LET Looked(b) == IF x.look = 0 \/ (x.look = 1 /\ bk_look(b)) THEN b ELSE NoBook
      Treed(b) == IF bk_tree(b) THEN Looked(b) ELSE NoBook
      Gridded(w, len, nv) ==
        Treed([ok |-> TRUE, dim |-> x.dim, look |-> x.look, len |-> len, code |-> w.code, nv |-> nv,
               mult |-> IF x.look = 1 THEN SubSeq(x.mult, 1, nv) ELSE <<>>])
      Worded(w, len) ==
        IF ~w.ok THEN NoBook
        ELSE Gridded(w, len, IF x.look = 1 THEN lk1(Len(len), x.dim) ELSE 0)
      Read(l) == IF l.ok THEN Worded(bk_words(l.len), l.len) ELSE NoBook
  IN  IF Supported(x.dim, Ent(x.form)) THEN Read(lengths(x.form)) ELSE NoBook
=============================================================================
