--------------------------- MODULE MCVorbisAudio ----------------------------
(* Setups for VorbisAudio: words of up to four bits, bytes of three, and    *)
(* every book of up to four entries by itself.                              *)
EXTENDS Integers, SequencesExt

LOCAL Plain(len, dim) == [form |-> [kind |-> "dense", len |-> len], dim |-> dim, look |-> 0, mult |-> <<>>]
LOCAL Grid(len, dim, mult) == [form |-> [kind |-> "dense", len |-> len], dim |-> dim, look |-> 1, mult |-> mult]
LOCAL Gaps(used, len, dim, mult) ==
  [form |-> [kind |-> "sparse", used |-> used, len |-> len], dim |-> dim, look |-> 1, mult |-> mult]
LOCAL Runs(ent, first, runs) ==
  [form |-> [kind |-> "ordered", ent |-> ent, first |-> first, runs |-> runs], dim |-> 1, look |-> 0, mult |-> <<>>]

(* 1 and 2 values, 3 words of two classes, 4 to 6 digits, 7 a word longer   *)
(* than the table, 8 the largest digits there may be and 9 one larger, 10   *)
(* and 11 without words for some bits.                                      *)
LOCAL AudioBooks ==
  <<Plain(<<1, 2, 2>>, 1), Plain(<<1, 1>>, 1), Plain(<<2, 2, 2, 2>>, 2),
    Grid(<<2, 1, 2>>, 1, <<2, 0, 1>>), Grid(<<2, 2, 2, 2>>, 2, <<3, 0>>),
    Gaps(<<TRUE, FALSE, TRUE, TRUE>>, <<1, 4, 2, 2>>, 2, <<0, 1>>),
    Plain(<<1, 2, 3, 4, 4>>, 1), Grid(<<1, 1>>, 1, <<31, 1>>), Grid(<<1, 1>>, 1, <<31, 0>>),
    Plain(<<2, 2>>, 1), Plain(<<1>>, 1)>>

LOCAL Floor(pcls, csub, cdim, cbook, csb, srt) ==
  [pcls |-> pcls, csub |-> <<csub>>, cdim |-> <<cdim>>, cbook |-> <<cbook>>, csb |-> <<csb>>, bits |-> 1, srt |-> srt]

LOCAL Thin == Floor(<<1>>, 1, 1, 2, <<11, 10>>, <<1, 2, 3>>)

LOCAL Flat == Floor(<<>>, 0, 1, 0, <<0>>, <<1, 2>>)

LOCAL Floors ==
  {Floor(<<1>>, 1, 1, 2, <<2, 1>>, <<1, 3, 2>>), Floor(<<1>>, 1, 1, 1, <<0, 1>>, <<1, 2, 3>>),
   Floor(<<1>>, 0, 2, 0, <<7>>, <<4, 1, 3, 2>>), Thin}

LOCAL Residue(type, psz, ncl, cbook, book) ==
  [type |-> type, beg |-> 0, end |-> 4, psz |-> psz, ncl |-> ncl, cbook |-> cbook, book |-> book]

LOCAL Residues ==
  {Residue(1, 2, 2, 3, <<<<0, 0>>, <<5, 4>>>>), Residue(0, 2, 2, 3, <<<<6, 0>>, <<0, 4>>>>),
   Residue(2, 2, 2, 3, <<<<4, 0>>, <<6, 0>>>>), Residue(1, 1, 1, 2, <<<<4, 0>>>>),
   Residue(0, 1, 2, 2, <<<<5, 0>>, <<0, 0>>>>)}

(* The last partition from a place on, with digits that are large or go     *)
(* over the end.                                                            *)
LOCAL Ending(type, beg, b) ==
  [type |-> type, beg |-> beg, end |-> beg + 1, psz |-> 1, ncl |-> 2, cbook |-> 2, book |-> <<<<b, 0>>, <<0, 0>>>>]

LOCAL Setup(ch, fl, rs, mux, steps, modes) ==
  [books |-> SubSeq(AudioBooks, 1, IF fl[1] = Thin THEN 11 ELSE 9), ch |-> ch, fl |-> fl, rs |-> rs, half |-> <<2, 4>>, modes |-> modes,
   mp |-> <<[mux |-> mux, fl |-> [i \in DOMAIN fl |-> i], rs |-> [i \in DOMAIN rs |-> i], steps |-> steps]>>]

LOCAL Short == [blockflag |-> 0, map |-> 1]
LOCAL Long == [blockflag |-> 1, map |-> 1]

LOCAL Pairs == {r \in Residues : r.psz = 2 /\ r.type > 0}

LOCAL AllOfFour(x) == [x EXCEPT !.half = <<4, 4>>]

(* Both packets have room for windows.                                      *)
LOCAL WindowSetups ==
  {Setup(1, <<Flat>>, <<Ending(1, 0, 4)>>, <<1>>, <<>>, modes) : modes \in {<<Long, Long>>, <<Short, Long>>}}

AudioSetups ==
  {Setup(1, <<f>>, <<Residue(1, 1, 2, 2, <<<<0, 0>>, <<4, 0>>>>)>>, <<1>>, <<>>, <<Short>>) : f \in Floors}
  \cup {Setup(1, <<Flat>>, <<r>>, <<1>>, <<>>, <<Short>>) : r \in Residues}
  \cup {Setup(2, <<Flat>>, <<r>>, <<1, 1>>, <<<<1, 2>>>>, <<Short>>) : r \in Pairs}
  \cup {Setup(2, <<Flat, Flat>>, <<r, r>>, <<1, 2>>, <<>>, <<Long, Short>>) : r \in Pairs}
  \cup {Setup(1, <<Flat>>, <<r>>, <<1>>, <<>>, <<Long, Short, Long>>) : r \in Pairs}
  \cup {AllOfFour(Setup(1, <<Flat>>, <<Ending(1, p, b)>>, <<1>>, <<>>, <<Short>>)) : p \in 2 .. 3, b \in {5, 8, 9}}
  \cup {AllOfFour(Setup(2, <<Flat>>, <<Ending(2, p, 5)>>, <<1, 1>>, <<>>, <<Short>>)) : p \in 6 .. 7}
  \cup WindowSetups

LOCAL Alone(x) ==
  [books |-> <<x>>, ch |-> 1, fl |-> <<>>, rs |-> <<>>, half |-> <<2, 4>>, modes |-> <<Short>>, mp |-> <<>>]

LOCAL Lists(k, top) == UNION {[1 .. n -> 0 .. top] : n \in 0 .. k}

BookSetups ==
  {Alone(Gaps([i \in DOMAIN l |-> l[i] > 0], l, dim, <<1, 0, 2, 4>>)) : l \in Lists(4, 4), dim \in 1 .. 2}
  \cup {Alone(Gaps([i \in DOMAIN l |-> l[i] > 0], l, dim, <<1, 0, 2, 4>>)) : l \in Lists(4, 2), dim \in {0, 3, 4}}
  \cup {Alone(Plain([i \in 1 .. n |-> 3], dim)) : n \in 3 .. 6, dim \in 1 .. 11}
  \cup {Alone([Grid(l, 1, <<0, 1>>) EXCEPT !.look = look]) : l \in {<<1, 1>>, <<1, 1, 1>>}, look \in 0 .. 3}
  \cup {Alone(Grid(l, 2, <<2, 2>>)) : l \in {<<1, 1>>, <<2, 2, 2, 2>>}}
  \cup {Alone(Runs(ent, first, runs)) : ent \in 0 .. 4, first \in 1 .. 4, runs \in Lists(3, 2)}

(* Packets of one to three bytes, and behind each any of one byte, or two   *)
(* where the windows are what matters.                                      *)
LOCAL PacketsTried(bytes, cont) ==
  UNION {{[bits |-> <<0>> \o b, cont |-> cont] : b \in [1 .. 3 * k - 1 -> {0, 1}]} : k \in bytes}

AudioPackets(x) ==
  IF Len(x.books) = 1 THEN <<>>
  ELSE IF x \in WindowSetups THEN <<PacketsTried({2}, 0), PacketsTried(1 .. 2, 1)>>
  ELSE <<PacketsTried(1 .. 3, 0), PacketsTried({1}, 1)>>
=============================================================================
