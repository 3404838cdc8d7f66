---------------------------- MODULE MCLinkDedup ----------------------------
EXTENDS LinkDedup

Page(open, eos, serial, pkts) == [open |-> open, eos |-> eos, serial |-> serial, pkts |-> pkts]

First(pkts) == <<[open |-> TRUE, pkts |-> pkts]>>
Later(pkts) == <<[open |-> FALSE, pkts |-> pkts]>>

(* Links: with and without audio, with headers on pages of their own, in   *)
(* one page, on the first page, or sharing a page with audio.              *)
Short ==
  {First(<<"i">>) \o Later(<<"c", "s">>),
   First(<<"i">>) \o Later(<<"c", "s">>) \o Later(<<"a">>),
   First(<<"i">>) \o Later(<<"c", "s">>) \o Later(<<"b">>),
   First(<<"i">>) \o Later(<<"c">>) \o Later(<<"t", "a">>),
   First(<<"i">>) \o Later(<<"c">>) \o Later(<<"s", "b">>)}
Long ==
  Short \cup
  {First(<<"i", "c", "s">>) \o Later(<<"a">>),
   First(<<"j">>) \o Later(<<"c", "t">>) \o Later(<<"a">>) \o Later(<<"b">>),
   First(<<"i">>) \o Later(<<"c">>) \o Later(<<"s">>) \o Later(<<"a">>),
   First(<<"i">>) \o Later(<<"c", "s", "c">>),
   First(<<"i">>) \o Later(<<"c">>) \o Later(<<"a">>)}

(* A link with its serial, ended by its last page or cut short.            *)
Stamped(link, serial, eos) ==
  [k \in DOMAIN link |-> Page(link[k].open, eos /\ k = Len(link), serial, link[k].pkts)]

Chains(shapes, serials, n) ==
  {FlattenSeq(c) : c \in [1 .. n -> {Stamped(l, s, FALSE) : l \in shapes, s \in serials}]}

Cut(shapes) == {Stamped(l, s, e) : l \in shapes, s \in {1, 2}, e \in BOOLEAN}

ChainFiles ==
  {<<>>} \cup Cut(Long)
  \cup {x \o y : x \in Cut(Long), y \in Cut(Long)}
  \cup {x \o Tail(y) : x \in Cut(Short), y \in Cut(Short)}
  \cup {Tail(x) : x \in Cut(Short)}
  \cup Chains(Long, {1, 2}, 3)
  \cup Chains(Short, {1, 2}, 4)

(* Two links of which a page has another serial than the link.             *)
MixedFiles ==
  LET base == First(<<"i">>) \o Later(<<"c", "s">>) \o Later(<<"a">>)
      mixed(serial) == [k \in DOMAIN base |-> Page(base[k].open, FALSE, serial[k], base[k].pkts)]
  IN  {mixed(s) \o mixed(t) : s, t \in [1 .. 3 -> {1, 2}]}

AllOptions ==
  {[solid |-> TRUE, dd |-> FALSE, df |-> FALSE], [solid |-> FALSE, dd |-> FALSE, df |-> FALSE],
   [solid |-> FALSE, dd |-> TRUE, df |-> TRUE]}
=============================================================================
