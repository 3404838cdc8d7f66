----------------------------- MODULE MCComments ------------------------------
(***************************************************************************)
(* Comment packets for Comments: lengths of two bytes, a magic of one, a   *)
(* window as short as a block, so that matches reach all of it and text    *)
(* runs over blocks.                                                       *)
(***************************************************************************)
EXTENDS Integers, SequencesExt

LOCAL Magic == <<9>>

LOCAL Sized(bytes) == <<Len(bytes), 0>> \o bytes

LOCAL Comment(vendor, fields, tail) ==
  Magic \o Sized(vendor) \o <<Len(fields), 0>> \o FlattenSeq([i \in DOMAIN fields |-> Sized(fields[i])]) \o tail

(* "P=" and "p=".                                                          *)
LOCAL Keys == {<<80, 61>>, <<112, 61>>}

(* Pictures in base64, of 16, 17, 18 and 22 bytes, with words that go over  *)
(* from four characters to the next; and two that say they have data or a  *)
(* name that are not there, if the higher byte of the word is read too.    *)
LOCAL Pictures ==
  {<<65, 65, 77, 65, 65, 65, 65, 65, 65, 65, 69, 65, 65, 118, 118, 47, 65, 65, 81, 65, 65, 65, 61, 61>>,
   <<65, 65, 77, 65, 65, 65, 65, 65, 65, 65, 69, 65, 65, 103, 65, 68, 65, 81, 81, 65, 65, 102, 56, 61>>,
   <<65, 65, 77, 65, 65, 99, 103, 65, 65, 65, 65, 66, 65, 65, 73, 65, 65, 119, 65, 69, 65, 65, 69, 47>>,
   <<65, 65, 77, 65, 65, 103, 107, 76, 65, 65, 69, 66, 65, 65, 73, 65, 65, 119, 65, 69, 65, 65, 85, 65, 65, 48, 49, 66, 81, 103, 61, 61>>,
   <<65, 65, 77, 65, 65, 65, 65, 65, 65, 65, 69, 65, 65, 103, 65, 68, 65, 65, 81, 66, 65, 81, 69, 61>>,
   <<65, 65, 77, 66, 65, 81, 107, 65, 65, 65, 65, 66, 65, 65, 73, 65, 65, 119, 65, 69, 65, 65, 65, 61>>}

(* The same with one character in place of another near the end: a pad, a  *)
(* digit with spare bits set, and none of base64.                          *)
LOCAL Spoilt(p) ==
  {[p EXCEPT ![i] = b] : i \in Len(p) - 4 .. Len(p), b \in {61, 66, 82, 33}}
  \cup {Front(p), p \o <<65>>, p \o <<65, 65, 65, 65>>}

LOCAL PictureFields ==
  {k \o p : k \in Keys, p \in Pictures}
  \cup {<<80, 61>> \o p : p \in UNION {Spoilt(q) : q \in Pictures}}

LOCAL Fields == {<<>>, <<61>>, <<1, 1, 61, 1, 1, 1>>, <<2, 1, 2>>, <<80, 61>>, <<80, 61, 65>>}

LOCAL Structured ==
  {Comment(v, <<f, g>>, t) : v \in {<<>>, <<1, 2, 1, 2, 1>>}, f \in Fields, g \in Fields, t \in {<<>>, <<1, 1>>}}
  \cup {Comment(<<>>, <<f>>, <<2>>) : f \in PictureFields}
  \cup {Comment(<<1>>, <<>>, <<>>)}

(* Lengths and counts that go beyond the packet.                           *)
LOCAL Beyond ==
  LET good == Comment(<<1, 2>>, <<<<1, 61, 2>>, <<2>>>>, <<>>)
  IN  {[good EXCEPT ![i] = v] : i \in {1, 2, 3, 6, 7, 8, 9, 13}, v \in {0, 1, 2, 3, 9, 200}}
      \cup {SubSeq(good, 1, k) : k \in 0 .. Len(good)}

LOCAL Opaque == UNION {[1 .. k -> {1, 2}] : k \in 0 .. 8}

CommentPackets == [magic : {Magic}, bytes : Opaque \cup Structured \cup Beyond]

CommentHash(b) == (3 * b[1] + b[2]) % 4
=============================================================================
