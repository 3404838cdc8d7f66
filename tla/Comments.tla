------------------------------ MODULE Comments -------------------------------
(***************************************************************************)
(* src/comment.c: the coder of comment packets.  cmt_code runs once over   *)
(* the packet to code it and once, with the same calls, to decode it; the  *)
(* text in it is coded by matches with what came before and by literals,   *)
(* and a picture by the bytes that its base64 stands for.                  *)
(*                                                                         *)
(* What is coded is kept as symbols: a decoder that asks for one with      *)
(* another context or width has lost the stream.  Bytes and base64 are     *)
(* those of the code; the window, the blocks, the lengths of matches, the  *)
(* words and the dictionary are parameters.                                *)
(***************************************************************************)
EXTENDS Integers, SequencesExt

CONSTANTS
  C_BLOCK, C_WINDOW,    \* the bytes of a block of text, and of the history
  MinMatch, C_MATCH,    \* the shortest and the longest match, 4 and 259
  WordBytes,            \* the bytes of a length, 4
  HashOf(_),            \* hash4, and how many values it has
  C_HASH,
  Dictionary,           \* dict, what the history starts with
  PictureKey,           \* the key of a picture, in capitals
  CommentPackets        \* [magic, bytes] of the packets, the magic being that of the codec

VARIABLES
  packet,   \* the packet that is coded
  cmt,        \* cmt, with the symbols coded and the bytes emitted
  jobs      \* what is still to do, the next one first

cmtVars == <<packet, cmt, jobs>>

-----------------------------------------------------------------------------
(* Symbols and output.                                                     *)

n == Len(packet.bytes)

ByteAt(at) == packet.bytes[at + 1]

Lost(x) == [x EXCEPT !.mode = "lost"]

Fatal(x) == [x EXCEPT !.mode = "fatal"]

symbol(x, ctx, bits, v) ==
  LET Told(s) == IF s.ctx = ctx /\ s.bits = bits THEN [x EXCEPT !.wire = Tail(@), !.v = s.v] ELSE Lost(x)
  IN  CASE x.mode = "code" -> [x EXCEPT !.wire = Append(@, [ctx |-> ctx, bits |-> bits, v |-> v % 2 ^ bits]),
                                        !.v = v % 2 ^ bits]
        [] x.mode = "decode" /\ x.wire # <<>> -> Told(Head(x.wire))
        [] x.mode = "decode" /\ x.wire = <<>> -> Lost(x)
        [] OTHER -> x

emit(x, b) == IF x.mode = "decode" THEN [x EXCEPT !.out = @ \o b] ELSE x

Going(x) == x.mode \in {"code", "decode"}

(* Byte i of a word, the lowest first, and the word that bytes make.       *)
ByteOf(v, i) == (v \div 256 ^ i) % 256

WordValue(b) ==
  LET sum[i \in 0 .. WordBytes] == IF i = 0 THEN 0 ELSE sum[i - 1] + b[i] * 256 ^ (i - 1)
  IN  sum[WordBytes]

le32(at) == WordValue([i \in 1 .. WordBytes |-> ByteAt(at + i - 1)])

number(x, ctx, v) ==
  FoldLeft(LAMBDA y, i : LET Of(z) == [z EXCEPT !.v = y.v + @ * 256 ^ i]
                         IN  Of(symbol(y, <<ctx, i>>, 8, ByteOf(v, i))),
           [x EXCEPT !.v = 0], [i \in 1 .. WordBytes |-> i - 1])

(* A word of the packet at x.at.                                           *)
field(x, ctx) ==
  LET Emitted(y) == [emit(y, [i \in 1 .. WordBytes |-> ByteOf(y.v, i - 1)]) EXCEPT !.at = @ + WordBytes]
  IN  IF n - x.at < WordBytes THEN Fatal(x)
      ELSE Emitted(number(x, ctx, IF x.mode = "code" THEN le32(x.at) ELSE 0))

(* All lengths are right: the fields from `at' on, `left' of them, end     *)
(* within the packet.                                                      *)
RECURSIVE Fields(_, _)
Fields(at, left) ==
  left = 0 \/ (n - at >= WordBytes /\ le32(at) <= n - at - WordBytes
               /\ Fields(at + WordBytes + le32(at), left - 1))

structured ==
  LET m == Len(packet.magic)
      Counted(at) == le32(at) <= (n - at - WordBytes) \div WordBytes
                     /\ Fields(at + WordBytes, le32(at))
  IN  /\ n >= m + 2 * WordBytes
      /\ SubSeq(packet.bytes, 1, m) = packet.magic
      /\ le32(m) <= n - m - 2 * WordBytes
      /\ Counted(m + WordBytes + le32(m))

-----------------------------------------------------------------------------
(* Text.                                                                   *)

Text(at, left, role) ==
  [kind |-> "text", at |-> at, left |-> left, role |-> role, prev |-> 0, i |-> 0,
   lit |-> 0, buf |-> <<>>]

Take(t) == IF t.left < C_BLOCK THEN t.left ELSE C_BLOCK

Slot(p) == p % C_WINDOW

(* The byte that a match of distance dist has at len, all of them from the *)
(* history, which the match itself is not in yet.                          *)
MatchedBefore(x, buf, i, dist, len) == x.win[Slot(x.pos - dist + len)]

(* The byte that a match of distance dist has at len, i bytes into buf:    *)
(* from the history, or from the match itself.                             *)
Matched(x, buf, i, dist, len) ==
  IF len < dist THEN x.win[Slot(x.pos - dist + len)] ELSE buf[i + len - dist + 1]

(* The match that the hash knows of, no byte beyond the block.             *)
NoMatch == [dist |-> 0, len |-> 0]

Candidate(x, t) ==
  LET Same(dist, len) == Matched(x, t.buf, t.i, dist, len) = t.buf[t.i + len + 1]
      Longest(dist) == CHOOSE len \in 0 .. C_MATCH :
                         /\ len <= Len(t.buf) - t.i
                         /\ \A l \in 0 .. len - 1 : Same(dist, l)
                         /\ len = C_MATCH \/ len = Len(t.buf) - t.i \/ ~Same(dist, len)
      Of(dist) == IF dist <= C_WINDOW THEN [dist |-> dist, len |-> Longest(dist)] ELSE NoMatch
      Found(p) == IF p = 0 THEN NoMatch ELSE Of(x.pos - (p - 1))
  IN  IF x.mode = "code" /\ Len(t.buf) - t.i >= MinMatch
        THEN Found(x.hash[HashOf(SubSeq(t.buf, t.i + 1, t.i + MinMatch))])
      ELSE NoMatch

(* One byte of text into the history; a decoder copies it first.           *)
Stored(y, b, known) ==
  [y EXCEPT !.win[Slot(y.pos)] = b, !.pos = @ + 1,
            !.hash = IF known = <<>> THEN @ ELSE [@ EXCEPT ![HashOf(known)] = y.pos + 1]]

Known(buf, at) ==
  IF at + MinMatch <= Len(buf) THEN SubSeq(buf, at + 1, at + MinMatch) ELSE <<>>

(* The bytes of a match or a literal: y.job is the text.                   *)
Copied(y, len, dist) ==
  FoldLeft(LAMBDA z, j :
             IF z.x.mode = "code"
               THEN [z EXCEPT !.x = Stored(@, z.t.buf[z.t.i + j], Known(z.t.buf, z.t.i + j - 1))]
             ELSE LET b == IF dist = 0 THEN z.t.lit ELSE z.x.win[Slot(z.x.pos - dist)]
                  IN  [z EXCEPT !.x = Stored(@, b, <<>>), !.t.buf = Append(@, b)],
           y, [j \in 1 .. len |-> j])

Advanced(z, len) ==
  [z EXCEPT !.t.i = @ + len, !.t.prev = z.t.buf[z.t.i + len]]

(* A literal, and a match: length, and distance in two bytes.              *)
Literal(x, t) ==
  LET Of(y) == IF Going(y) THEN Advanced(Copied([x |-> y, t |-> [t EXCEPT !.lit = y.v]], 1, 0), 1)
               ELSE [x |-> y, t |-> t]
  IN  Of(symbol(x, <<"literal", t.role, t.prev \div 16>>, 8, IF x.mode = "code" THEN t.buf[t.i + 1] ELSE 0))

MatchOf(x, t, len, dist) ==
  IF Going(x) /\ ~(dist <= C_WINDOW /\ dist <= x.pos /\ len <= Take(t) - t.i) THEN [x |-> Fatal(x), t |-> t]
  ELSE IF Going(x) THEN Advanced(Copied([x |-> x, t |-> t], len, dist), len)
  ELSE [x |-> x, t |-> t]

Match(x, t, m) ==
  LET d == IF m.dist = 0 THEN 0 ELSE m.dist - 1
      High(y, len, lo) == MatchOf(y, t, len, 1 + lo + 256 * y.v)
      Low(y, len) == High(symbol(y, <<"distance", 1>>, 8, d \div 256), len, y.v)
      Length(y) == Low(symbol(y, <<"distance", 0>>, 8, d % 256), MinMatch + y.v)
  IN  Length(symbol(x, <<"length", t.role>>, 8, IF m.len >= MinMatch THEN m.len - MinMatch ELSE 0))

TextStepped(x, t) ==
  LET m == Candidate(x, t)
      Of(y) == IF ~Going(y) THEN [x |-> y, t |-> t]
               ELSE IF y.v = 1 THEN Match(y, t, m) ELSE Literal(y, t)
  IN  Of(symbol(x, <<"match", t.role>>, 1, IF m.len >= MinMatch THEN 1 ELSE 0))

-----------------------------------------------------------------------------
(* Pictures.                                                               *)

Between(b, lo, hi) == b >= lo /\ b <= hi

un64(b) ==
  CASE Between(b, 65, 90)  -> b - 65
    [] Between(b, 97, 122) -> b - 97 + 26
    [] Between(b, 48, 57)  -> b - 48 + 52
    [] b = 43 -> 62
    [] b = 47 -> 63
    [] OTHER  -> -1

Digit64(v) ==
  CASE v < 26 -> v + 65
    [] v \in 26 .. 51 -> v - 26 + 97
    [] v \in 52 .. 61 -> v - 52 + 48
    [] v = 62 -> 43
    [] OTHER  -> 47

Pad == 61

(* The bytes that four characters stand for, those past the end being      *)
(* nought, and the characters for `take' bytes.                            *)
OrNought(v) == IF v < 0 THEN 0 ELSE v

Raw(b) ==
  LET u == [i \in 1 .. 4 |-> OrNought(un64(b[i]))]
  IN  <<(u[1] * 4 + u[2] \div 16) % 256, (u[2] * 16 + u[3] \div 4) % 256, (u[3] * 64 + u[4]) % 256>>

Quad(r, take) ==
  <<Digit64(r[1] \div 4), Digit64((r[1] % 4) * 16 + r[2] \div 16),
    IF take > 1 THEN Digit64((r[2] % 16) * 4 + r[3] \div 64) ELSE Pad,
    IF take > 2 THEN Digit64(r[3] % 64) ELSE Pad>>

Four(at, i) == [k \in 1 .. 4 |-> ByteAt(at + 4 * i + k - 1)]

(* How many pads end the base64 text at `at', m bytes long; -1 if it is    *)
(* not what the decoder would write.                                       *)
LastQuad(b) ==
  IF un64(b[1]) < 0 \/ un64(b[2]) < 0 THEN -1
  ELSE IF b[4] # Pad THEN IF un64(b[3]) < 0 \/ un64(b[4]) < 0 THEN -1 ELSE 0
  ELSE IF b[3] = Pad THEN IF un64(b[2]) % 16 = 0 THEN 2 ELSE -1
  ELSE IF un64(b[3]) >= 0 /\ un64(b[3]) % 4 = 0 THEN 1 ELSE -1

base64(at, m) ==
  IF m = 0 \/ m % 4 # 0 THEN -1
  ELSE IF \E i \in 0 .. m \div 4 - 2, k \in 1 .. 4 : un64(Four(at, i)[k]) < 0 THEN -1
  ELSE LastQuad(Four(at, m \div 4 - 1))

(* A word of the picture, the highest byte first.                          *)
pic32(at, off) ==
  LET b(i) == Raw(Four(at, i \div 3))[(i % 3) + 1]
      sum[i \in 0 .. WordBytes] == IF i = 0 THEN 0 ELSE 256 * sum[i - 1] + b(off + i - 1)
  IN  sum[WordBytes]

(* The bytes of a picture and of its head, if it is one: eight words, the  *)
(* names after the second and third, the data last.                        *)
NoPicture == [is |-> FALSE, bytes |-> 0, head |-> 0]

picture(at, m) ==
  LET Data(bytes, p) ==
        IF pic32(at, p) = bytes - p - WordBytes THEN [is |-> TRUE, bytes |-> bytes, head |-> p + WordBytes]
        ELSE NoPicture
      Named(bytes, p, v) == IF v > bytes - p - 6 * WordBytes THEN NoPicture
                            ELSE Data(bytes, p + v + 5 * WordBytes)
      Typed(bytes, v) == IF v > bytes - 8 * WordBytes THEN NoPicture
                         ELSE Named(bytes, 2 * WordBytes + v, pic32(at, 2 * WordBytes + v))
      Of(pad, bytes) == IF pad < 0 \/ bytes < 8 * WordBytes THEN NoPicture
                        ELSE Typed(bytes, pic32(at, WordBytes))
      Padded(pad) == Of(pad, (m \div 4) * 3 - pad)
  IN  Padded(base64(at, m))

Capital(b) == IF Between(b, 97, 122) THEN b - 32 ELSE b

picture_key(at, split) ==
  split = Len(PictureKey) /\ \A i \in 1 .. split : Capital(ByteAt(at + i - 1)) = PictureKey[i]

(* The head of the picture has contexts; its data do not.                  *)
ImageStart(x, v) ==
  LET m == v.left
      Headed(y, bytes) == [x |-> y, t |-> [kind |-> "quads", at |-> v.at, i |-> 0, bytes |-> bytes,
                                           head |-> y.v, prev |-> 0]]
      Sized(y, bytes) == IF Going(y) /\ ~Between(y.v, 8 * WordBytes, bytes) THEN Headed(Fatal(y), bytes)
                         ELSE Headed(y, bytes)
      Padded(y) == IF Going(y) /\ (m = 0 \/ m % 4 # 0 \/ y.v > 2) THEN Headed(Fatal(y), 0)
                   ELSE Sized(number(y, "size", v.pic.head), (m \div 4) * 3 - y.v)
  IN  Padded(symbol(x, "pad", 2, (m \div 4) * 3 - v.pic.bytes))

QuadStepped(x, q) ==
  LET take == IF q.bytes - q.i < 3 THEN q.bytes - q.i ELSE 3
      raw == IF x.mode = "code" THEN Raw(Four(q.at, q.i \div 3)) ELSE <<0, 0, 0>>
      Ctx(j, prev) == IF q.i + j - 1 < q.head THEN <<"picture", prev \div 16>> ELSE "plain"
      Byte(z, y) == [x |-> y, raw |-> Append(z.raw, y.v), prev |-> y.v]
      All(z) == [x |-> emit(z.x, Quad(z.raw \o <<0, 0>>, take)),
                 t |-> [q EXCEPT !.i = @ + 3, !.prev = z.prev]]
  IN  All(FoldLeft(LAMBDA z, j : Byte(z, symbol(z.x, Ctx(j, z.prev), 8, raw[j])),
                   [x |-> x, raw |-> <<>>, prev |-> q.prev], [j \in 1 .. take |-> j]))

-----------------------------------------------------------------------------
(* The packet.                                                             *)

cmt_init(mode, wire) ==
  LET d == Len(Dictionary)
  IN  [mode |-> mode, wire |-> wire, out |-> <<>>, v |-> 0, at |-> 0, pos |-> d,
       win |-> [i \in 0 .. C_WINDOW - 1 |-> IF i < d THEN Dictionary[i + 1] ELSE 0],
       hash |-> IF mode = "decode" THEN <<>>
                ELSE [h \in C_HASH |->
                        LET at == {j \in 0 .. d - MinMatch :
                                     HashOf(SubSeq(Dictionary, j + 1, j + MinMatch)) = h}
                        IN  IF at = {} THEN 0 ELSE 1 + CHOOSE j \in at : \A k \in at : k <= j]]

Job(kind) == [kind |-> kind]

(* What is left to do after the job in hand has become `rest'.             *)
Became(y, rest) == cmt' = y /\ jobs' = rest \o Tail(jobs) /\ UNCHANGED packet

Doing(kind) == Going(cmt) /\ jobs # <<>> /\ Head(jobs).kind = kind

Form ==
  /\ Doing("form")
  /\ \E y \in {symbol(cmt, "form", 1, IF cmt.mode = "code" /\ structured THEN 1 ELSE 0)} :
       Became(y, IF y.v = 0 THEN <<Text(0, n, "opaque")>> ELSE <<Job("vendor")>>)

Vendor ==
  /\ Doing("vendor")
  /\ \E y \in {field([emit(cmt, packet.magic) EXCEPT !.at = Len(packet.magic)], "size")} :
       IF Going(y) /\ y.v > n - y.at - WordBytes THEN Became(Fatal(y), <<>>)
       ELSE Became([y EXCEPT !.at = @ + y.v], <<Text(y.at, y.v, "vendor"), Job("count")>>)

Count ==
  /\ Doing("count")
  /\ \E y \in {field(cmt, "count")} :
       IF Going(y) /\ y.v > (n - y.at) \div WordBytes THEN Became(Fatal(y), <<>>)
       ELSE Became(y, [i \in 1 .. y.v |-> Job("field")] \o <<Job("tail")>>)

(* The key goes up to the first "=" among the first 255 bytes of a field.  *)
KeyOf(at, len) ==
  LET ends == {j \in 1 .. (IF len < 255 THEN len ELSE 255) : ByteAt(at + j - 1) = Pad}
  IN  IF ends = {} THEN 0 ELSE CHOOSE j \in ends : \A k \in ends : j <= k

Value(at, left, pic) == [kind |-> "value", at |-> at, left |-> left, pic |-> pic]

Field ==
  LET Split(x, len, split) == symbol(x, "split", 8, split)
      PictureOf(x, len, split) ==
        IF x.mode = "code" /\ picture_key(x.at, split) THEN picture(x.at + split, len - split) ELSE NoPicture
  IN  /\ Doing("field")
      /\ \E x \in {field(cmt, "size")} :
           IF ~Going(x) \/ x.v > n - x.at THEN Became(IF Going(x) THEN Fatal(x) ELSE x, <<>>)
           ELSE \E split \in {IF x.mode = "code" THEN KeyOf(x.at, x.v) ELSE 0} :
                \E y \in {Split(x, x.v, split)} :
                  IF Going(y) /\ y.v > x.v THEN Became(Fatal(y), <<>>)
                  ELSE Became([y EXCEPT !.at = @ + x.v],
                              <<Text(x.at, y.v, "key"),
                                Value(x.at + y.v, x.v - y.v, PictureOf(x, x.v, split))>>)

FieldValue ==
  LET v == Head(jobs)
  IN  /\ Doing("value")
      /\ \E y \in {symbol(cmt, "form", 1, IF v.pic.is THEN 1 ELSE 0)} :
           IF y.v = 1 THEN \E z \in {ImageStart(y, v)} : Became(z.x, <<z.t>>)
           ELSE Became(y, <<Text(v.at, v.left, "value")>>)

EndOfFields == Doing("tail") /\ Became(cmt, <<Text(cmt.at, n - cmt.at, "tail")>>)

(* text: a block is read, coded step by step, and emitted.                 *)
TextRead ==
  LET t == Head(jobs)
  IN  /\ Doing("text")
      /\ IF t.left = 0 THEN Became(cmt, <<>>)
         ELSE /\ cmt.mode = "code" /\ t.buf = <<>>
              /\ Became(cmt, <<[t EXCEPT !.buf = SubSeq(packet.bytes, t.at + 1, t.at + Take(t))]>>)

TextStep ==
  LET t == Head(jobs)
  IN  /\ Doing("text") /\ t.left > 0 /\ t.i < Take(t)
      /\ cmt.mode = "code" => t.buf # <<>>
      /\ \E z \in {TextStepped(cmt, t)} :
           Became(z.x, <<z.t>>)

TextEnd ==
  LET t == Head(jobs)
  IN  /\ Doing("text") /\ t.left > 0 /\ t.i = Take(t)
      /\ Became(emit(cmt, t.buf), <<[t EXCEPT !.at = @ + Take(t), !.left = @ - Take(t), !.i = 0, !.buf = <<>>]>>)

ImageQuad ==
  LET q == Head(jobs)
  IN  /\ Doing("quads")
      /\ IF q.i >= q.bytes THEN Became(cmt, <<>>)
         ELSE \E z \in {QuadStepped(cmt, q)} : Became(z.x, <<z.t>>)

Init ==
  /\ packet \in CommentPackets
  /\ cmt = cmt_init("code", <<>>)
  /\ jobs = <<Job("form")>>

(* The packet is coded, and what was coded is decoded.                     *)
Decode ==
  /\ cmt.mode = "code" /\ jobs = <<>>
  /\ cmt' = cmt_init("decode", cmt.wire) /\ jobs' = <<Job("form")>>
  /\ UNCHANGED packet

Next ==
  \/ Form \/ Vendor \/ Count \/ Field \/ FieldValue \/ EndOfFields
  \/ TextRead \/ TextStep \/ TextEnd \/ ImageQuad \/ Decode

Spec == Init /\ [][Next]_cmtVars

-----------------------------------------------------------------------------
(* The decoder gets the packet back byte by byte, whatever is in it and    *)
(* however it is laid out: with matches as far back as the window goes and *)
(* into themselves, blocks that end within a word, lengths that do not fit *)
(* and pictures that are not written as the decoder would write them       *)
(* (text, structured, base64, cmt_code).                                   *)
CommentsComeBack ==
  /\ cmt.mode \notin {"lost", "fatal"}
  /\ cmt.mode = "decode" => IsPrefix(cmt.out, packet.bytes)
  /\ cmt.mode = "decode" /\ jobs = <<>> => cmt.out = packet.bytes /\ cmt.wire = <<>>
=============================================================================
