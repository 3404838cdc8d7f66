---------------------------- MODULE OpusPackets ----------------------------
(***************************************************************************)
(* The framing of Opus packets: opus_packet_parse of src/opus/opus_dec.c,  *)
(* and how opus_pack and opus_unpack of src/opusmode.c use it.  The packer *)
(* codes a packet's header, its length, its padding and its frames; the    *)
(* unpacker parses a packet of which it has the header and the length only *)
(* to learn where the frames and the padding go.                           *)
(*                                                                         *)
(* A packet has a table of contents, which is a byte as it is, and cells   *)
(* that have `Word' values, 256 in the code.                               *)
(***************************************************************************)
EXTENDS Integers, SequencesExt

CONSTANTS
  Word,      \* the values of a byte
  MaxFrame,  \* the most cells of a frame, 1275
  MaxLength, \* OPUS_MAXPKT
  MaxTime,   \* the most samples of a packet, 5760
  Packets    \* the packets that are packed

(* What is taken for granted: bytes have room for the flags and the count  *)
(* of Several; with its table of contents no packet is longer than the     *)
(* parser of pages, opus_pack_link, lets through.                          *)
PacketAssumption ==
  /\ Word \in Nat /\ Word >= 8 /\ MaxFrame \in Nat /\ MaxTime \in Nat /\ MaxLength \in Nat
  /\ \A p \in Packets : /\ p \in [toc : 0 .. 255, cells : Seq(0 .. Word - 1)]
                        /\ Len(p.cells) < MaxLength

VARIABLES
  whole,   \* the packet
  archive, \* what the packer coded of it
  built,   \* the packet the unpacker made
  turn     \* "pack", "unpack", or how it ended

packetVars == <<whole, archive, built, turn>>

SumOf(sizes) ==
  LET sum[i \in 0 .. Len(sizes)] == IF i = 0 THEN 0 ELSE sum[i - 1] + sizes[i] IN sum[Len(sizes)]

Bits(b, from, n) == (b \div 2 ^ from) % 2 ^ n

(* The samples of a frame, at 48 kHz.                                      *)
opus_packet_get_samples_per_frame(toc) ==
  CASE Bits(toc, 7, 1) = 1 -> 120 * 2 ^ Bits(toc, 3, 2)
    [] Bits(toc, 5, 3) = 3 -> IF Bits(toc, 3, 1) = 1 THEN 960 ELSE 480
    [] OTHER               -> IF Bits(toc, 3, 2) = 3 THEN 2880 ELSE 480 * 2 ^ Bits(toc, 3, 2)

opus_packet_get_mode(toc) ==
  CASE Bits(toc, 7, 1) = 1 -> "celt"
    [] Bits(toc, 5, 3) = 3 -> "hybrid"
    [] OTHER               -> "silk"

opus_packet_get_nb_channels(toc) == 1 + Bits(toc, 2, 1)

(* Bandwidths are 0 for narrow to 4 for full; there is no CELT of medium.  *)
opus_packet_get_bandwidth(toc) ==
  CASE Bits(toc, 7, 1) = 1 -> IF Bits(toc, 5, 2) = 0 THEN 0 ELSE 1 + Bits(toc, 5, 2)
    [] Bits(toc, 5, 3) = 3 -> IF Bits(toc, 4, 1) = 1 THEN 4 ELSE 3
    [] OTHER               -> Bits(toc, 5, 2)

-----------------------------------------------------------------------------
(* Parsing.  A parse is what is read so far: `at' of the cells, `len' left *)
(* for frames, their sizes, and whether it still is good.                  *)

Invalid == [ok |-> FALSE]

(* The size at a place, -1 if the cells end before it does, and its cells. *)
parse_size(cells, at, len) ==
  IF len < 1 \/ (cells[at + 1] >= Word - 4 /\ len < 2) THEN [size |-> -1, n |-> -1]
  ELSE IF cells[at + 1] < Word - 4 THEN [size |-> cells[at + 1], n |-> 1]
  ELSE [size |-> 4 * cells[at + 2] + cells[at + 1], n |-> 2]

Parse(cells) == [ok |-> TRUE, at |-> 0, len |-> Len(cells), sizes |-> <<>>]

(* The size of a frame that is not the last.  `last', what the last frame  *)
(* is left with, is `len' without the sizes.                               *)
SizeParsed(x, cells) ==
  LET s == parse_size(cells, x.at, x.len)
  IN  IF ~x.ok THEN x
      ELSE IF s.size < 0 \/ s.size > x.len - s.n THEN Invalid
      ELSE [x EXCEPT !.at = @ + s.n, !.len = @ - s.n, !.sizes = Append(@, s.size)]

(* Padding is counted in cells: full ones that stand for one less each and *)
(* another to come, and one that is not full.  All of it has to be there.  *)
PaddingParsed(x, cells) ==
  LET ends == {n \in 0 .. x.len - 1 : /\ x.len > n * (Word - 1) /\ cells[x.at + n + 1] # Word - 1
                                      /\ \A i \in 1 .. n : cells[x.at + i] = Word - 1}
      After(n) == [x EXCEPT !.at = @ + n + 1, !.len = @ - n * (Word - 1) - 1 - cells[x.at + n + 1]]
  IN  IF ends = {} THEN Invalid ELSE After(CHOOSE n \in ends : TRUE)

(* The last frame has what is left, or all have as much.                   *)
Rest(x) ==
  LET last == x.len - SumOf(x.sizes)
  IN  IF ~x.ok THEN x
      ELSE IF last < 0 \/ last > MaxFrame THEN Invalid ELSE [x EXCEPT !.sizes = Append(@, last)]

Equal(x, n) ==
  IF x.len % n # 0 \/ x.len \div n > MaxFrame THEN Invalid
  ELSE [x EXCEPT !.sizes = [i \in 1 .. n |-> x.len \div n]]

Different(x, cells, n) ==
  LET y[i \in 0 .. n - 1] == IF i = 0 THEN x ELSE SizeParsed(y[i - 1], cells) IN Rest(y[n - 1])

(* A cell of the number of frames, and of whether there is padding and     *)
(* whether their sizes are different.                                      *)
Several(toc, cells) ==
  LET ch == cells[1]
      count == ch % (Word \div 4)
      one == [Parse(cells) EXCEPT !.at = 1, !.len = @ - 1]
      x == IF (ch \div (Word \div 4)) % 2 = 1 THEN PaddingParsed(one, cells) ELSE one
  IN  IF count = 0 \/ opus_packet_get_samples_per_frame(toc) * count > MaxTime THEN Invalid
      ELSE IF ~x.ok \/ x.len < 0 THEN Invalid
      ELSE IF ch >= Word \div 2 THEN Different(x, cells, count) ELSE Equal(x, count)

opus_packet_parse(p) ==
  CASE p.toc % 4 = 0 -> Rest(Parse(p.cells))
    [] p.toc % 4 = 1 -> Equal(Parse(p.cells), 2)
    [] p.toc % 4 = 2 -> Different(Parse(p.cells), p.cells, 2)
    [] OTHER         -> IF p.cells = <<>> THEN Invalid ELSE Several(p.toc, p.cells)

-----------------------------------------------------------------------------
(* The frames, each with what the frame decoder is told of it.             *)

Told(toc) ==
  [mode |-> opus_packet_get_mode(toc), bandwidth |-> opus_packet_get_bandwidth(toc),
   samples |-> opus_packet_get_samples_per_frame(toc), channels |-> opus_packet_get_nb_channels(toc)]

(* Where a frame of a parse begins, and where the padding does.            *)
Start(x, i) == x.at + SumOf(SubSeq(x.sizes, 1, i - 1))

Cut(cells, from, n) == SubSeq(cells, from + 1, from + n)

FramesOf(p, x) ==
  [i \in DOMAIN x.sizes |-> [as |-> Told(p.toc), cells |-> Cut(p.cells, Start(x, i), x.sizes[i])]]

Trailer(p, x) ==
  LET from == Start(x, Len(x.sizes) + 1) IN Cut(p.cells, from, Len(p.cells) - from)

TrailerUnread(p, x) == <<>>

oc_packet_trailer(p, x) == Trailer(p, x)

(* opus_decode refuses more frames than a packet may last.                 *)
Lasts(p, x) == Len(x.sizes) * opus_packet_get_samples_per_frame(p.toc) <= MaxTime

Laid(cells, from, new) ==
  [i \in DOMAIN cells |-> IF i \in from + 1 .. from + Len(new) THEN new[i - from] ELSE cells[i]]

(* The frames laid where a parse says they are.                            *)
FramesLaid(cells, x, frames) ==
  LET c[i \in 0 .. Len(x.sizes)] ==
        IF i = 0 THEN cells ELSE Laid(c[i - 1], Start(x, i), frames[i].cells)
  IN  c[Len(x.sizes)]

-----------------------------------------------------------------------------
Nothing == [toc |-> 0, cells |-> <<>>]

FramingInit == whole \in Packets /\ archive = <<>> /\ built = Nothing /\ turn = "pack"

Ends(how) == turn' = how /\ UNCHANGED <<whole, archive, built>>

opus_pack_packet ==
  /\ turn = "pack"
  /\ \E x \in {opus_packet_parse(whole)} :
       IF ~x.ok \/ ~Lasts(whole, x) THEN Ends("refused")
       ELSE /\ archive' = [head |-> [toc |-> whole.toc, cells |-> Cut(whole.cells, 0, x.at)],
                           len |-> Len(whole.cells), trailer |-> oc_packet_trailer(whole, x),
                           frames |-> FramesOf(whole, x)]
            /\ turn' = "unpack" /\ UNCHANGED <<whole, built>>

(* What is not of the header is nought.                                    *)
opus_unpack_header ==
  /\ turn = "unpack"
  /\ \E p \in {[archive.head EXCEPT !.cells = @ \o [i \in 1 .. archive.len - Len(@) |-> 0]]} :
     \E x \in {opus_packet_parse(p)} :
       IF archive.len >= MaxLength \/ ~x.ok THEN Ends("lost")
       ELSE IF x.at # Len(archive.head.cells) \/ Len(Trailer(p, x)) # Len(archive.trailer) THEN Ends("lost")
       ELSE /\ built' = [p EXCEPT !.cells = Laid(@, Start(x, Len(x.sizes) + 1), archive.trailer)]
            /\ turn' = "frames" /\ UNCHANGED <<whole, archive>>

(* opus_decode parses the packet again.                                    *)
opus_unpack_frames ==
  /\ turn = "frames"
  /\ \E x \in {opus_packet_parse(built)} :
       IF ~x.ok THEN Ends("lost")
       ELSE IF \/ Len(x.sizes) # Len(archive.frames) \/ ~Lasts(built, x)
               \/ \E i \in DOMAIN x.sizes : \/ x.sizes[i] # Len(archive.frames[i].cells)
                                            \/ Told(built.toc) # archive.frames[i].as
       THEN Ends("lost")
       ELSE /\ built' = [built EXCEPT !.cells = FramesLaid(@, x, archive.frames)]
            /\ turn' = "done" /\ UNCHANGED <<whole, archive>>

FramingNext == opus_pack_packet \/ opus_unpack_header \/ opus_unpack_frames

FramingSpec == FramingInit /\ [][FramingNext]_packetVars

-----------------------------------------------------------------------------
(* The header and the length of a packet say where its frames and its      *)
(* padding are, and the three are all of it: the packet that is built from *)
(* them is the packet (opus_packet_parse, oc_packet_trailer).              *)
FramingComesBack == turn # "lost" /\ (turn = "done" => built = whole)
=============================================================================
