----------------------------- MODULE OpusFrames -----------------------------
(***************************************************************************)
(* How the frames of Opus packets are coded and rebuilt: src/opus/*.c and  *)
(* om_frame of src/opusmode.c.  The parser of a frame asks an entropy      *)
(* context for one value after the other.  The packer (ANALYZE) takes them *)
(* from the frame, codes them, and writes them to a mirror of the frame;   *)
(* the unpacker (SYNTH) takes them from the archive and writes them to the *)
(* packet.  What the original has that its mirror has not is coded when    *)
(* the context is closed.                                                  *)
(*                                                                         *)
(* A frame is a sequence of cells.  A value takes one cell, from the front *)
(* if it is range coded and from the back if it is raw bits, and lengths   *)
(* and ec_tell count cells.  A value is 0 at the sites that are not in     *)
(* `rich', where the control does not depend on it.  The control stack of  *)
(* the parser is `todo', what is left to be done, first things first.      *)
(***************************************************************************)
EXTENDS Integers, SequencesExt

CONSTANTS
  Streams,   \* what is packed: the packets, and the sites where values vary
  Places,    \* where a build may put the contexts of the calls of celt_decode
  Reserve,   \* the room a site wants, as the code's numbers of bits
  Order,     \* the line spectral frequencies of a SILK frame
  Subframes, \* its subframes
  Blocks,    \* its shell blocks
  Shell,     \* the samples of a block, a power of two
  MaxShift,  \* the most low bits of a sample, 10
  Bands,     \* the bands of a CELT frame; a hybrid frame codes the last
  Width,     \* the samples of a band
  MaxBoost,  \* the cap of a band
  Past       \* FH_N, the frames a patch is predicted from

VARIABLES
  stream,  \* the packets, the sites where values vary, and gap_cls = GAP_LAVC
  place,   \* the places of this build
  side,    \* orec_mode, "analyze" or "synth"
  pk, fr,  \* the packet, and the frame of it
  st,      \* OpusDecoder
  f,       \* the locals of opus_decode_frame
  got,     \* the values read for a frame
  ec,      \* the entropy contexts, by place
  todo,    \* what the parser has left to do
  oc,      \* the table of live contexts
  orig,    \* the packets
  built,   \* the packets the unpacker has made
  code,    \* the archive, coded values and patches
  fh,      \* the last frames, and fh_lo and fh_span
  gone,    \* whether a context was closed after its frame was gone
  phase    \* "walk", or how it ended

frVars == <<stream, place, side, pk, fr, st, f, got, ec, todo, oc, orig, built, code,
            fh, gone, phase>>

-----------------------------------------------------------------------------
(* Reading.                                                                *)

Min2(a, b) == IF a < b THEN a ELSE b

(* Values are kept by site and two numbers that say which one.             *)
Read(site, n, i, of)  == [do |-> "read", site |-> site, n |-> n, i |-> i, of |-> of, raw |-> FALSE]
Bits(site, n, i)      == [Read(site, n, i, 2) EXCEPT !.raw = TRUE]
Do(what)              == [do |-> what, n |-> 0, i |-> 0, k |-> 0]
DoWith(what, n, i, k) == [do |-> what, n |-> n, i |-> i, k |-> k]

Each(lo, hi, Item(_)) == FlattenSeq([j \in 1 .. hi - lo + 1 |-> Item(lo + j - 1)])

If(cond, list) == IF cond THEN list ELSE <<>>

(* The machine while no value is asked for: see Settle.                    *)
Got(m, site, n, i) == m.got[<<site, n, i>>]

ec_tell(m) == m.ec[m.f.cur].tell

Room(m, site) == ec_tell(m) + Reserve[site] <= m.f.len

(* Replaces what is to be done first.                                      *)
Then(m, list) == [m EXCEPT !.todo = list \o @]

-----------------------------------------------------------------------------
(* SILK.                                                                   *)

Channels(m) == 1 .. m.f.ch

NFrames(m) == m.f.nf

(* LBRR_flags of a channel.                                                *)
LBRR(m, n, i) ==
  /\ Got(m, "LBRR_FLAG", n, 0) = 1
  /\ NFrames(m) > 1 => ((Got(m, "LBRR_SYM", n, 0) + 1) \div 2 ^ i) % 2 = 1

silk_flags(m) ==
  Each(1, m.f.ch, LAMBDA n : Each(0, NFrames(m) - 1, LAMBDA i : <<Read("VAD", n, i, 2)>>)
                             \o <<Read("LBRR_FLAG", n, 0, 2)>>)
  \o <<Do("LBRR_symbols"), Do("LBRR_skip")>>

LBRR_symbols(m) ==
  Each(1, m.f.ch, LAMBDA n : If(Got(m, "LBRR_FLAG", n, 0) = 1 /\ NFrames(m) > 1,
                                <<Read("LBRR_SYM", n, 0, 3)>>))

silk_stereo_decode_pred ==
  <<Read("STEREO_PRED", 0, 0, 1)>>
  \o Each(1, 2, LAMBDA n : <<Read("STEREO_IX0", n, 0, 1), Read("STEREO_IX1", n, 0, 1)>>)

mid_only == <<Read("MID_ONLY", 0, 0, 2)>>

LBRR_skip(m) ==
  Each(0, NFrames(m) - 1, LAMBDA i : Each(1, m.f.ch, LAMBDA n :
    If(LBRR(m, n, i),
       If(m.f.ch = 2 /\ n = 1, silk_stereo_decode_pred \o If(~LBRR(m, 2, i), mid_only))
       \o <<DoWith("indices", n, i, IF i > 0 /\ LBRR(m, n, i - 1) THEN 3 ELSE 1),
            DoWith("pulses", n, i, 0)>>)))

(* The conditional codings: 0 and 1 independent, 2 without LTP scaling, 3  *)
(* conditional; 1 and 3 are also those of LBRR data.                       *)
Independent(k) == k < 2
Conditional(k) == k > 2

silk_Decode(m, t) ==
  If(t = 0, silk_flags(m)) \o <<DoWith("mid_side", 0, t, 0), DoWith("frames", 0, t, 0)>>

mid_side(m, t) ==
  If(m.f.ch = 2, silk_stereo_decode_pred \o If(Got(m, "VAD", 2, t) = 0, mid_only))

MiddleOnly(m, t) == m.f.ch = 2 /\ Got(m, "VAD", 2, t) = 0 /\ Got(m, "MID_ONLY", 0, 0) = 1

condCoding(m, n, t) ==
  IF t = 0 THEN 0 ELSE IF n = 2 /\ m.st.onlyMiddle THEN 2 ELSE 4

silk_frames(m, t) ==
  [Then(m, Each(1, m.f.ch, LAMBDA n :
             If(n = 1 \/ ~MiddleOnly(m, t),
                <<DoWith("indices", n, t, condCoding(m, n, t)), DoWith("pulses", n, t, 0)>>)))
   EXCEPT !.st.onlyMiddle = MiddleOnly(m, t)]

Voiced(m, n) == Got(m, "TYPE", n, 0) = 1

silk_decode_indices(m, n, i, k) ==
  <<IF k \in {1, 3} \/ Got(m, "VAD", n, i) = 1 THEN Read("TYPE", n, 0, 2) ELSE Read("TYPE", n, 0, 1)>>
  \o (IF Conditional(k) THEN <<Read("GAIN_DELTA", n, 0, 1)>>
      ELSE <<Read("GAIN_MSB", n, 0, 1), Read("GAIN_LSB", n, 0, 1)>>)
  \o Each(2, Subframes, LAMBDA j : <<Read("GAIN_DELTA", n, j, 1)>>)
  \o <<Read("NLSF_CB1", n, 0, 1)>>
  \o Each(1, Order, LAMBDA j : <<Read("NLSF_RES", n, j, 3), DoWith("nlsf_ext", n, j, 0)>>)
  \o If(m.f.full, <<Read("NLSF_INTERP", n, 0, 1)>>)
  \o <<DoWith("pitch", n, 0, k), DoWith("signal", n, 0, 0), Read("SEED", n, 0, 1)>>

nlsf_ext(m, n, j) == If(Got(m, "NLSF_RES", n, j) # 1, <<Read("NLSF_EXT", n, j, 1)>>)

pitch(m, n, k) ==
  If(Voiced(m, n),
     If(Conditional(k) /\ m.st.voiced[n], <<Read("LAG_DELTA", n, 0, 2)>>)
     \o <<DoWith("lag", n, 0, k), Read("CONTOUR", n, 0, 1), Read("PER_INDEX", n, 0, 1)>>
     \o Each(1, Subframes, LAMBDA j : <<Read("LTP_GAIN", n, j, 1)>>)
     \o If(Independent(k), <<Read("LTP_SCALE", n, 0, 1)>>))

lag(m, n, k) ==
  If(~(Conditional(k) /\ m.st.voiced[n]) \/ Got(m, "LAG_DELTA", n, 0) = 0,
     <<Read("LAG_ABS", n, 0, 1), Read("LAG_LOW", n, 0, 1)>>)

(* A block has no pulses, some, or 2, an escape to low bits.               *)
silk_decode_pulses(n) ==
  <<Read("RATE_LEVEL", n, 0, 1)>>
  \o Each(1, Blocks, LAMBDA b : <<Read("PULSES", b, 0, 3), DoWith("more", b, 0, 0)>>)
  \o Each(1, Blocks, LAMBDA b : <<DoWith("shell", b, 1, Shell)>>)
  \o <<Do("low_bits"), Do("signs")>>

Shifts(m, b) ==
  CHOOSE s \in 0 .. MaxShift :
    /\ \A j \in 0 .. s - 1 : Got(m, "PULSES", b, j) = 2
    /\ Got(m, "PULSES", b, s) # 2

Pulses(m, b) == Got(m, "PULSES", b, Shifts(m, b))

more_pulses(m, b, j) ==
  If(Got(m, "PULSES", b, j) = 2,
     <<Read("PULSES", b, j + 1, IF j + 1 = MaxShift THEN 2 ELSE 3), DoWith("more", b, j + 1, 0)>>)

(* The samples of a block are numbered as a tree, 1 its root; the first    *)
(* child of a node takes Got of its pulses, the second the rest.           *)
Node(b, i) == 8 * b + i

RECURSIVE Amount(_, _, _)
Amount(m, b, i) ==
  IF i = 1 THEN Pulses(m, b)
  ELSE LET p == Amount(m, b, i \div 2)
           first == IF p = 0 THEN 0 ELSE Got(m, "SHELL", Node(b, i \div 2), 0)
       IN  IF i % 2 = 0 THEN first ELSE p - first

decode_split(m, b, i, width) ==
  If(width > 1,
     If(Amount(m, b, i) > 0, <<Read("SHELL", Node(b, i), 0, Amount(m, b, i) + 1)>>)
     \o <<DoWith("shell", b, 2 * i, width \div 2), DoWith("shell", b, 2 * i + 1, width \div 2)>>)

low_bits(m) ==
  Each(1, Blocks, LAMBDA b : Each(Shell, 2 * Shell - 1, LAMBDA i :
    Each(1, Shifts(m, b), LAMBDA j : <<Read("LSB", Node(b, i), j, 2)>>)))

silk_decode_signs(m) ==
  Each(1, Blocks, LAMBDA b : Each(Shell, 2 * Shell - 1, LAMBDA i :
    If(Amount(m, b, i) > 0 \/ \E j \in 1 .. Shifts(m, b) : Got(m, "LSB", Node(b, i), j) = 1,
       <<Read("SIGN", Node(b, i), 0, 1)>>)))

-----------------------------------------------------------------------------
(* CELT.  f.c holds the parameters and the locals of celt_decode_with_ec.  *)

Start(m) == m.f.c.start

(* The context is opened when there is none, dec = NULL.                   *)
celt_decode_with_ec(at, base, len, start, lm, local) ==
  If(len > 1,
     If(at # "dec", <<[do |-> "open", at |-> at, base |-> base, n |-> len, local |-> local]>>)
     \o <<[do |-> "celt", at |-> at, len |-> len, start |-> start, lm |-> lm]>>)

celt_begin(m, x) ==
  LET y == [m EXCEPT !.f.cur = place[x.at], !.f.len = x.len, !.got = <<>>,
                     !.f.c = [start |-> x.start, lm |-> x.lm, boosts |-> 0, coded |-> Bands]]
  IN  Then(y, If(ec_tell(y) = 1 /\ x.len > 1, <<Read("SILENCE", 0, 0, 2)>>)
              \o <<DoWith("silence", ec_tell(y), 0, 0)>>)

(* A silent frame has read all its bits.                                   *)
celt_silence(m, tell) ==
  LET y == IF tell >= m.f.len \/ (tell = 1 /\ Got(m, "SILENCE", 0, 0) = 1)
           THEN [m EXCEPT !.ec[m.f.cur].tell = m.f.len] ELSE m
  IN  Then(y, If(Start(y) = 1 /\ Room(y, "PF_FLAG"), <<Read("PF_FLAG", 0, 0, 2), Do("postfilter")>>)
              \o <<Do("transient")>>)

postfilter(m) ==
  If(Got(m, "PF_FLAG", 0, 0) = 1,
     <<Read("PF_OCTAVE", 0, 0, 1), Bits("PF_PITCH", 0, 0), Bits("PF_GAIN", 0, 0), Do("tapset")>>)

Flag(m, site) == <<site, 0, 0>> \in DOMAIN m.got /\ Got(m, site, 0, 0) = 1

celt_flags(m) ==
  If(m.f.c.lm > 0 /\ Room(m, "TRANSIENT"), <<Read("TRANSIENT", 0, 0, 2)>>)
  \o <<Do("intra")>>
  \o Each(Start(m), Bands, LAMBDA i : Each(1, m.f.ch, LAMBDA c : <<DoWith("coarse", i, c, 0)>>))
  \o <<Do("tf"), Do("spread")>>
  \o Each(Start(m), Bands, LAMBDA i : <<DoWith("dynalloc", i, 0, 0)>>)
  \o <<Do("trim"), DoWith("skip", Bands, 0, 0)>>

unquant_coarse_energy(m, i, c) ==
  IF Room(m, "COARSE") THEN <<Read("COARSE", i, c, 1)>>
  ELSE IF Room(m, "COARSE_SMALL") THEN <<Read("COARSE_SMALL", i, c, 1)>>
  ELSE If(Room(m, "COARSE_BIT"), <<Read("COARSE_BIT", i, c, 1)>>)

tf_decode(m) ==
  Each(Start(m), Bands, LAMBDA i : <<DoWith("tf_band", i, 0, 0)>>)
  \o If(m.f.c.lm > 0 /\ Room(m, "TF_SELECT"), <<Do("tf_select")>>)

TfChanged(m) == \E i \in Start(m) .. Bands : <<"TF", i, 0>> \in DOMAIN m.got /\ Got(m, "TF", i, 0) = 1

tf_select(m) ==
  If(TfChanged(m) \/ (m.f.c.lm > 1 /\ Flag(m, "TRANSIENT")), <<Read("TF_SELECT", 0, 0, 1)>>)

(* Each boost of a band leaves a bit less for the rest.                    *)
dynalloc(m, i, boost) ==
  IF boost > 0 /\ Got(m, "DYNALLOC", i, boost) = 0 THEN m
  ELSE LET y == IF boost > 0 THEN [m EXCEPT !.f.c.boosts = @ + 1] ELSE m
       IN  Then(y, If(boost < MaxBoost
                      /\ ec_tell(y) + Reserve["DYNALLOC"] < y.f.len - y.f.c.boosts,
                      <<Read("DYNALLOC", i, boost + 1, 2), DoWith("dynalloc", i, boost + 1, 0)>>))

Boosted(m, i) == <<"DYNALLOC", i, 1>> \in DOMAIN m.got /\ Got(m, "DYNALLOC", i, 1) = 1

(* The bands that are coded, from the last backwards: never the first nor  *)
(* one that is boosted is skipped.                                         *)
interp_bits2pulses(m, coded, asked) ==
  IF \/ asked = 1 /\ Got(m, "SKIP", coded, 0) = 1
     \/ coded = Start(m)
     \/ \E i \in coded .. Bands : Boosted(m, i)
  THEN [Then(m, <<Do("intensity")>>) EXCEPT !.f.c.coded = coded]
  ELSE IF asked = 1 \/ ~Room(m, "SKIP") THEN Then(m, <<DoWith("skip", coded - 1, 0, 0)>>)
  ELSE Then(m, <<Read("SKIP", coded, 0, 2), DoWith("skip", coded, 1, 0)>>)

intensity(m) ==
  If(m.f.ch = 2 /\ Room(m, "INTENSITY"), <<Read("INTENSITY", 0, 0, m.f.c.coded - Start(m) + 2), Do("dual")>>)
  \o Each(Start(m), m.f.c.coded, LAMBDA i : <<DoWith("fine", i, 0, 0)>>)
  \o Each(Start(m), m.f.c.coded, LAMBDA i : <<DoWith("band", i, 0, 0)>>)
  \o <<Do("anticollapse")>>
  \o Each(Start(m), Bands, LAMBDA i : <<DoWith("finalise", i, 0, 0)>>)
  \o <<Do("celt_end")>>

EachChannel(m, site, i) == Each(1, m.f.ch, LAMBDA c : <<Bits(site, i, c)>>)

(* Whether a band is below the one from which on there is but an intensity *)
(* for both channels.                                                      *)
Below(m, i) == <<"INTENSITY", 0, 0>> \in DOMAIN m.got /\ Got(m, "INTENSITY", 0, 0) + Start(m) > i

(* A band of two channels has an angle, or at most a flag that inverts one *)
(* of them; one channel's may be split by an angle.                        *)
quant_band_stereo(m, i) ==
  IF Width = 1 THEN Each(1, m.f.ch, LAMBDA c : <<DoWith("partition", i, c, 1)>>)
  ELSE (IF Below(m, i) /\ Room(m, "THETA") THEN <<Read("THETA", i, 0, 2)>>
        ELSE If(Room(m, "INV"), <<Read("INV", i, 0, 1)>>))
       \o <<DoWith("side", i, 0, 0)>>

Angle(m, i) == IF <<"THETA", i, 0>> \in DOMAIN m.got THEN Got(m, "THETA", i, 0) ELSE 0

quant_side(m, i) ==
  IF Width = 2
  THEN If(Angle(m, i) # 0, <<Bits("SIDE_SIGN", i, 0)>>)
       \o <<DoWith("partition", i, 1, Width)>>
  ELSE <<DoWith("partition", i, 1, Width), DoWith("partition", i, 2, Width)>>

quant_partition(m, i, node, width) ==
  IF width = 1 THEN If(Room(m, "SIGN1"), <<Bits("SIGN1", i, node)>>)
  ELSE IF width > 2 /\ Room(m, "SPLIT")
  THEN <<Read("THETA", i, node, 1), DoWith("partition", i, 2 * node, width \div 2),
         DoWith("partition", i, 2 * node + 1, width \div 2)>>
  ELSE If(Room(m, "PVQ"), <<Read("PVQ", i, node, 2)>>)

Dual(m, i) == Flag(m, "DUAL") /\ Below(m, i)

quant_band(m, i) ==
  IF m.f.ch = 1 THEN <<DoWith("partition", i, 1, Width)>>
  ELSE IF Dual(m, i) THEN <<DoWith("partition", i, 1, Width), DoWith("partition", i, 8, Width)>>
  ELSE quant_band_stereo(m, i)

-----------------------------------------------------------------------------
(* opus_decode_frame.                                                      *)

Concealed(m) ==
  IF m.st.prevMode = "none" THEN m
  ELSE [m EXCEPT !.st.prevMode = IF m.st.prevRed THEN "celt" ELSE @, !.st.prevRed = FALSE]

StoreNothing(m) == <<>>

StoreByte(m) == If(m.f.len = 1, <<[do |-> "store", base |-> m.f.base]>>)

opus_decode_frame(m) ==
  IF m.f.len <= 1 THEN Then(Concealed(m), StoreByte(m))
  ELSE LET fresh == m.f.mode # "celt" /\ m.st.prevMode = "celt"
           wider == m.f.mode # "celt" /\ m.f.ch > m.st.chans
           y == [m EXCEPT !.st.onlyMiddle = @ /\ ~fresh,
                          !.st.voiced = [n \in 1 .. 2 |-> @[n] /\ ~fresh /\ ~(n = 2 /\ wider)],
                          !.st.chans = IF m.f.mode = "celt" THEN @ ELSE m.f.ch]
       IN  Then(y, <<[do |-> "open", at |-> "dec", base |-> m.f.base, n |-> m.f.len, local |-> FALSE]>>
                   \o If(m.f.mode # "celt",
                         Each(0, m.f.nf - 1, LAMBDA t : <<DoWith("silk", 0, t, 0)>>)
                         \o <<Do("redundancy")>>)
                   \o <<Do("celts"), Do("modes")>>)

redundancy(m) ==
  CASE m.f.mode = "hybrid" /\ Room(m, "HYBRID_RED") ->
         <<Read("REDUNDANCY", 0, 0, 2), DoWith("red_bytes", 0, 0, 0)>>
    [] m.f.mode = "silk" /\ Room(m, "SILK_RED") ->
         <<Read("CELT_TO_SILK", 0, 0, 2), DoWith("shrink", 0, 0, 0)>>
    [] OTHER -> <<>>

red_bytes(m) ==
  If(Flag(m, "REDUNDANCY"), <<Read("CELT_TO_SILK", 0, 0, 2), Read("RED_BYTES", 0, 0, 2), Do("shrink")>>)

(* The redundant frame ends the frame, and its cells leave the context.    *)
shrink(m) ==
  LET red == IF m.f.mode = "hybrid" THEN Got(m, "RED_BYTES", 0, 0) + 2 ELSE m.f.len - ec_tell(m)
  IN  IF m.f.len - red < ec_tell(m) THEN [m EXCEPT !.f.len = 0]
      ELSE [m EXCEPT !.f.len = @ - red, !.f.red = red, !.ec["dec"].storage = @ - red]

ToSilk(m) == Flag(m, "CELT_TO_SILK")

(* The CELT frames, before, of and after the frame; f.main is its length.  *)
celts(m) ==
  LET end == m.f.base + m.f.len
  IN  If(m.f.red > 0 /\ ToSilk(m), celt_decode_with_ec("before", end, m.f.red, 1, 1, FALSE))
      \o (IF m.f.mode # "silk"
          THEN celt_decode_with_ec("dec", m.f.base, m.f.len, IF m.f.mode = "hybrid" THEN Bands ELSE 1,
                                   IF m.f.full THEN 3 ELSE 2, FALSE)
          ELSE If(m.st.prevMode = "hybrid" /\ ~(m.f.red > 0 /\ ToSilk(m) /\ m.st.prevRed),
                  celt_decode_with_ec("silence", 0, 2, 1, 0, TRUE)))
      \o If(m.f.red > 0 /\ ~ToSilk(m), celt_decode_with_ec("after", end, m.f.red, 1, 1, FALSE))

modes(m) ==
  [m EXCEPT !.st.prevMode = m.f.mode, !.st.prevRed = m.f.red > 0 /\ ~m.f.toSilk]

-----------------------------------------------------------------------------
(* The parser between two values.                                          *)

Machine == [st |-> st, f |-> f, got |-> got, ec |-> ec, todo |-> todo]

Expand(m, x) ==
  CASE x.do = "frame"        -> opus_decode_frame(m)
    [] x.do = "silk"         -> Then(m, silk_Decode(m, x.i))
    [] x.do = "LBRR_symbols" -> Then(m, LBRR_symbols(m))
    [] x.do = "LBRR_skip"    -> Then(m, LBRR_skip(m))
    [] x.do = "mid_side"     -> Then(m, mid_side(m, x.i))
    [] x.do = "frames"       -> silk_frames(m, x.i)
    [] x.do = "indices"      -> Then(m, silk_decode_indices(m, x.n, x.i, x.k))
    [] x.do = "nlsf_ext"     -> Then(m, nlsf_ext(m, x.n, x.i))
    [] x.do = "pitch"        -> Then(m, pitch(m, x.n, x.k))
    [] x.do = "lag"          -> Then(m, lag(m, x.n, x.k))
    [] x.do = "signal"       -> [m EXCEPT !.st.voiced[x.n] = Voiced(m, x.n)]
    [] x.do = "pulses"       -> Then(m, silk_decode_pulses(x.n))
    [] x.do = "more"         -> Then(m, more_pulses(m, x.n, x.i))
    [] x.do = "shell"        -> Then(m, decode_split(m, x.n, x.i, x.k))
    [] x.do = "low_bits"     -> Then(m, low_bits(m))
    [] x.do = "signs"        -> Then(m, silk_decode_signs(m))
    [] x.do = "redundancy"   -> Then(m, redundancy(m))
    [] x.do = "red_bytes"    -> Then(m, red_bytes(m))
    [] x.do = "shrink"       -> shrink(m)
    [] x.do = "celts"        -> Then([m EXCEPT !.f.toSilk = ToSilk(m)], celts(m))
    [] x.do = "modes"        -> modes(m)
    [] x.do = "celt"         -> celt_begin(m, x)
    [] x.do = "silence"      -> celt_silence(m, x.n)
    [] x.do = "postfilter"   -> Then(m, postfilter(m))
    [] x.do = "tapset"       -> Then(m, If(Room(m, "TAPSET"), <<Read("TAPSET", 0, 0, 1)>>))
    [] x.do = "transient"    -> Then(m, celt_flags(m))
    [] x.do = "intra"        -> Then(m, If(Room(m, "INTRA"), <<Read("INTRA", 0, 0, 1)>>))
    [] x.do = "coarse"       -> Then(m, unquant_coarse_energy(m, x.n, x.i))
    [] x.do = "tf"           -> Then(m, tf_decode(m))
    [] x.do = "tf_band"      -> Then(m, If(Room(m, "TF"), <<Read("TF", x.n, 0, 2)>>))
    [] x.do = "tf_select"    -> Then(m, tf_select(m))
    [] x.do = "spread"       -> Then(m, If(Room(m, "SPREAD"), <<Read("SPREAD", 0, 0, 1)>>))
    [] x.do = "dynalloc"     -> dynalloc(m, x.n, x.i)
    [] x.do = "trim"         -> Then(m, If(Room(m, "TRIM"), <<Read("TRIM", 0, 0, 1)>>))
    [] x.do = "skip"         -> interp_bits2pulses(m, x.n, x.i)
    [] x.do = "intensity"    -> Then(m, intensity(m))
    [] x.do = "dual"         -> Then(m, If(Got(m, "INTENSITY", 0, 0) > 0 /\ Room(m, "DUAL"),
                                           <<Read("DUAL", 0, 0, 2)>>))
    [] x.do = "fine"         -> Then(m, If(Room(m, "FINE"), EachChannel(m, "FINE", x.n)))
    [] x.do = "band"         -> Then(m, quant_band(m, x.n))
    [] x.do = "side"         -> Then(m, quant_side(m, x.n))
    [] x.do = "partition"    -> Then(m, quant_partition(m, x.n, x.i, x.k))
    [] x.do = "anticollapse" ->
         Then(m, If(Flag(m, "TRANSIENT") /\ m.f.c.lm >= 2 /\ Room(m, "ANTICOLLAPSE"),
                    <<Bits("ANTICOLLAPSE", 0, 0)>>))
    [] x.do = "finalise"     -> Then(m, If(Room(m, "FINALISE"), EachChannel(m, "FINALISE", x.n)))
    [] x.do = "celt_end"     ->
         [m EXCEPT !.f.bad = @ \/ (m.f.cur = "dec" /\ ec_tell(m) > m.f.len)]

(* Runs the parser to where it asks for a value, or opens a context.       *)
RECURSIVE Settle(_)
Settle(m) ==
  IF m.todo = <<>> \/ m.todo[1].do \in {"read", "open", "store"} THEN m
  ELSE Settle(Expand([m EXCEPT !.todo = Tail(@)], m.todo[1]))

-----------------------------------------------------------------------------
(* The entropy contexts.  A context as it is and the copies of it in the   *)
(* table are all [storage, tell, offs, eoffs, err].                        *)

Set(m) == st' = m.st /\ f' = m.f /\ got' = m.got /\ ec' = m.ec /\ todo' = m.todo

Walk(m) == Set(Settle(m))

Context(n) == [storage |-> n, tell |-> 1, offs |-> 0, eoffs |-> 0, err |-> FALSE]

(* ec_write_byte and ec_write_byte_at_end.                                 *)
Put(x, base, raw, v) ==
  LET e == x.e
  IN  IF e.offs + e.eoffs >= e.storage THEN [x EXCEPT !.e.err = TRUE]
      ELSE IF raw THEN [x EXCEPT !.buf[base + e.storage - e.eoffs] = v, !.e.eoffs = @ + 1]
      ELSE [x EXCEPT !.buf[base + e.offs + 1] = v, !.e.offs = @ + 1]

(* What is between the two ends is cleared.                                *)
ec_enc_done(x, base) ==
  IF x.e.err THEN x.buf
  ELSE [c \in DOMAIN x.buf |->
          IF c \in base + x.e.offs + 1 .. base + x.e.storage - x.e.eoffs THEN 0 ELSE x.buf[c]]

Junk == 9

(* The slot of a place, 0 if it has none.                                  *)
oc_find(p) ==
  IF \E c \in DOMAIN oc : oc[c].p = p THEN CHOOSE c \in DOMAIN oc : oc[c].p = p ELSE 0

Live(c) == c \in DOMAIN oc /\ oc[c].live

Packet == stream.packets[pk]

Head1 == todo[1]

ec_dec_init ==
  /\ phase = "walk" /\ todo # <<>> /\ Head1.do = "open" /\ ~Live(oc_find(place[Head1.at]))
  /\ LET p == place[Head1.at]
         slot == [p |-> p, live |-> TRUE, base |-> Head1.base, local |-> Head1.local,
                  e |-> Context(Head1.n), buf |-> [i \in 1 .. Head1.n |-> Junk]]
     IN  /\ oc' = IF oc_find(p) = 0 THEN Append(oc, slot) ELSE [oc EXCEPT ![oc_find(p)] = slot]
         /\ Walk([Machine EXCEPT !.todo = Tail(@), !.f.cur = p, !.ec = (p :> Context(Head1.n)) @@ @])
  /\ UNCHANGED <<stream, place, side, pk, fr, orig, built, code, fh, gone, phase>>

(* A frame that is all ones has a set bit for its silence.                 *)
Values == IF oc[oc_find(f.cur)].local THEN {1}
          ELSE IF Head1.site \in stream.rich THEN 0 .. Head1.of - 1 ELSE {0}

Told(v, e) ==
  Walk([Machine EXCEPT !.todo = Tail(@), !.ec[f.cur] = [e EXCEPT !.tell = @ + 1],
                       !.got = (<<Head1.site, Head1.n, Head1.i>> :> v) @@ @])

AtValue == phase = "walk" /\ todo # <<>> /\ Head1.do = "read"

(* The mirror's storage follows that of the context.                       *)
oc_mirStale(c) == oc[c].e

oc_mir(c) == [oc[c].e EXCEPT !.storage = ec[f.cur].storage]

(* A value of the frame: coded, and written to the mirror.                 *)
analyze_op ==
  /\ AtValue /\ side = "analyze"
  /\ LET c == oc_find(f.cur)
     IN  \E v \in Values :
           LET x == Put([buf |-> oc[c].buf, e |-> oc_mir(c)], 0, Head1.raw, v)
           IN  /\ oc' = [oc EXCEPT ![c].buf = x.buf, ![c].e = x.e]
               /\ code' = Append(code, [site |-> Head1.site, v |-> v])
               /\ Told(v, ec[f.cur])
  /\ UNCHANGED <<stream, place, side, pk, fr, orig, built, fh, gone, phase>>

(* A value of the archive: written to the packet, and the context saved.   *)
Ends(how) ==
  /\ phase' = how
  /\ UNCHANGED <<stream, place, side, pk, fr, st, f, got, ec, todo, oc, orig, built, code, fh, gone>>

synth_op ==
  /\ AtValue /\ side = "synth"
  /\ IF code = <<>> \/ code[1].site # Head1.site THEN Ends("garbled")
     ELSE LET c == oc_find(f.cur)
              v == code[1].v
              x == Put([buf |-> built[pk], e |-> ec[f.cur]], oc[c].base, Head1.raw, v)
          IN  /\ built' = IF oc[c].local THEN built ELSE [built EXCEPT ![pk] = x.buf]
              /\ oc' = [oc EXCEPT ![c].e = x.e]
              /\ Told(v, x.e)
              /\ code' = Tail(code)
              /\ UNCHANGED <<stream, place, side, pk, fr, orig, fh, gone, phase>>

-----------------------------------------------------------------------------
(* om_frame: what the frame has that its mirror has not.                   *)

(* The cells of the last frames at an offset, most recent first.           *)
Candidates(i) ==
  LET all == FlattenSeq([j \in DOMAIN fh.past |->
               IF i <= Len(fh.past[j]) THEN <<fh.past[j][i]>> ELSE <<>>])
  IN  SelectSeq([j \in DOMAIN all |-> IF \E q \in 1 .. j - 1 : all[q] = all[j] THEN Junk ELSE all[j]],
                LAMBDA v : v # Junk)

CodedCell(i, v) ==
  LET c == Candidates(i)
  IN  IF \E j \in DOMAIN c : c[j] = v THEN [hit |-> CHOOSE j \in DOMAIN c : c[j] = v, v |-> 0]
      ELSE [hit |-> 0, v |-> v]

CellOf(i, x) == IF x.hit = 0 THEN x.v ELSE Candidates(i)[x.hit]

Patch(buf, mir) ==
  LET diff == {i \in DOMAIN buf : buf[i] # mir[i]}
      lo == CHOOSE i \in diff : \A j \in diff : i <= j
      hi == CHOOSE i \in diff : \A j \in diff : i >= j
  IN  IF diff = {} THEN [site |-> "FRAME", n |-> Len(buf), cells |-> <<>>, lo |-> 0, span |-> 0]
      ELSE [site |-> "FRAME", n |-> Len(buf), lo |-> IF stream.lavc THEN lo - fh.lo ELSE lo,
            span |-> IF stream.lavc THEN hi - lo - fh.span ELSE hi - lo,
            cells |-> [i \in 1 .. hi - lo + 1 |-> CodedCell(lo + i - 1, buf[lo + i - 1])]]

First(x) == IF stream.lavc THEN fh.lo + x.lo ELSE x.lo
Span(x)  == IF stream.lavc THEN fh.span + x.span ELSE x.span

Patched(mir, x) ==
  IF x.cells = <<>> THEN mir
  ELSE [i \in DOMAIN mir |-> IF i \in First(x) .. First(x) + Span(x)
                             THEN CellOf(i, x.cells[i - First(x) + 1]) ELSE mir[i]]

fh_push(x, buf) ==
  [past |-> SubSeq(<<buf>> \o fh.past, 1, Min2(Past, Len(fh.past) + 1)),
   lo |-> IF stream.lavc /\ x.cells # <<>> THEN First(x) ELSE fh.lo,
   span |-> IF stream.lavc /\ x.cells # <<>> THEN Span(x) ELSE fh.span]

(* The original, of which nothing is known that has not been asked for: it *)
(* is its mirror, but for none, all, or the first or last of the cells that *)
(* were not known before.                                                  *)
Unknown == 8

Originals(base, mir) ==
  LET new == {i \in DOMAIN mir : orig[pk][base + i] = Unknown}
  IN  {[i \in DOMAIN mir |-> IF i \in d THEN 1 - mir[i]
                            ELSE IF i \in new THEN mir[i] ELSE orig[pk][base + i]] :
         d \in {{}, new, {i \in new : i - 1 \notin new}, {i \in new : i + 1 \notin new}}}

Laid(packet, base, cells) ==
  [c \in DOMAIN packet |-> IF c \in base + 1 .. base + Len(cells) THEN cells[c - base] ELSE packet[c]]

(* om_frame of a frame whose mirror is mir.                                *)
om_frame(base, mir) ==
  IF side = "analyze"
  THEN \E buf \in Originals(base, mir) :
         /\ orig' = [orig EXCEPT ![pk] = Laid(@, base, buf)]
         /\ code' = Append(code, Patch(buf, mir))
         /\ fh' = fh_push(Patch(buf, mir), buf)
         /\ UNCHANGED <<built, phase>>
  ELSE IF code = <<>> \/ code[1].site # "FRAME" \/ code[1].n # Len(mir)
  THEN phase' = "garbled" /\ UNCHANGED <<orig, built, code, fh>>
  ELSE LET buf == Patched(mir, code[1])
       IN  /\ built' = [built EXCEPT ![pk] = Laid(@, base, buf)]
           /\ code' = Tail(code)
           /\ fh' = fh_push(code[1], buf)
           /\ UNCHANGED <<orig, phase>>

(* A frame of one byte has no context: it is stored against a nought.      *)
om_frame_stored ==
  /\ phase = "walk" /\ todo # <<>> /\ Head1.do = "store"
  /\ om_frame(Head1.base, <<0>>)
  /\ todo' = Tail(todo)
  /\ UNCHANGED <<stream, place, side, pk, fr, st, f, got, ec, oc, gone>>

(* The context that is closed next: the one in the way of a new one, or at *)
(* the end of the packet the first.                                        *)
FrameOver == phase = "walk" /\ todo = <<>> /\ ~f.bad

PacketOver == FrameOver /\ fr = Len(Packet.sizes)

Closing ==
  IF PacketOver THEN {c \in DOMAIN oc : oc[c].live /\ \A q \in 1 .. c - 1 : ~oc[q].live}
  ELSE IF phase = "walk" /\ todo # <<>> /\ Head1.do = "open"
  THEN {c \in {oc_find(place[Head1.at])} : Live(c)}
  ELSE {}

oe_close ==
  /\ \E c \in Closing :
       LET x == oc[c]
           whole == ec_enc_done([buf |-> IF side = "analyze" THEN x.buf ELSE built[pk], e |-> x.e],
                                IF side = "analyze" THEN 0 ELSE x.base)
           mir == IF side = "analyze" THEN SubSeq(whole, 1, x.e.storage)
                  ELSE SubSeq(whole, x.base + 1, x.base + x.e.storage)
       IN  /\ oc' = [oc EXCEPT ![c].live = FALSE]
           /\ IF x.local
              THEN gone' = TRUE /\ phase' = "undefined" /\ UNCHANGED <<orig, built, code, fh>>
              ELSE om_frame(x.base, mir) /\ UNCHANGED gone
  /\ UNCHANGED <<stream, place, side, pk, fr, st, f, got, ec, todo>>

-----------------------------------------------------------------------------
(* The frames of a packet and the packets of a stream.                     *)

Decoder == [prevMode |-> "none", prevRed |-> FALSE, onlyMiddle |-> FALSE,
            voiced |-> [n \in 1 .. 2 |-> FALSE], chans |-> 0]

SumTo(sizes, n) == FoldLeft(LAMBDA x, y : x + y, 0, SubSeq(sizes, 1, n))

Frame(s, p, i) ==
  LET k == s.packets[p]
  IN  [mode |-> k.mode, ch |-> k.ch, nf |-> k.nf, full |-> k.full, base |-> SumTo(k.sizes, i - 1),
       len |-> k.sizes[i], red |-> 0, toSilk |-> FALSE, cur |-> "dec", bad |-> FALSE,
       c |-> [start |-> 1, lm |-> 0, boosts |-> 0, coded |-> 0]]

Begin(s, d, p, i) ==
  [st |-> d, f |-> Frame(s, p, i), got |-> <<>>, ec |-> <<>>, todo |-> <<Do("frame")>>]

History == [past |-> <<>>, lo |-> 0, span |-> 0]

Cells(k, v) == [c \in 1 .. SumTo(k.sizes, Len(k.sizes)) |-> v]

Init ==
  /\ stream \in Streams /\ place \in Places
  /\ side = "analyze" /\ pk = 1 /\ fr = 1
  /\ LET m == Begin(stream, Decoder, 1, 1)
     IN  st = m.st /\ f = m.f /\ got = m.got /\ ec = m.ec /\ todo = m.todo
  /\ orig = [p \in DOMAIN stream.packets |-> Cells(stream.packets[p], Unknown)]
  /\ built = [p \in DOMAIN stream.packets |-> Cells(stream.packets[p], 0)]
  /\ oc = <<>> /\ code = <<>> /\ fh = History /\ gone = FALSE /\ phase = "walk"

opus_decode ==
  /\ phase = "walk" /\ todo # <<>> /\ Head1.do = "frame"
  /\ Walk(Machine)
  /\ UNCHANGED <<stream, place, side, pk, fr, oc, orig, built, code, fh, gone, phase>>

NextFrame ==
  /\ FrameOver /\ ~PacketOver
  /\ fr' = fr + 1
  /\ Set(Begin(stream, st, pk, fr + 1))
  /\ UNCHANGED <<stream, place, side, pk, oc, orig, built, code, fh, gone, phase>>

(* A frame that spends more than it has is no packet.                      *)
Refused ==
  /\ phase = "walk" /\ todo = <<>> /\ f.bad
  /\ Ends(IF side = "analyze" THEN "refused" ELSE "lost")

(* oe_end and oe_begin, and after the last packet the unpacker.            *)
NextPacket ==
  /\ PacketOver /\ Closing = {}
  /\ oc' = <<>> /\ fr' = 1
  /\ IF pk < Len(stream.packets)
     THEN pk' = pk + 1 /\ Set(Begin(stream, st, pk + 1, 1)) /\ UNCHANGED <<side, fh, phase>>
     ELSE IF side = "analyze"
     THEN pk' = 1 /\ side' = "synth" /\ fh' = History /\ Set(Begin(stream, Decoder, 1, 1))
          /\ UNCHANGED phase
     ELSE phase' = "done" /\ UNCHANGED <<pk, side, fh, st, f, got, ec, todo>>
  /\ UNCHANGED <<stream, place, orig, built, code, gone>>

Next ==
  \/ opus_decode \/ ec_dec_init \/ analyze_op \/ synth_op \/ om_frame_stored \/ oe_close
  \/ NextFrame \/ NextPacket \/ Refused

Spec == Init /\ [][Next]_frVars

-----------------------------------------------------------------------------
(* The unpacker asks for the values and the patches the packer gave, in    *)
(* its order, although the one reads them from a frame and the other       *)
(* builds the frame from them (ec_dec_*, oe_close, om_frame).              *)
InStep == phase \notin {"garbled", "lost"} /\ (phase = "done" => code = <<>>)

(* The packets come back, whatever the frames have besides the values that *)
(* were read from them, and in whatever order their contexts are closed.   *)
FramesComeBack == phase = "done" => built = orig

(* No context is closed after the frame it was opened on is gone.          *)
FrameOutlives == ~gone
=============================================================================
