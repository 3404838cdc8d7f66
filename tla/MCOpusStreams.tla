---------------------------- MODULE MCOpusStreams ---------------------------
(* Streams that go through one part of the parser each, as the sites whose *)
(* values vary say, and two builds: the calls of celt_decode_with_ec have  *)
(* their contexts in one place, or each in its own.                        *)
EXTENDS Integers

InMode(mode, ch, nf, full, sizes) == [mode |-> mode, ch |-> ch, nf |-> nf, full |-> full, sizes |-> sizes]
Stream(packets, rich) == [packets |-> packets, rich |-> rich, lavc |-> FALSE]

(* A stream of libavcodec's kind of frames.                                *)
Lavc(x) == [x EXCEPT !.lavc = TRUE]

Red == {"REDUNDANCY", "CELT_TO_SILK", "RED_BYTES"}
Celt(ch, sizes)       == InMode("celt", ch, 1, TRUE, sizes)
Silk(ch, nf, sizes)   == InMode("silk", ch, nf, TRUE, sizes)
Hybrid(full, sizes)   == InMode("hybrid", 1, 1, full, sizes)

MCStreams ==
  {Stream(<<Celt(1, <<n>>)>>, {"SILENCE", "TRANSIENT", "DYNALLOC", "TF"}) : n \in {2, 5, 14}}
  \cup {Stream(<<Celt(2, <<n>>)>>, {"PF_FLAG", "INTENSITY", "DUAL", "THETA", "SKIP"}) : n \in {4, 12, 24}}
  \cup {Stream(<<Silk(1, 1, <<n>>)>>, {"VAD", "TYPE", "NLSF_RES", "PULSES", "LSB"}) : n \in {6, 16}}
  \cup {Stream(<<Silk(1, 2, <<30>>)>>, {"VAD", "TYPE", "LAG_DELTA", "LBRR_FLAG", "LBRR_SYM"})}
  \cup {Stream(<<Silk(2, 2, <<40>>)>>, {"VAD", "MID_ONLY"})}
  \cup {Stream(<<Silk(2, 1, <<30>>)>>, {"VAD", "MID_ONLY", "LBRR_FLAG"})}
  \cup {Stream(<<Silk(1, 1, <<20, n>>)>>, {"CELT_TO_SILK", "FINE"}) : n \in {1, 20}}
  \cup {Stream(<<Hybrid(TRUE, <<n>>)>>, Red \cup {"TRANSIENT"}) : n \in {17, 22}}
  \cup {Stream(<<Hybrid(FALSE, <<22, 22>>)>>, {"CELT_TO_SILK", "REDUNDANCY"})}
  \cup {Stream(<<Celt(1, <<8>>), Silk(1, 1, <<17>>), Silk(2, 1, <<1, 0>>)>>, {"CELT_TO_SILK"})}
  \cup {Stream(<<Silk(1, 1, <<12>>), Hybrid(TRUE, <<1, 15>>), Celt(1, <<4>>)>>, {"VAD"})}
  \cup {Lavc(Stream(<<Celt(1, <<n>>), Celt(1, <<4, 3>>)>>, {"SILENCE"})) : n \in {3, 5}}

(* A hybrid frame and then one that is SILK only.                          *)
MCSwitches == {Stream(<<Hybrid(TRUE, <<14>>), Silk(1, 1, <<12>>)>>, {"VAD"})}

MCPlaces == {[dec |-> "dec", before |-> "ced", silence |-> "ced", after |-> "ced"],
             [dec |-> "dec", before |-> "b", silence |-> "s", after |-> "a"]}
MCReserve ==
  [PF_FLAG |-> 2, TAPSET |-> 1, TRANSIENT |-> 1, INTRA |-> 1, COARSE |-> 3, COARSE_SMALL |-> 2,
   COARSE_BIT |-> 1, TF |-> 1, TF_SELECT |-> 1, SPREAD |-> 1, DYNALLOC |-> 1, TRIM |-> 1,
   SKIP |-> 2, INTENSITY |-> 2, DUAL |-> 1, FINE |-> 2, THETA |-> 2, INV |-> 3, SIGN1 |-> 1, SPLIT |-> 3,
   PVQ |-> 1, ANTICOLLAPSE |-> 1, FINALISE |-> 2, HYBRID_RED |-> 4, SILK_RED |-> 3]
=============================================================================
