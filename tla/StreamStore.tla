---------------------------- MODULE StreamStore ----------------------------
(***************************************************************************)
(* What an archive of src/archive.c promises: a list of byte streams that  *)
(* grow byte by byte in any order, or are added whole, and that are what a *)
(* reader of the finished archive finds, stream for stream and byte for    *)
(* byte.  No chunks, no extents and no image; module ChunkArchive shows    *)
(* that the code, which has all three, implements this.                    *)
(***************************************************************************)
EXTENDS Sequences, Naturals

CONSTANTS
  Bytes,      \* values of a byte
  StreamMax,  \* bound on the streams of an archive
  ByteMax     \* bound on the bytes of a stream that is added whole

VARIABLES
  streams,  \* a sequence of byte sequences
  stage     \* "open", "sealed" (finished), "loaded" (read back) or "refused"

vars == <<streams, stage>>

Init == streams = <<>> /\ stage = "open"

(* A new stream is empty, or comes with bytes of its own.                  *)
New ==
  /\ stage = "open" /\ Len(streams) < StreamMax
  /\ \E n \in 0 .. ByteMax : \E data \in [1 .. n -> Bytes] : streams' = Append(streams, data)
  /\ UNCHANGED stage

Grow ==
  /\ stage = "open"
  /\ \E i \in DOMAIN streams, b \in Bytes : streams' = [streams EXCEPT ![i] = Append(@, b)]
  /\ UNCHANGED stage

(* An archive with an empty stream cannot be finished.                     *)
Seal ==
  /\ stage = "open"
  /\ stage' = IF \A i \in DOMAIN streams : streams[i] # <<>> THEN "sealed" ELSE "refused"
  /\ UNCHANGED streams

(* Reading back finds the streams that were sealed, whatever they are.     *)
Load ==
  /\ stage = "sealed"
  /\ stage' = "loaded"
  /\ UNCHANGED streams

Next == New \/ Grow \/ Seal \/ Load

Spec == Init /\ [][Next]_vars
=============================================================================
