-------------------------- MODULE MCChunkArchive ---------------------------
(* Chunks of two bytes and up to three streams of five bytes in all; and, *)
(* as files not written here, every one of up to five cells and            *)
(* every one of up to eleven that begins like an archive without a tune.   *)
EXTENDS ChunkArchive

Cells(n) == [1 .. n -> 0 .. 2]

GivenFiles ==
  UNION {Cells(n) : n \in 0 .. 5}
  \cup UNION {{<<Magic, 0>> \o t : t \in Cells(n)} : n \in 0 .. 9}
=============================================================================
