---------------------------- MODULE MCOpusFrames ----------------------------
(* The frames of Opus packets by themselves.                               *)
EXTENDS OpusFrames, MCOpusStreams
=============================================================================
