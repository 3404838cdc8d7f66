----------------------------- MODULE MCBlrFile -----------------------------
(* The file handle with chunks of two bytes, two byte values and offsets   *)
(* up to five: two whole windows and one that SIZE_MAX cuts short.         *)
EXTENDS BlrFile
=============================================================================
