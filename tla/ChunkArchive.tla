---------------------------- MODULE ChunkArchive ---------------------------
(***************************************************************************)
(* The archive container of src/archive.c, with the chunk streams that     *)
(* src/file.c writes it through and the extent views that it is read       *)
(* through.                                                                *)
(*                                                                         *)
(* Three kinds of archive start the module: one streamed into an output    *)
(* file by arc_begin, arc_newstream and bf_put, whose streams are cut into *)
(* chunks as they fill; one built in memory of whole streams (arc_take,    *)
(* arc_push) and then emitted; and one that is any file at all.  Each is   *)
(* then read by arc_read, one chunk at a time.                             *)
(*                                                                         *)
(* The image is a sequence of cells: a byte of payload, a four-byte field  *)
(* and the magic with its version are a cell each, all of them numbers.    *)
(* Offsets count from zero as in the code.  The flags byte, which nothing  *)
(* here looks at, is left out, and so are the growing arrays.              *)
(***************************************************************************)
EXTENDS Integers, SequencesExt

CONSTANTS
  Chunk,      \* BLR_IO_CHUNK, the bytes of a full chunk
  TuneMax,    \* ARC_TUNEMAX
  Magic,      \* ARC_MAGIC with ARC_VER
  Bytes,      \* values of a byte
  StreamMax,  \* bound on the streams of an archive that is written
  ByteMax,    \* bound on the bytes written to streams
  Given       \* the files, other than archives written here, that are read

ASSUME ChunkAssumption == Chunk \in Nat \ {0}
ASSUME CellAssumption == Bytes \subseteq Nat /\ Magic \in Nat /\ TuneMax \in Nat
ASSUME GivenAssumption == Given \subseteq Seq(Nat)
ASSUME BoundAssumption == ByteMax \in Nat

VARIABLES
  output,  \* the cells of the file
  made,    \* the writer's archive: [s, chunks, tune], without chunks
  arc,     \* the reader's archive: [s, chunks, tune]
  pos,     \* the reader's position
  phase,   \* where writer and reader are
  foreign  \* the file was not written here

vars == <<output, made, arc, pos, phase, foreign>>

Extent(off, len) == [off |-> off, len |-> len]

(* A stream: the extents of the chunks on file (f->ext), the window of the *)
(* bytes that are not there yet, f->data when the stream is in memory, and *)
(* whether the coder that fills it is through with it.                     *)
Stream(data) ==
  [data |-> data, ext |-> <<>>, len |-> Len(data), at |-> 0, buf |-> <<>>,
   live |-> FALSE, dirty |-> FALSE, done |-> FALSE]

Floor(p) == Chunk * (p \div Chunk)
Lesser(a, b) == IF a <= b THEN a ELSE b

Cell(off) == output[off + 1]

(* The byte of a stream at an offset: found in the window being filled, or *)
(* by the extent its offset falls in when all extents but the last are     *)
(* full.                                                                   *)
StreamByte(st, at) ==
  CASE st.data # <<>>             -> st.data[at + 1]
    [] st.dirty /\ at >= st.at    -> st.buf[at - st.at + 1]
    [] OTHER                      -> Cell(st.ext[at \div Chunk + 1].off + (at % Chunk))

StreamBytes(st) == [k \in 1 .. st.len |-> StreamByte(st, k - 1)]

-----------------------------------------------------------------------------
(* Writing.                                                                *)

arc_begin ==
  /\ phase = "begin"
  /\ \E n \in 0 .. TuneMax : \E tune \in [1 .. n -> Bytes] :
       /\ made' = [made EXCEPT !.tune = tune]
       /\ output' = output \o <<Magic, n>> \o tune
  /\ phase' = "streaming"
  /\ UNCHANGED <<arc, pos, foreign>>

arc_newstream ==
  /\ phase = "streaming" /\ Len(made.s) < StreamMax
  /\ made' = [made EXCEPT !.s = Append(@, Stream(<<>>))]
  /\ UNCHANGED <<output, arc, pos, phase, foreign>>

bf_extent_add(st, off, len) ==
  [st EXCEPT !.ext = Append(@, Extent(off, len)), !.len = @ + len]

(* A flush that takes the header of the chunk for its payload.             *)
FlushedOnHeader(i, st, o) ==
  IF ~st.dirty THEN [st |-> st, out |-> o]
  ELSE [st |-> bf_extent_add([st EXCEPT !.dirty = FALSE, !.len = @ - Len(st.buf)],
                             Len(o), Len(st.buf)),
        out |-> o \o <<i, Len(st.buf)>> \o st.buf]

(* A dirty window of stream i becomes a chunk at the end of the file o;    *)
(* its bytes are counted out of the length, and in again with the extent.  *)
Flushed(i, st, o) ==
  IF ~st.dirty THEN [st |-> st, out |-> o]
  ELSE [st |-> bf_extent_add([st EXCEPT !.dirty = FALSE, !.len = @ - Len(st.buf)],
                             Len(o) + 2, Len(st.buf)),
        out |-> o \o <<i, Len(st.buf)>> \o st.buf]

(* bf_put has no room in the window.                                       *)
NeedsWindow(st) == ~st.live \/ st.len - st.at >= Chunk

(* A stream is only ever appended to, chunk by chunk.                      *)
Appends(st) == st.dirty => st.at \div Chunk = Len(st.ext)

(* bf_window opens a stream at its end.                                    *)
Opened(st) ==
  LET at == Floor(st.len)
  IN  [st EXCEPT !.at = at, !.live = TRUE,
                 !.buf = [k \in 1 .. st.len - at |-> StreamByte(st, at + k - 1)]]

bf_put ==
  /\ phase = "streaming"
  /\ FoldLeft(LAMBDA n, st : n + st.len, 0, made.s) < ByteMax
  /\ \E i \in DOMAIN made.s, b \in Bytes :
       /\ ~made.s[i].done
       /\ LET st == made.s[i]
              moved == IF NeedsWindow(st) THEN Flushed(i, st, output) ELSE [st |-> st, out |-> output]
              w == IF NeedsWindow(st) THEN Opened(moved.st) ELSE st
          IN  IF NeedsWindow(st) /\ ~Appends(st)
                THEN phase' = "fatal" /\ UNCHANGED <<output, made>>
                ELSE /\ output' = moved.out
                     /\ made' = [made EXCEPT !.s[i] =
                                   [w EXCEPT !.buf = Append(@, b), !.len = @ + 1, !.dirty = TRUE]]
                     /\ UNCHANGED phase
  /\ UNCHANGED <<arc, pos, foreign>>

(* The coder of a stream has written its last byte (enc_link of codec.c):  *)
(* the window goes to the file, full or not.                               *)
bf_dropcache ==
  /\ phase = "streaming"
  /\ \E i \in DOMAIN made.s :
       /\ ~made.s[i].done
       /\ LET r == Flushed(i, made.s[i], output)
          IN  IF Appends(made.s[i])
                THEN /\ output' = r.out
                     /\ made' = [made EXCEPT !.s[i] = [r.st EXCEPT !.live = FALSE, !.done = TRUE]]
                     /\ UNCHANGED phase
                ELSE phase' = "fatal" /\ UNCHANGED <<output, made>>
  /\ UNCHANGED <<arc, pos, foreign>>

(* The streams that are left over are flushed in order, and a zero ends    *)
(* the chunks.                                                             *)
arc_finish ==
  /\ phase = "streaming"
  /\ LET step(acc, st) ==
           LET r == Flushed(Len(acc.s) + 1, st, acc.out)
           IN  [s |-> Append(acc.s, r.st), out |-> r.out]
         all == FoldLeft(step, [s |-> <<>>, out |-> output], made.s)
     IN  IF \A i \in DOMAIN made.s : made.s[i].len > 0 /\ Appends(made.s[i])
           THEN /\ made' = [made EXCEPT !.s = all.s]
                /\ output' = Append(all.out, 0)
                /\ phase' = "sealed"
           ELSE phase' = "fatal" /\ UNCHANGED <<output, made>>
  /\ UNCHANGED <<arc, pos, foreign>>

(* An archive made of whole streams.                                       *)
arc_take ==
  /\ phase \in {"begin", "taking"} /\ Len(made.s) < StreamMax
  /\ \E n \in 1 .. ByteMax : \E data \in [1 .. n -> Bytes] :
       /\ n + FoldLeft(LAMBDA k, st : k + st.len, 0, made.s) <= ByteMax
       /\ made' = [made EXCEPT !.s = Append(@, Stream(data))]
  /\ phase' = "taking"
  /\ UNCHANGED <<output, arc, pos, foreign>>

(* A size that counts a chunk too many for streams that end on one.        *)
SizeRounded(a) ==
  FoldLeft(LAMBDA n, st : n + st.len + 2 * (1 + st.len \div Chunk), 3 + Len(a.tune), a.s)

(* The cells an archive takes, by its streams' lengths alone.              *)
arc_size(a) ==
  FoldLeft(LAMBDA n, st : n + st.len + 2 * (1 + (st.len - 1) \div Chunk), 3 + Len(a.tune), a.s)

(* chunk_next, over and over: the chunks of a parsed archive in the order  *)
(* they had on file, those of any other stream by stream.                  *)
ChunkList(a) ==
  IF a.chunks # <<>> THEN a.chunks
  ELSE LET of(i) == [c \in 1 .. 1 + (a.s[i].len - 1) \div Chunk |->
                       LET off == (c - 1) * Chunk
                       IN  [stream |-> i, off |-> off, len |-> Lesser(Chunk, a.s[i].len - off)]]
       IN  FlattenSeq([i \in DOMAIN a.s |-> of(i)])

(* arc_emit and arc_write produce the same image.                          *)
Emitted(a) ==
  LET body(q) == <<q.stream, q.len>>
                 \o [k \in 1 .. q.len |-> StreamByte(a.s[q.stream], q.off + k - 1)]
      chunks == ChunkList(a)
  IN  <<Magic, Len(a.tune)>> \o a.tune
      \o FlattenSeq([c \in DOMAIN chunks |-> body(chunks[c])]) \o <<0>>

arc_write ==
  /\ phase = "taking"
  /\ output' = Emitted(made)
  /\ phase' = "sealed"
  /\ UNCHANGED <<made, arc, pos, foreign>>

-----------------------------------------------------------------------------
(* Reading.                                                                *)

arc_read ==
  /\ phase \in {"sealed", "given"}
  /\ IF /\ Len(output) >= 2 /\ Cell(0) = Magic
        /\ Cell(1) <= TuneMax /\ Cell(1) <= Len(output) - 2
       THEN /\ arc' = [arc EXCEPT !.tune = SubSeq(output, 3, 2 + Cell(1))]
            /\ pos' = 2 + Cell(1)
            /\ phase' = "reading"
       ELSE phase' = "fatal" /\ UNCHANGED <<arc, pos>>
  /\ UNCHANGED <<output, made, foreign>>

(* Streams up to id exist: those named for the first time have no extents. *)
Grown(s, id) ==
  [i \in 1 .. (IF Len(s) < id THEN id ELSE Len(s)) |->
     IF i <= Len(s) THEN s[i] ELSE Stream(<<>>)]

(* Readers that let a chunk follow a partial one, and that want streams    *)
(* numbered as they come.                                                  *)
ChunkAfterPartial(s, id, len, rest) ==
  id <= Len(output) \div 3 /\ len \in 1 .. Chunk /\ len <= rest

ChunkInOrder(s, id, len, rest) ==
  id <= Len(s) + 1 /\ len \in 1 .. Chunk /\ len <= rest
  /\ (id <= Len(s) => s[id].len % Chunk = 0)

(* A chunk is legal, after the streams s so far, when its stream is        *)
(* not past what the file could hold, the rest of the file holds it, and   *)
(* every chunk of the stream before it is full.                            *)
LegalChunk(s, id, len, rest) ==
  /\ id <= Len(output) \div 3
  /\ len \in 1 .. Chunk /\ len <= rest
  /\ id <= Len(s) => s[id].len % Chunk = 0

(* A reader that stops at the end marker, wherever it is.                  *)
StopsAtMark(at) == \A i \in DOMAIN arc.s : arc.s[i].len > 0

(* The end marker is the end of the file, and no stream is missing.        *)
LegalEnd(at) == at = Len(output) /\ \A i \in DOMAIN arc.s : arc.s[i].len > 0

(* One round of chunk_read.                                                *)
chunk_read ==
  /\ phase = "reading"
  /\ LET left == Len(output) - pos
         id == Cell(pos)
         len == Cell(pos + 1)
         ends == left >= 1 /\ id = 0 /\ LegalEnd(pos + 1)
         goes == left >= 2 /\ id > 0 /\ LegalChunk(arc.s, id, len, left - 2)
     IN  \/ ends /\ phase' = "read" /\ UNCHANGED <<arc, pos>>
         \/ /\ goes
            /\ LET s == Grown(arc.s, id)
               IN  arc' = [arc EXCEPT
                             !.s = [s EXCEPT ![id] = bf_extent_add(@, pos + 2, len)],
                             !.chunks = Append(@, [stream |-> id, off |-> s[id].len, len |-> len])]
            /\ pos' = pos + 2 + len
            /\ UNCHANGED phase
         \/ ~ends /\ ~goes /\ phase' = "fatal" /\ UNCHANGED <<arc, pos>>
  /\ UNCHANGED <<output, made, foreign>>

-----------------------------------------------------------------------------
Empty == [s |-> <<>>, chunks |-> <<>>, tune |-> <<>>]

Init ==
  /\ made = Empty /\ arc = Empty /\ pos = 0
  /\ \/ output = <<>> /\ phase = "begin" /\ foreign = FALSE
     \/ output \in Given /\ phase = "given" /\ foreign = TRUE

Next ==
  \/ arc_begin \/ arc_newstream \/ bf_put \/ bf_dropcache \/ arc_finish
  \/ arc_take \/ arc_write
  \/ arc_read \/ chunk_read

Spec == Init /\ [][Next]_vars

-----------------------------------------------------------------------------
(* Properties.                                                             *)

(* What the archive means: the writer's streams until they have been read  *)
(* back, and then the reader's.  A foreign file was never written.         *)
Meant == IF phase = "read" THEN arc.s ELSE made.s

Stage ==
  IF foreign \/ phase \in {"begin", "streaming", "taking"} THEN "open"
  ELSE CASE phase \in {"sealed", "reading"} -> "sealed"
         [] phase = "read"                 -> "loaded"
         [] OTHER                          -> "refused"

Archived == INSTANCE StreamStore WITH
  streams <- IF foreign THEN <<>> ELSE [i \in DOMAIN Meant |-> StreamBytes(Meant[i])],
  stage <- Stage

Streams ==
  Seq([data : Seq(Bytes), ext : Seq([off : Nat, len : 1 .. Chunk]), len : Nat, at : Nat,
       buf : Seq(Bytes), live : BOOLEAN, dirty : BOOLEAN, done : BOOLEAN])

(* The archives, the position and the cells have their types.              *)
TypeOK ==
  /\ output \in Seq(Nat)
  /\ made.s \in Streams /\ made.tune \in Seq(Bytes) /\ made.chunks = <<>>
  /\ arc.s \in Streams /\ arc.tune \in Seq(Nat)
  /\ pos \in 0 .. Len(output)
  /\ phase \in {"begin", "streaming", "taking", "given", "sealed", "reading", "read", "fatal"}

(* The cells a chunk takes: its two fields and its payload.                *)
Takes(e) == e.off - 2 .. e.off + e.len - 1

(* Every byte of a file the reader has accepted belongs to the header, to  *)
(* one chunk of one stream or to the end marker: no extent reaches outside *)
(* the file or into another, and only the last of a stream is partial.     *)
Tiled ==
  phase = "read" =>
    /\ \A off \in 2 + Len(arc.tune) .. Len(output) - 2 :
         \E i \in DOMAIN arc.s : \E k \in DOMAIN arc.s[i].ext :
           /\ off \in Takes(arc.s[i].ext[k])
           /\ \A j \in DOMAIN arc.s : \A l \in DOMAIN arc.s[j].ext :
                off \in Takes(arc.s[j].ext[l]) => <<j, l>> = <<i, k>>
    /\ \A i \in DOMAIN arc.s : \A k \in DOMAIN arc.s[i].ext :
         /\ Takes(arc.s[i].ext[k]) \subseteq 2 + Len(arc.tune) .. Len(output) - 2
         /\ k < Len(arc.s[i].ext) => arc.s[i].ext[k].len = Chunk

(* Emitting what has been read gives the file back, cell for cell: nothing *)
(* in an accepted file is lost, and no two files mean the same archive.    *)
Reemits == phase = "read" => Emitted(arc) = output

(* The size trial of codec.c reckons by, to keep a candidate and cut the   *)
(* output behind it, is that of what has been written, chunks and all.     *)
SizeExact ==
  /\ phase = "sealed" => arc_size(made) = Len(output)
  /\ phase = "read" => arc_size(arc) = Len(output)

(* A file is an archive when it can be cut, at the set of offsets P, into  *)
(* chunks whose streams have no gap: the format as archive.h words it.     *)
Archive ==
  /\ Len(output) >= 3 /\ Cell(0) = Magic /\ Cell(1) <= TuneMax
  /\ LET first == 2 + Cell(1)
         last == Len(output) - 1
     IN  \E P \in SUBSET (first .. last - 1) :
           /\ Cell(last) = 0 /\ (first = last \/ first \in P)
           /\ \A p \in P :
                /\ p + 2 < last /\ Cell(p) > 0 /\ Cell(p + 1) \in 1 .. Chunk
                /\ p + 2 + Cell(p + 1) \in P \cup {last}
                /\ P \cap p + 1 .. p + 1 + Cell(p + 1) = {}
                /\ Cell(p + 1) < Chunk => \A q \in P : q > p => Cell(q) # Cell(p)
                /\ \A i \in 1 .. Cell(p) : \E q \in P : Cell(q) = i

(* The reader refuses only what is not an archive.                         *)
RefusesOnlyOthers == foreign /\ phase = "fatal" => ~Archive

(* The chunked image implements the list of streams: whatever the order    *)
(* the streams grow and fill their chunks in, a reader of the finished     *)
(* archive finds each with its bytes, and only an empty stream keeps an    *)
(* archive from being finished.                                            *)
Implements == Archived!Spec
=============================================================================
