--------------------------- MODULE BlrFileProofs ---------------------------
(***************************************************************************)
(* What module BlrFile promises, proved for every chunk size, every bound  *)
(* and every set of bytes.  The first part shows of each function of       *)
(* file.c that it keeps the handle sound and what it does to the contents; *)
(* the second lifts that to the steps of the loops; the third shows that   *)
(* each step is one of ByteFile, or leaves what it means as it was.        *)
(***************************************************************************)
EXTENDS BlrFile, TLAPS

(* A handle that is well typed and whose window and disk agree.            *)
FileSound(h) == h \in File /\ WindowSound(h) /\ DiskSound(h)

(* The step from h to g leaves the client's view of the file alone.        *)
SameContents(g, h) ==
  /\ g.len = h.len
  /\ g.writable = h.writable
  /\ \A i \in Offset : Cached(g, i) = Cached(h, i)

(* Chunk boundaries: the floor of an offset is the start of its chunk.     *)
LEMMA FloorBounds ==
  \A p \in Nat : Floor(p) \in Nat /\ Floor(p) <= p /\ p < Floor(p) + Chunk
BY ChunkAssumption DEF Floor

LEMMA FloorIdempotent == \A p \in Nat : Floor(Floor(p)) = Floor(p)
BY ChunkAssumption DEF Floor

(* Writing back loses nothing and leaves nothing to write back.            *)
LEMMA FlushSound ==
  ASSUME NEW h, FileSound(h)
  PROVE  /\ FileSound(bf_flush(h))
         /\ SameContents(bf_flush(h), h)
         /\ ~bf_flush(h).dirty
         /\ bf_flush(h).nomap = h.nomap
<1> USE SizeMaxAssumption, ChunkAssumption DEF FileSound
<1>1. CASE ~h.dirty
  BY <1>1 DEF bf_flush, SameContents, File
<1>2. CASE h.dirty /\ h.mapped
  <2> DEFINE g == [h EXCEPT !.dirty = FALSE]
  <2>1. bf_flush(h) = g
    BY <1>2 DEF bf_flush
  <2>2. g \in File
    BY DEF File
  <2>3. WindowSound(g) /\ DiskSound(g) /\ SameContents(g, h)
    BY <1>2 DEF File, WindowSound, DiskSound, SameContents, Cached, In
  <2>4. QED
    BY <2>1, <2>2, <2>3 DEF File
<1>3. CASE h.dirty /\ ~h.mapped
  <2> DEFINE g == bf_flush(h)
             d == [i \in Offset |-> IF In(i, h.at, h.used) THEN h.buf[i - h.at] ELSE h.disk[i]]
             l == MAX(h.disklen, h.at + h.used)
  <2>1. h.live /\ h.at + h.used <= h.len /\ h.at \in Nat /\ h.used \in Nat /\ h.len \in Nat
    BY <1>3 DEF WindowSound, File, MIN
  <2>2. l \in 0 .. SizeMax /\ h.disklen <= l /\ h.at + h.used <= l
    BY <2>1 DEF File, MAX
  <2>3. d \in [Offset -> Byte]
    BY <2>1 DEF File, In, Offset
  <2>4. \A i \in Offset : d[i] = Cached(h, i)
    BY <1>3, <2>1 DEF Cached
  <2>5. g = [h EXCEPT !.dirty = FALSE, !.disk = d, !.disklen = l]
    BY <1>3 DEF bf_flush, File
  <2> HIDE DEF d, l, g
  <2>6. g \in File
    BY <2>2, <2>3, <2>5 DEF File
  <2>7. WindowSound(g)
    BY <1>3, <2>1, <2>2, <2>5 DEF WindowSound, File, MIN
  <2>8. \A i \in Offset : Cached(g, i) = Cached(h, i)
    BY <1>3, <2>1, <2>4, <2>5 DEF Cached, File
  <2>9. SameContents(g, h)
    BY <2>5, <2>8 DEF SameContents, File
  <2>10. DiskSound(g)
    BY <1>3, <2>1, <2>2, <2>4, <2>5, <2>8 DEF DiskSound, Cached, In, File, Offset
  <2>11. ~g.dirty /\ g.nomap = h.nomap
    BY <2>5 DEF File
  <2>12. QED
    BY <2>6, <2>7, <2>9, <2>10, <2>11 DEF g
<1>4. QED
  BY <1>1, <1>2, <1>3 DEF File

(* Closing a window that has been written back changes nothing.            *)
LEMMA DropSound ==
  ASSUME NEW h, FileSound(h), ~h.dirty
  PROVE  /\ FileSound(drop_window(h))
         /\ SameContents(drop_window(h), h)
         /\ LET g == drop_window(h)
            IN  /\ ~g.dirty /\ ~g.live /\ ~g.mapped /\ ~g.memory
                /\ g.nomap = h.nomap /\ g.disk = h.disk /\ g.disklen = h.disklen
<1> USE SizeMaxAssumption, ChunkAssumption DEF FileSound
<1> DEFINE g == drop_window(h)
<1>1. g = [h EXCEPT !.live = FALSE, !.mapped = FALSE, !.memory = h.memory /\ ~h.mapped]
  BY DEF drop_window, File
<1>2. ~(h.memory /\ ~h.mapped)
  BY DEF WindowSound
<1>3. g \in File /\ ~g.memory
  BY <1>1, <1>2 DEF File
<1> HIDE DEF g
<1>4. WindowSound(g)
  BY <1>1, <1>3 DEF WindowSound, File
<1>5. \A i \in Offset : Cached(h, i) = h.disk[i]
  <2> SUFFICES ASSUME NEW i \in Offset, h.live, ~h.mapped, In(i, h.at, h.used)
               PROVE  h.buf[i - h.at] = h.disk[i]
    BY DEF Cached
  <2>1. i < h.len
    BY DEF WindowSound, In, MIN, File, Offset
  <2>2. Cached(h, i) = h.disk[i]
    BY <2>1 DEF DiskSound
  <2>3. QED
    BY <2>2 DEF Cached
<1>6. \A i \in Offset : Cached(g, i) = h.disk[i]
  BY <1>1 DEF Cached, File
<1>7. SameContents(g, h)
  BY <1>1, <1>5, <1>6 DEF SameContents, File
<1>8. DiskSound(g)
  BY <1>1, <1>6 DEF DiskSound, File
<1>9. QED
  BY <1>1, <1>3, <1>4, <1>7, <1>8 DEF File, g

(* A handle with no window at all: the disk has all of it.                 *)
Bare(h) == FileSound(h) /\ ~h.dirty /\ ~h.live /\ ~h.mapped /\ ~h.memory

LEMMA BareSound ==
  ASSUME NEW h, FileSound(h)
  PROVE  /\ Bare(drop_window(bf_flush(h)))
         /\ SameContents(drop_window(bf_flush(h)), h)
         /\ drop_window(bf_flush(h)).nomap = h.nomap
<1>1. FileSound(bf_flush(h)) /\ ~bf_flush(h).dirty
  BY FlushSound
<1>2. QED
  BY <1>1, FlushSound, DropSound DEF Bare, SameContents

(* With no window open, the disk is the contents.                          *)
LEMMA BareDisk ==
  ASSUME NEW h, Bare(h)
  PROVE  /\ \A i \in Offset : Cached(h, i) = h.disk[i]
         /\ h.len <= h.disklen
<1>1. \A i \in Offset : Cached(h, i) = h.disk[i]
  BY DEF Bare, Cached
<1>2. h.len <= h.disklen
  <2> SUFFICES ASSUME h.len > 0
               PROVE  h.len <= h.disklen
    BY DEF Bare, FileSound, File
  <2>1. h.len - 1 \in Offset /\ h.len - 1 < h.len
    BY SizeMaxAssumption DEF Bare, FileSound, File, Offset
  <2>2. h.len - 1 < h.disklen
    BY <2>1 DEF Bare, FileSound, DiskSound
  <2>3. QED
    BY <2>2 DEF Bare, FileSound, File
<1>3. QED
  BY <1>1, <1>2

(* Setting the size of the file on disk to at least its contents.          *)
LEMMA GrowSound ==
  ASSUME NEW h, Bare(h), NEW n \in h.len .. SizeMax
  PROVE  LET g == size_file(h, n)
         IN  /\ Bare(g) /\ SameContents(g, h)
             /\ g.disklen = n /\ g.nomap = h.nomap
             /\ \A i \in Offset : g.disk[i] = h.disk[i]
<1> USE SizeMaxAssumption, ChunkAssumption
<1> DEFINE g == size_file(h, n)
           d == [i \in Offset |-> IF i < n THEN h.disk[i] ELSE Zero]
<1>1. h \in File /\ WindowSound(h) /\ DiskSound(h)
  BY DEF Bare, FileSound
<1>2. n \in 0 .. SizeMax /\ h.len <= n
  BY <1>1 DEF File
<1>3. \A i \in Offset : d[i] = h.disk[i]
  BY <1>1, <1>2 DEF DiskSound, Offset, File
<1>4. d \in [Offset -> Byte]
  BY <1>1, <1>3 DEF File
<1>5. g = [h EXCEPT !.disklen = n, !.disk = d]
  BY <1>1 DEF size_file, File
<1> HIDE DEF g, d
<1>6. g \in File
  BY <1>1, <1>2, <1>4, <1>5 DEF File
<1>7. /\ g.len = h.len /\ g.writable = h.writable /\ g.nomap = h.nomap
      /\ g.disk = d /\ g.disklen = n
      /\ g.dirty = h.dirty /\ g.live = h.live /\ g.mapped = h.mapped /\ g.memory = h.memory
  BY <1>1, <1>5 DEF File
<1>8. WindowSound(g)
  BY <1>7 DEF WindowSound, Bare
<1>9. \A i \in Offset : Cached(g, i) = h.disk[i] /\ Cached(h, i) = h.disk[i]
  BY <1>3, <1>7, BareDisk DEF Cached, Bare
<1>10. DiskSound(g)
  BY <1>1, <1>2, <1>3, <1>7, <1>9 DEF DiskSound, File, Offset
<1>11. QED
  BY <1>3, <1>6, <1>7, <1>8, <1>9, <1>10 DEF Bare, FileSound, SameContents, g

(* A window w that has just been laid over the chunk of offset p, with     *)
(* nothing in it yet: the disk has the contents of h.                      *)
Laid(w, h, p) ==
  /\ w \in File
  /\ w.len = h.len /\ w.writable = h.writable
  /\ w.at = Floor(p) /\ w.used = MIN(Chunk, h.len - Floor(p))
  /\ w.live /\ ~w.dirty /\ ~w.mapped /\ ~w.memory
  /\ \A i \in Offset : w.disk[i] = Cached(h, i)
  /\ \A i \in Offset : i >= h.len => w.disk[i] = Zero
  /\ h.len <= w.disklen

(* A window that shows the contents from its start to past offset p.       *)
Showing(g, p) == g.live /\ ~g.memory /\ g.at <= p /\ p < g.at + Chunk

LEMMA FloorWithin ==
  ASSUME NEW h \in File, NEW p \in 0 .. h.len
  PROVE  /\ Floor(p) \in 0 .. p /\ p \in 0 .. SizeMax /\ p < Floor(p) + Chunk
         /\ Floor(Floor(p)) = Floor(p)
         /\ MIN(Chunk, h.len - Floor(p)) \in 0 .. Chunk
         /\ Floor(p) + MIN(Chunk, h.len - Floor(p)) <= h.len
<1>1. h.len \in 0 .. SizeMax /\ p \in Nat
  BY SizeMaxAssumption DEF File
<1>2. Floor(p) \in 0 .. p /\ p < Floor(p) + Chunk /\ Floor(Floor(p)) = Floor(p)
  BY <1>1, FloorBounds, FloorIdempotent
<1>3. QED
  BY <1>1, <1>2, SizeMaxAssumption, ChunkAssumption DEF MIN

LEMMA WindowLaid ==
  ASSUME NEW h, FileSound(h), NEW p \in 0 .. h.len
  PROVE  Laid([drop_window(bf_flush(h)) EXCEPT
                 !.at = Floor(p), !.used = MIN(Chunk, h.len - Floor(p)), !.live = TRUE],
              h, p)
<1> DEFINE e == drop_window(bf_flush(h))
           u == MIN(Chunk, h.len - Floor(p))
           w == [e EXCEPT !.at = Floor(p), !.used = u, !.live = TRUE]
<1>1. Bare(e) /\ SameContents(e, h) /\ e \in File
  BY BareSound DEF Bare, FileSound
<1>2. Floor(p) \in 0 .. SizeMax /\ u \in 0 .. Chunk
  BY FloorWithin, SizeMaxAssumption DEF FileSound
<1>3. \A i \in Offset : e.disk[i] = Cached(h, i)
  BY <1>1, BareDisk DEF SameContents
<1>4. \A i \in Offset : i >= h.len => e.disk[i] = Zero
  BY <1>1 DEF Bare, FileSound, DiskSound, SameContents
<1>5. h.len <= e.disklen /\ e.len = h.len /\ e.writable = h.writable
  BY <1>1, BareDisk DEF SameContents
<1>6. ~e.dirty /\ ~e.mapped /\ ~e.memory
  BY <1>1 DEF Bare
<1> HIDE DEF e, u
<1>7. w \in File
  BY <1>1, <1>2 DEF File
<1>8. /\ w.len = e.len /\ w.writable = e.writable /\ w.disk = e.disk /\ w.disklen = e.disklen
      /\ w.at = Floor(p) /\ w.used = u /\ w.live
      /\ w.dirty = e.dirty /\ w.mapped = e.mapped /\ w.memory = e.memory
  BY <1>1 DEF File
<1> HIDE DEF w
<1>9. Laid(w, h, p)
  BY <1>3, <1>4, <1>5, <1>6, <1>7, <1>8 DEF Laid, u
<1>10. QED
  BY <1>9 DEF w, e, u

(* Extending the disk under a laid window keeps it laid, and makes room    *)
(* for the mapping.                                                        *)
LEMMA ExtendedLaid ==
  ASSUME NEW h, FileSound(h), NEW p \in 0 .. h.len, NEW w, Laid(w, h, p)
  PROVE  /\ Laid(Extended(w), h, p)
         /\ w.writable => w.at + MIN(Chunk, SizeMax - w.at) <= Extended(w).disklen
         /\ Extended(w).at = w.at
<1> DEFINE end == w.at + MIN(Chunk, SizeMax - w.at)
<1>1. w \in File /\ h \in File /\ w.at \in 0 .. SizeMax /\ w.disklen \in 0 .. SizeMax
      /\ h.len \in 0 .. SizeMax
  BY DEF Laid, FileSound, File
<1>2. end \in 0 .. SizeMax
  BY <1>1, SizeMaxAssumption, ChunkAssumption DEF MIN
<1> HIDE DEF end
<1>3. CASE w.writable /\ end > w.disklen
  <2> DEFINE d == [i \in Offset |-> IF i < end THEN w.disk[i] ELSE Zero]
             g == [w EXCEPT !.disklen = end, !.disk = d]
  <2>1. Extended(w) = g
    BY <1>1, <1>3 DEF Extended, size_file, File, end
  <2>2. h.len <= end
    BY <1>1, <1>2, <1>3, SizeMaxAssumption DEF Laid
  <2>3. \A i \in Offset : d[i] = w.disk[i]
    BY <1>1, <1>2, <2>2, SizeMaxAssumption DEF Laid, Offset
  <2>4. d \in [Offset -> Byte]
    BY <1>1, <2>3 DEF File
  <2> HIDE DEF d
  <2>5. g \in File
    BY <1>1, <1>2, <2>4 DEF File
  <2>6. /\ g.disk = d /\ g.disklen = end /\ g.len = w.len /\ g.writable = w.writable
        /\ g.at = w.at /\ g.used = w.used /\ g.live = w.live /\ g.dirty = w.dirty
        /\ g.mapped = w.mapped /\ g.memory = w.memory
    BY <1>1 DEF File
  <2> HIDE DEF g
  <2>7. Laid(g, h, p)
    BY <2>2, <2>3, <2>5, <2>6 DEF Laid
  <2>8. end <= g.disklen
    BY <2>6, <1>2
  <2>9. QED
    BY <2>1, <2>6, <2>7, <2>8 DEF end
<1>4. CASE ~(w.writable /\ end > w.disklen)
  <2>1. Extended(w) = w
    BY <1>4 DEF Extended, end
  <2>2. w.writable => end <= w.disklen
    BY <1>1, <1>2, <1>4
  <2>3. QED
    BY <2>1, <2>2 DEF end
<1>5. QED
  BY <1>3, <1>4

(* Filling a laid window from the disk.                                    *)
LEMMA BufferedOpens ==
  ASSUME NEW h, FileSound(h), NEW p \in 0 .. h.len, NEW w, Laid(w, h, p)
  PROVE  LET g == Buffered(w)
         IN  FileSound(g) /\ SameContents(g, h) /\ Showing(g, p)
<1> DEFINE g == Buffered(w)
           b == [i \in 0 .. Chunk - 1 |-> IF i < w.used THEN w.disk[w.at + i] ELSE w.buf[i]]
<1>1. w \in File /\ h \in File /\ h.len \in 0 .. SizeMax
  BY DEF Laid, FileSound, File
<1>2. /\ w.at \in 0 .. p /\ p < w.at + Chunk /\ Floor(w.at) = w.at
      /\ w.used \in 0 .. Chunk /\ w.at + w.used <= h.len
      /\ w.used = MIN(Chunk, h.len - w.at)
  BY <1>1, FloorWithin DEF Laid
<1>3. b \in [0 .. Chunk - 1 -> Byte]
  <2>1. \A i \in 0 .. Chunk - 1 : i < w.used => w.at + i \in Offset
    BY <1>1, <1>2, ChunkAssumption, SizeMaxAssumption DEF Offset
  <2>2. QED
    BY <1>1, <2>1 DEF File
<1>4. g = [w EXCEPT !.nomap = TRUE, !.buf = b]
  BY <1>1 DEF Buffered, File
<1>5. \A i \in 0 .. Chunk - 1 : i < w.used => b[i] = w.disk[w.at + i]
  OBVIOUS
<1> HIDE DEF g, b
<1>6. g \in File
  BY <1>1, <1>3, <1>4 DEF File
<1>7. /\ g.len = h.len /\ g.writable = h.writable /\ g.at = w.at /\ g.used = w.used
      /\ g.live /\ ~g.dirty /\ ~g.mapped /\ ~g.memory
      /\ g.disk = w.disk /\ g.disklen = w.disklen /\ g.buf = b
  BY <1>1, <1>4 DEF File, Laid
<1>8. \A i \in Offset : Cached(g, i) = w.disk[i]
  BY <1>2, <1>5, <1>7, ChunkAssumption DEF Cached, In, Offset
<1>9. SameContents(g, h)
  BY <1>7, <1>8 DEF SameContents, Laid
<1>10. WindowSound(g)
  BY <1>1, <1>2, <1>7 DEF WindowSound
<1>11. DiskSound(g)
  BY <1>1, <1>7, <1>8 DEF DiskSound, Laid, Offset, File
<1>12. Showing(g, p)
  BY <1>2, <1>7 DEF Showing
<1>13. QED
  BY <1>6, <1>9, <1>10, <1>11, <1>12 DEF FileSound, g

(* Mapping a laid window that has its chunk on disk.                       *)
LEMMA MappedOpens ==
  ASSUME NEW h, FileSound(h), NEW p \in 0 .. h.len, NEW w, Laid(w, h, p),
         w.writable => w.at + MIN(Chunk, SizeMax - w.at) <= w.disklen
  PROVE  LET g == [w EXCEPT !.mapped = TRUE]
         IN  FileSound(g) /\ SameContents(g, h) /\ Showing(g, p)
<1> DEFINE g == [w EXCEPT !.mapped = TRUE]
<1>1. w \in File /\ h \in File /\ h.len \in 0 .. SizeMax
  BY DEF Laid, FileSound, File
<1>2. /\ w.at \in 0 .. p /\ p < w.at + Chunk /\ Floor(w.at) = w.at
      /\ w.at <= h.len /\ w.used = MIN(Chunk, h.len - w.at)
  BY <1>1, FloorWithin DEF Laid
<1>3. g \in File
  BY <1>1 DEF File
<1>4. /\ g.len = h.len /\ g.writable = h.writable /\ g.at = w.at /\ g.used = w.used
      /\ g.live /\ ~g.dirty /\ g.mapped /\ ~g.memory
      /\ g.disk = w.disk /\ g.disklen = w.disklen
  BY <1>1 DEF File, Laid
<1> HIDE DEF g
<1>5. \A i \in Offset : Cached(g, i) = w.disk[i]
  BY <1>4 DEF Cached
<1>6. SameContents(g, h)
  BY <1>4, <1>5 DEF SameContents, Laid
<1>7. WindowSound(g)
  BY <1>1, <1>2, <1>4 DEF WindowSound, Laid
<1>8. DiskSound(g)
  BY <1>1, <1>4, <1>5 DEF DiskSound, Laid, Offset, File
<1>9. Showing(g, p)
  BY <1>2, <1>4 DEF Showing
<1>10. QED
  BY <1>3, <1>6, <1>7, <1>8, <1>9 DEF FileSound, g

(* Whatever the system answers, opening a window changes no byte of the    *)
(* contents and leaves the offset asked for inside the window.             *)
LEMMA WindowOpens ==
  ASSUME NEW h, FileSound(h), NEW p \in 0 .. h.len, NEW answer \in Mapping
  PROVE  LET g == bf_window(h, p, answer)
         IN  FileSound(g) /\ SameContents(g, h) /\ Showing(g, p)
<1> DEFINE w == [drop_window(bf_flush(h)) EXCEPT
                   !.at = Floor(p), !.used = MIN(Chunk, h.len - Floor(p)), !.live = TRUE]
           g == bf_window(h, p, answer)
<1>1. Laid(w, h, p)
  BY WindowLaid
<1>2. g = Buffered(w) \/ g = Buffered(Extended(w)) \/ g = [Extended(w) EXCEPT !.mapped = TRUE]
  BY DEF bf_window
<1> HIDE DEF w, g
<1>3. /\ Laid(Extended(w), h, p)
      /\ w.writable => w.at + MIN(Chunk, SizeMax - w.at) <= Extended(w).disklen
      /\ Extended(w).at = w.at
  BY <1>1, ExtendedLaid
<1>4. Extended(w).writable = w.writable
  BY <1>1, <1>3 DEF Laid
<1>5. QED
  BY <1>1, <1>2, <1>3, <1>4, BufferedOpens, MappedOpens DEF g

(* Storing bytes in the window changes those bytes of the contents, and    *)
(* extends the contents when they lie at its end, and does nothing else.   *)
LEMMA StoreSound ==
  ASSUME NEW h, FileSound(h), h.writable,
         NEW p \in 0 .. h.len, Showing(h, p),
         NEW n \in Nat \ {0}, p + n <= h.at + Chunk, p + n <= SizeMax,
         NEW b \in Payload, NEW k \in Nat, k + n <= XferMax
  PROVE  LET g == Store(h, p, b, k, n)
         IN  /\ FileSound(g) /\ Showing(g, p)
             /\ g.writable /\ g.len = MAX(h.len, p + n) /\ g.at = h.at
             /\ \A i \in Offset :
                  Cached(g, i) = IF In(i, p, n) THEN b[k + i - p] ELSE Cached(h, i)
<1> USE SizeMaxAssumption, ChunkAssumption, XferMaxAssumption
<1> DEFINE d == [i \in Offset |-> IF h.mapped /\ In(i, p, n) THEN b[k + i - p] ELSE h.disk[i]]
           c == [i \in 0 .. Chunk - 1 |->
                   IF ~h.mapped /\ In(h.at + i, p, n) THEN b[k + h.at + i - p] ELSE h.buf[i]]
           u == MAX(h.used, p + n - h.at)
           l == MAX(h.len, p + n)
           g == Store(h, p, b, k, n)
<1>1. /\ h \in File /\ h.at \in 0 .. p /\ h.used \in 0 .. Chunk /\ h.len \in 0 .. SizeMax
      /\ h.disklen \in 0 .. SizeMax
      /\ h.used = MIN(Chunk, h.len - h.at) /\ h.live /\ ~h.memory /\ Floor(h.at) = h.at
  BY DEF FileSound, File, WindowSound, Showing
<1>2. l \in 0 .. SizeMax /\ h.len <= l /\ p + n <= l /\ l <= MAX(h.len, h.at + Chunk)
  BY <1>1 DEF MAX
<1>3. /\ u \in 0 .. Chunk /\ h.used <= u /\ h.at + u <= l /\ u = MIN(Chunk, l - h.at)
      /\ p + n <= h.at + u
  BY <1>1 DEF MAX, MIN
<1>4. \A i \in 0 .. SizeMax : In(i, p, n) => b[k + i - p] \in Byte
  BY <1>1 DEF In, Payload
<1>5. d \in [Offset -> Byte]
  BY <1>1, <1>4 DEF File, Offset
<1>6. c \in [0 .. Chunk - 1 -> Byte]
  <2> SUFFICES ASSUME NEW i \in 0 .. Chunk - 1, ~h.mapped, In(h.at + i, p, n)
               PROVE  b[k + h.at + i - p] \in Byte
    BY <1>1 DEF File
  <2>1. h.at + i \in 0 .. SizeMax
    BY <1>1 DEF In
  <2>2. b[k + (h.at + i) - p] \in Byte
    BY <1>4, <2>1
  <2>3. QED
    BY <1>1, <2>2
<1>7. g = [h EXCEPT !.disk = d, !.buf = c, !.used = u, !.len = l, !.dirty = TRUE]
  BY <1>1 DEF Store, File
<1>8. \A i \in Offset : d[i] = IF h.mapped /\ In(i, p, n) THEN b[k + i - p] ELSE h.disk[i]
  OBVIOUS
<1>9. \A i \in 0 .. Chunk - 1 :
        c[i] = IF ~h.mapped /\ In(h.at + i, p, n) THEN b[k + h.at + i - p] ELSE h.buf[i]
  OBVIOUS
<1> HIDE DEF d, c, u, l, g
<1>10. g \in File
  BY <1>1, <1>2, <1>3, <1>5, <1>6, <1>7 DEF File
<1>11. /\ g.len = l /\ g.writable /\ g.at = h.at /\ g.used = u /\ g.live /\ g.dirty
       /\ g.mapped = h.mapped /\ ~g.memory /\ g.disk = d /\ g.disklen = h.disklen
       /\ g.buf = c
  BY <1>1, <1>7 DEF File
<1>12. \A i \in Offset : Cached(g, i) = IF In(i, p, n) THEN b[k + i - p] ELSE Cached(h, i)
  <2>1. CASE h.mapped
    BY <2>1, <1>8, <1>11 DEF Cached
  <2>2. CASE ~h.mapped
    <3> SUFFICES ASSUME NEW i \in Offset
                 PROVE  Cached(g, i) = IF In(i, p, n) THEN b[k + i - p] ELSE Cached(h, i)
      OBVIOUS
    <3>1. CASE In(i, p, n)
      <4>1. In(i, h.at, u) /\ i - h.at \in 0 .. Chunk - 1 /\ h.at + (i - h.at) = i
        BY <3>1, <1>1, <1>3 DEF In, Offset
      <4>2. c[i - h.at] = b[k + h.at + (i - h.at) - p]
        BY <4>1, <3>1, <2>2, <1>9
      <4>3. k + h.at + (i - h.at) - p = k + i - p
        BY <1>1 DEF Offset
      <4>4. QED
        BY <3>1, <2>2, <4>1, <4>2, <4>3, <1>11 DEF Cached
    <3>2. CASE ~In(i, p, n) /\ In(i, h.at, u)
      <4>1. i - h.at \in 0 .. Chunk - 1 /\ h.at + (i - h.at) = i
        BY <3>2, <1>1, <1>3 DEF In, Offset
      <4>2. c[i - h.at] = h.buf[i - h.at]
        BY <4>1, <3>2, <2>2, <1>9
      <4>3. In(i, h.at, h.used)
        BY <3>2, <1>1 DEF In, Offset, u, MAX, MIN
      <4>4. Cached(h, i) = h.buf[i - h.at]
        BY <2>2, <4>3, <1>1 DEF Cached
      <4>5. Cached(g, i) = c[i - h.at]
        BY <3>2, <2>2, <1>11 DEF Cached
      <4>6. QED
        BY <3>2, <4>2, <4>4, <4>5
    <3>3. CASE ~In(i, p, n) /\ ~In(i, h.at, u)
      <4>1. ~In(i, h.at, h.used)
        BY <3>3, <1>1, <1>3 DEF In, Offset
      <4>2. QED
        BY <3>3, <2>2, <4>1, <1>8, <1>11 DEF Cached
    <3>4. QED
      BY <3>1, <3>2, <3>3
  <2>3. QED
    BY <2>1, <2>2
<1>13. WindowSound(g)
  BY <1>1, <1>2, <1>3, <1>11 DEF WindowSound, FileSound
<1>14. DiskSound(g)
  <2> SUFFICES ASSUME NEW i \in Offset
               PROVE  /\ i < g.len /\ ~(g.dirty /\ ~g.mapped /\ In(i, g.at, g.used)) =>
                           i < g.disklen /\ Cached(g, i) = g.disk[i]
                      /\ i >= g.len => g.disk[i] = Zero
    BY DEF DiskSound
  <2>1. /\ i < h.len /\ ~(h.dirty /\ ~h.mapped /\ In(i, h.at, h.used)) => i < h.disklen
        /\ i >= h.len => h.disk[i] = Zero
    BY DEF FileSound, DiskSound
  <2>2. i >= g.len => g.disk[i] = Zero
    BY <2>1, <1>1, <1>2, <1>8, <1>11 DEF In, Offset
  <2>3. CASE h.mapped
    <3>1. h.at + MIN(Chunk, SizeMax - h.at) <= h.disklen
      BY <2>3, <1>1 DEF FileSound, WindowSound
    <3>2. i < g.len => i < h.disklen
      BY <2>1, <2>3, <3>1, <1>1, <1>11 DEF Offset, MIN, l, MAX
    <3>3. QED
      BY <2>2, <2>3, <3>2, <1>11 DEF Cached
  <2>4. CASE ~h.mapped
    <3>1. ASSUME i < g.len, ~In(i, h.at, u)
          PROVE  i < h.len /\ ~In(i, h.at, h.used)
      BY <3>1, <1>1, <1>3, <1>11 DEF In, Offset, l, MAX
    <3>2. QED
      BY <2>1, <2>2, <2>4, <3>1, <1>11 DEF Cached
  <2>5. QED
    BY <2>3, <2>4
<1>15. Showing(g, p)
  BY <1>1, <1>11 DEF Showing
<1>16. QED
  BY <1>10, <1>11, <1>12, <1>13, <1>14, <1>15 DEF FileSound, g, l

(* Truncation keeps the bytes before the new end.                          *)
LEMMA ResizeSound ==
  ASSUME NEW h, FileSound(h), NEW n \in 0 .. h.len
  PROVE  LET g == bf_resize(h, n)
         IN  /\ FileSound(g) /\ g.len = n /\ g.writable = h.writable
             /\ \A i \in Offset : Cached(g, i) = IF i < n THEN Cached(h, i) ELSE Zero
<1> USE SizeMaxAssumption, ChunkAssumption
<1> DEFINE e == drop_window(bf_flush(h))
           d == [i \in Offset |-> IF i < n THEN e.disk[i] ELSE Zero]
           g == bf_resize(h, n)
<1>1. Bare(e) /\ SameContents(e, h) /\ e \in File
  BY BareSound DEF Bare, FileSound
<1>2. n \in 0 .. SizeMax
  BY DEF FileSound, File
<1>3. \A i \in Offset : e.disk[i] = Cached(h, i)
  BY <1>1, BareDisk DEF SameContents
<1>4. e.writable = h.writable /\ ~e.dirty /\ ~e.live /\ ~e.mapped /\ ~e.memory
  BY <1>1 DEF SameContents, Bare
<1> HIDE DEF e
<1>5. d \in [Offset -> Byte]
  BY <1>1, ZeroAssumption DEF File
<1>6. g = [e EXCEPT !.disklen = n, !.disk = d, !.len = n]
  BY <1>1 DEF bf_resize, size_file, File, e
<1>7. \A i \in Offset : d[i] = IF i < n THEN Cached(h, i) ELSE Zero
  BY <1>3
<1>8. \A i \in Offset : i >= n => d[i] = Zero
  BY <1>2 DEF Offset
<1> HIDE DEF d, g
<1>9. g \in File
  BY <1>1, <1>2, <1>5, <1>6 DEF File
<1>10. /\ g.len = n /\ g.writable = e.writable /\ g.disk = d /\ g.disklen = n
       /\ ~g.dirty /\ ~g.live /\ ~g.mapped /\ ~g.memory
  BY <1>1, <1>4, <1>6 DEF File
<1>11. \A i \in Offset : Cached(g, i) = d[i]
  BY <1>10 DEF Cached
<1>12. WindowSound(g) /\ DiskSound(g)
  BY <1>8, <1>10, <1>11 DEF WindowSound, DiskSound
<1>13. QED
  BY <1>4, <1>7, <1>9, <1>10, <1>11, <1>12 DEF FileSound, g

(* Closing leaves a file for writing with its contents on disk, every byte *)
(* and no more.                                                            *)
LEMMA CloseSound ==
  ASSUME NEW h, FileSound(h)
  PROVE  LET g == bf_close(h)
         IN  /\ FileSound(g) /\ SameContents(g, h)
             /\ h.writable => g.disklen = g.len
             /\ \A i \in Offset : g.disk[i] = IF i < h.len THEN Cached(h, i) ELSE Zero
<1> DEFINE e == drop_window(bf_flush(h))
           g == bf_close(h)
<1>1. Bare(e) /\ SameContents(e, h) /\ e.len \in 0 .. SizeMax
  BY BareSound DEF Bare, FileSound, File
<1>2. Bare(g) /\ SameContents(g, e) /\ (e.writable => g.disklen = g.len)
  <2>1. CASE e.writable /\ e.disklen # e.len
    <3>1. g = size_file(e, e.len)
      BY <2>1 DEF bf_close
    <3>2. e.len \in e.len .. SizeMax
      BY <1>1
    <3> HIDE DEF e, g
    <3>3. QED
      BY <3>1, <3>2, <1>1, GrowSound DEF SameContents
  <2>2. CASE ~(e.writable /\ e.disklen # e.len)
    BY <2>2, <1>1 DEF bf_close, SameContents
  <2>3. QED
    BY <2>1, <2>2
<1> HIDE DEF e, g
<1>3. SameContents(g, h) /\ (h.writable => g.disklen = g.len)
  BY <1>1, <1>2 DEF SameContents
<1>4. \A i \in Offset : g.disk[i] = Cached(h, i)
  BY <1>2, <1>3, BareDisk DEF SameContents
<1>5. \A i \in Offset : i >= h.len => g.disk[i] = Zero
  BY <1>2, <1>3 DEF SameContents, Bare, FileSound, DiskSound
<1>6. h.len \in Nat
  BY SizeMaxAssumption DEF FileSound, File
<1>7. QED
  BY <1>2, <1>3, <1>4, <1>5, <1>6 DEF Bare, FileSound, g, Offset

-----------------------------------------------------------------------------
(* A file opened for reading has all of its bytes on disk and no others.   *)
ReadOnlyExact(h) == h.writable \/ h.disklen = h.len

LEMMA ReadOnlyKept ==
  ASSUME NEW h, FileSound(h), ReadOnlyExact(h)
  PROVE  /\ ReadOnlyExact(bf_flush(h))
         /\ ReadOnlyExact(drop_window(bf_flush(h)))
         /\ ReadOnlyExact(bf_close(h))
         /\ \A p \in 0 .. h.len, answer \in Mapping : ReadOnlyExact(bf_window(h, p, answer))
<1> USE DEF FileSound, ReadOnlyExact
<1>1. h \in File /\ (h.dirty => h.writable)
  BY DEF WindowSound
<1> DEFINE e == drop_window(bf_flush(h))
<1>2. CASE h.writable
  <2>1. bf_flush(h).writable /\ e.writable /\ bf_close(h).writable
    BY <1>2, FlushSound, BareSound, CloseSound DEF SameContents
  <2>2. \A p \in 0 .. h.len, answer \in Mapping : bf_window(h, p, answer).writable
    BY <1>2, WindowOpens DEF SameContents
  <2>3. QED
    BY <2>1, <2>2
<1>3. CASE ~h.writable
  <2>1. bf_flush(h) = h
    BY <1>1, <1>3 DEF bf_flush
  <2>2. e \in File /\ e.disklen = h.disklen /\ e.len = h.len /\ ~e.writable
    BY <1>1, <1>3, <2>1 DEF drop_window, File
  <2>3. bf_close(h) = e
    BY <2>2 DEF bf_close
  <2> HIDE DEF e
  <2>4. ASSUME NEW p \in 0 .. h.len, NEW answer \in Mapping
        PROVE  ReadOnlyExact(bf_window(h, p, answer))
    <3> DEFINE w == [e EXCEPT !.at = Floor(p), !.used = MIN(Chunk, h.len - Floor(p)),
                              !.live = TRUE]
    <3>1. w.disklen = h.disklen /\ w.len = h.len /\ ~w.writable
      BY <2>2 DEF File
    <3>2. Laid(w, h, p) /\ w \in File
      BY WindowLaid DEF Laid, e
    <3> HIDE DEF w
    <3>3. Extended(w) = w
      BY <3>1 DEF Extended
    <3> DEFINE g == bf_window(h, p, answer)
    <3>4. g = Buffered(w) \/ g = [w EXCEPT !.mapped = TRUE]
      BY <3>3 DEF bf_window, w, e
    <3>5. Buffered(w).disklen = w.disklen /\ Buffered(w).len = w.len
      BY <3>2 DEF Buffered, File
    <3>6. /\ [w EXCEPT !.mapped = TRUE].disklen = w.disklen
          /\ [w EXCEPT !.mapped = TRUE].len = w.len
      BY <3>2 DEF File
    <3> HIDE DEF g
    <3>7. g.disklen = w.disklen /\ g.len = w.len
      BY <3>4, <3>5, <3>6
    <3>8. g.disklen = g.len
      BY <1>3, <3>1, <3>7
    <3>9. QED
      BY <3>8 DEF g
  <2>5. QED
    BY <1>3, <2>1, <2>2, <2>3, <2>4 DEF e
<1>4. QED
  BY <1>2, <1>3

(* The window a read finds has the next byte in it, and shows what the     *)
(* file holds there.                                                       *)
LEMMA ReadWindowSound ==
  ASSUME NEW h, FileSound(h), ~h.memory, ReadOnlyExact(h),
         NEW p \in Nat, p < h.len, NEW answer \in Mapping
  PROVE  LET g == ReadWindow(h, p, answer)
         IN  /\ FileSound(g) /\ ReadOnlyExact(g) /\ SameContents(g, h)
             /\ g.at \in 0 .. p /\ g.used \in 0 .. Chunk /\ p < g.at + g.used
             /\ g.at + g.used <= g.len
             /\ \A i \in Offset : In(i, g.at, g.used) => WindowByte(g, i) = Cached(g, i)
<1> USE SizeMaxAssumption, ChunkAssumption
<1> DEFINE g == ReadWindow(h, p, answer)
<1>1. h \in File /\ h.len \in 0 .. SizeMax /\ h.at \in 0 .. SizeMax /\ h.used \in 0 .. Chunk
  BY DEF FileSound, File
<1>2. FileSound(g) /\ SameContents(g, h) /\ g.live /\ g.at <= p /\ p < g.at + Chunk
  <2>1. CASE ~h.live \/ p < h.at \/ p - h.at >= h.used
    <3>1. g = bf_window(h, p, answer) /\ p \in 0 .. h.len
      BY <2>1, <1>1 DEF ReadWindow
    <3>2. QED
      BY <3>1, WindowOpens DEF Showing
  <2>2. CASE ~(~h.live \/ p < h.at \/ p - h.at >= h.used)
    <3>1. g = h
      BY <2>2 DEF ReadWindow
    <3>2. QED
      BY <2>2, <3>1, <1>1 DEF SameContents
  <2>3. QED
    BY <2>1, <2>2
<1>3. ReadOnlyExact(g)
  BY <1>1, ReadOnlyKept DEF ReadWindow
<1> HIDE DEF g
<1>4. g.used = MIN(Chunk, g.len - g.at) /\ g.at \in 0 .. p /\ g.len = h.len
      /\ g.used \in 0 .. Chunk
  BY <1>2 DEF FileSound, WindowSound, SameContents, File
<1>5. p < g.at + g.used /\ g.at + g.used <= g.len
  BY <1>1, <1>2, <1>4 DEF MIN
<1>6. \A i \in Offset : In(i, g.at, g.used) => WindowByte(g, i) = Cached(g, i)
  BY <1>2 DEF WindowByte, Cached
<1>7. QED
  BY <1>2, <1>3, <1>4, <1>5, <1>6 DEF g

(* The window a write finds has room at the offset.                        *)
LEMMA WriteWindowSound ==
  ASSUME NEW h, FileSound(h), NEW p \in 0 .. h.len, NEW answer \in Mapping
  PROVE  LET g == WriteWindow(h, p, answer)
         IN  FileSound(g) /\ SameContents(g, h) /\ Showing(g, p)
<1> USE SizeMaxAssumption, ChunkAssumption
<1>1. h.len \in 0 .. SizeMax /\ h.at \in 0 .. SizeMax /\ (h.live => ~h.memory)
  BY DEF FileSound, File, WindowSound
<1>2. CASE ~h.live \/ p < h.at \/ p - h.at >= Chunk
  BY <1>2, WindowOpens DEF WriteWindow
<1>3. CASE ~(~h.live \/ p < h.at \/ p - h.at >= Chunk)
  BY <1>1, <1>3 DEF WriteWindow, SameContents, Showing
<1>4. QED
  BY <1>2, <1>3

(* The window a put finds ends where the file ends, and has room there.    *)
LEMMA PutWindowSound ==
  ASSUME NEW h, FileSound(h), NEW answer \in Mapping
  PROVE  LET g == PutWindow(h, answer)
         IN  /\ FileSound(g) /\ SameContents(g, h) /\ Showing(g, h.len)
             /\ g.at + g.used = h.len
<1> USE SizeMaxAssumption, ChunkAssumption
<1> DEFINE g == PutWindow(h, answer)
<1>1. /\ h.len \in 0 .. SizeMax /\ h.at \in 0 .. SizeMax
      /\ h.live => ~h.memory /\ h.at <= h.len
  BY DEF FileSound, File, WindowSound
<1>2. FileSound(g) /\ SameContents(g, h) /\ Showing(g, h.len)
  <2>1. CASE ~h.live \/ h.len - h.at >= Chunk
    <3>1. h.len \in 0 .. h.len
      BY <1>1
    <3>2. QED
      BY <2>1, <3>1, WindowOpens DEF PutWindow
  <2>2. CASE ~(~h.live \/ h.len - h.at >= Chunk)
    BY <1>1, <2>2 DEF PutWindow, SameContents, Showing
  <2>3. QED
    BY <2>1, <2>2
<1> HIDE DEF g
<1>3. g.used = MIN(Chunk, g.len - g.at) /\ g.at \in 0 .. SizeMax /\ g.len = h.len
  BY <1>2 DEF FileSound, WindowSound, Showing, SameContents, File
<1>4. g.at + g.used = h.len
  BY <1>1, <1>2, <1>3 DEF MIN, Showing
<1>5. QED
  BY <1>2, <1>4 DEF g

-----------------------------------------------------------------------------
(* The inductive invariant.  The handle is sound; the call in progress was *)
(* legal when it was made and still is; and the loop in progress stays     *)
(* inside the call, and inside the file as far as it has come.             *)
LoopSound ==
  /\ io \in Loops
  /\ io.op = "read" => /\ io.n >= 1 /\ io.k <= io.n
                       /\ io.at + io.n <= f.len
  /\ io.op = "write" => /\ f.writable
                        /\ io.n >= 1 /\ io.k <= io.n
                        /\ io.at + io.k <= f.len
                        /\ io.at + io.n <= SizeMax

CallSound ==
  /\ req.op \in {"idle", "put", "resize", "dropcache", "close", "closed"} => io = NoLoop
  /\ req.op = "idle" => req = Idle
  /\ req.op = "put" => /\ f.writable /\ f.len < SizeMax /\ req.b \in Payload
                       /\ req.at = f.len /\ req.n = 1
  /\ req.op = "resize" => f.writable /\ req.n \in 0 .. f.len
  /\ req.op = "read" => io.op = "read"
  /\ req.op = "write" => io.op = "write"
  /\ req.op = "meta" => /\ io.op \in {"none", "read"}
                        /\ req.at \in Nat /\ req.n \in 1 .. Chunk
                        /\ req.at + req.n <= f.len

MoveSound ==
  /\ req.op # "move" => left = 0
  /\ req.op = "move" =>
       /\ f.writable
       /\ req.at \in Nat /\ req.from \in Nat /\ req.n \in Nat
       /\ req.at + req.n <= f.len /\ req.from + req.n <= f.len
       /\ left \in 0 .. req.n
       /\ io.op # "none" => left > 0 /\ io.n = MIN(left, Chunk)
       /\ io.op = "read" => io.at = req.from + MoveOffset(io.n)
       /\ io.op = "write" => io.at = req.at + MoveOffset(io.n)

ClosedSound ==
  req.op = "closed" =>
    /\ f.disklen = f.len
    /\ \A i \in Offset : f.disk[i] = IF i < f.len THEN Cached(f, i) ELSE Zero

IInv ==
  /\ FileSound(f) /\ ReadOnlyExact(f)
  /\ TypeOK /\ LoopSound /\ CallSound /\ MoveSound /\ ClosedSound /\ ReadExact

LEMMA CachedByte ==
  ASSUME NEW h \in File, NEW i \in Offset
  PROVE  Cached(h, i) \in Byte
BY ChunkAssumption, SizeMaxAssumption DEF File, Cached, In, Offset

(* A step that leaves the client's view of the file and the calls alone    *)
(* keeps what is said of them.                                             *)
LEMMA SameFileKeeps ==
  ASSUME IInv, FileSound(f'), ReadOnlyExact(f'), SameContents(f', f), UNCHANGED <<req, io, left>>
  PROVE  FileSound(f') /\ TypeOK' /\ LoopSound' /\ CallSound' /\ MoveSound'
BY DEF IInv, FileSound, SameContents, TypeOK, LoopSound, CallSound, MoveSound, MoveOffset

(* One window's worth of a read: what it finds and what it copies.         *)
LEMMA ReadStep ==
  ASSUME IInv, bf_read
  PROVE  /\ FileSound(f') /\ ReadOnlyExact(f') /\ SameContents(f', f)
         /\ UNCHANGED <<req, left>>
         /\ io'.op = "read" /\ io'.at = io.at /\ io'.n = io.n
         /\ io'.k \in io.k + 1 .. io.n
         /\ io' \in Loops
         /\ \A j \in 0 .. io'.k - 1 : io'.b[j] = Cached(f', io.at + j)
<1> USE SizeMaxAssumption, ChunkAssumption, XferMaxAssumption
<1> DEFINE p == io.at + io.k
           g(answer) == IF f.memory THEN f ELSE ReadWindow(f, p, answer)
           take(answer) == IF f.memory THEN io.n - io.k
                           ELSE MIN(io.n - io.k, g(answer).used - (p - g(answer).at))
<1>1. PICK answer \in Mapping :
        /\ f' = g(answer)
        /\ io' = [io EXCEPT !.k = io.k + take(answer),
                            !.b = [j \in 0 .. XferMax - 1 |->
                                     IF In(j, io.k, take(answer))
                                     THEN WindowByte(g(answer), io.at + j) ELSE io.b[j]]]
  BY DEF bf_read, IInv, TypeOK, Loops
<1> DEFINE t == take(answer)
<1>2. /\ io.op = "read" /\ io.at \in 0 .. SizeMax /\ io.n \in 1 .. XferMax /\ io.k \in 0 .. io.n - 1
      /\ io.b \in Payload /\ io \in Loops /\ io.at + io.n <= f.len
      /\ f \in File /\ f.len \in 0 .. SizeMax
      /\ FileSound(f) /\ ReadOnlyExact(f)
  BY DEF bf_read, IInv, LoopSound, Loops, TypeOK, File
<1>3. p \in Nat /\ p < f.len
  BY <1>2
<1>4. /\ FileSound(f') /\ ReadOnlyExact(f') /\ SameContents(f', f)
      /\ t \in 1 .. io.n - io.k
      /\ \A i \in Offset : In(i, p, t) => WindowByte(f', i) = Cached(f', i)
  <2>1. CASE f.memory
    <3>1. f' = f /\ t = io.n - io.k
      BY <2>1, <1>1
    <3>2. f.mapped
      BY <2>1, <1>2 DEF FileSound, WindowSound
    <3> HIDE DEF t
    <3>3. QED
      BY <1>2, <3>1, <3>2 DEF SameContents, WindowByte, Cached
  <2>2. CASE ~f.memory
    <3>1. f' = ReadWindow(f, p, answer) /\ t = MIN(io.n - io.k, f'.used - (p - f'.at))
      BY <2>2, <1>1
    <3>2. /\ FileSound(f') /\ ReadOnlyExact(f') /\ SameContents(f', f)
          /\ f'.at \in 0 .. p /\ f'.used \in 0 .. Chunk /\ p < f'.at + f'.used
          /\ \A i \in Offset : In(i, f'.at, f'.used) => WindowByte(f', i) = Cached(f', i)
      BY <2>2, <3>1, <1>2, <1>3, ReadWindowSound
    <3> HIDE DEF t
    <3>3. t \in 1 .. io.n - io.k /\ p + t <= f'.at + f'.used
      BY <3>1, <3>2, <1>2, <1>3 DEF MIN
    <3>4. \A i \in Offset : In(i, p, t) => In(i, f'.at, f'.used)
      BY <3>2, <3>3, <1>3 DEF In, Offset
    <3>5. QED
      BY <3>2, <3>3, <3>4
  <2>3. QED
    BY <2>1, <2>2
<1> DEFINE b == [j \in 0 .. XferMax - 1 |->
                   IF In(j, io.k, t) THEN WindowByte(f', io.at + j) ELSE io.b[j]]
<1>5. io' = [io EXCEPT !.k = io.k + t, !.b = b]
  BY <1>1
<1> HIDE DEF t
<1>6. \A j \in 0 .. XferMax - 1 : In(j, io.k, t) =>
        /\ io.at + j \in Offset /\ In(io.at + j, p, t)
        /\ WindowByte(f', io.at + j) = Cached(f', io.at + j)
  BY <1>2, <1>4 DEF In, Offset
<1>7. b \in Payload
  <2>1. \A i \in Offset : Cached(f', i) \in Byte
    BY <1>4, CachedByte DEF FileSound
  <2>2. \A j \in 0 .. XferMax - 1 : b[j] \in Byte
    BY <1>2, <1>6, <2>1 DEF Payload
  <2>3. QED
    BY <2>2 DEF Payload
<1>8. ASSUME NEW j \in 0 .. io.k + t - 1
      PROVE  b[j] = Cached(f', io.at + j)
  <2>1. j \in 0 .. XferMax - 1
    BY <1>2, <1>4
  <2>2. CASE In(j, io.k, t)
    BY <2>1, <2>2, <1>6
  <2>3. CASE ~In(j, io.k, t)
    <3>1. j \in 0 .. io.k - 1 /\ io.at + j \in Offset
      BY <2>3, <1>2, <1>4 DEF In, Offset
    <3>2. io.b[j] = Cached(f, io.at + j)
      BY <3>1, <1>2 DEF IInv, ReadExact
    <3>3. QED
      BY <2>1, <2>3, <3>1, <3>2, <1>4 DEF SameContents
  <2>4. QED
    BY <2>2, <2>3
<1> HIDE DEF b
<1>9. /\ io'.op = "read" /\ io'.at = io.at /\ io'.n = io.n /\ io'.k = io.k + t /\ io'.b = b
      /\ io' \in Loops
  <2>1. io.k + t \in 0 .. XferMax
    BY <1>2, <1>4
  <2>2. QED
    BY <1>2, <1>5, <1>7, <2>1 DEF Loops
<1>10. UNCHANGED <<req, left>>
  BY DEF bf_read
<1>11. QED
  BY <1>2, <1>4, <1>7, <1>8, <1>9, <1>10

(* One window's worth of a write: those bytes of the contents change, and  *)
(* nothing else.                                                           *)
LEMMA WriteStep ==
  ASSUME IInv, bf_write
  PROVE  /\ FileSound(f') /\ f'.writable
         /\ UNCHANGED <<req, left>>
         /\ io'.op = "write" /\ io'.at = io.at /\ io'.n = io.n /\ io'.b = io.b
         /\ io'.k \in io.k + 1 .. io.n
         /\ io' \in Loops
         /\ f'.len = MAX(f.len, io.at + io'.k)
         /\ \A i \in Offset :
              Cached(f', i) = IF In(i, io.at + io.k, io'.k - io.k) THEN io.b[i - io.at]
                              ELSE Cached(f, i)
<1> USE SizeMaxAssumption, ChunkAssumption, XferMaxAssumption
<1> DEFINE p == io.at + io.k
           g(answer) == WriteWindow(f, p, answer)
           take(answer) == MIN(io.n - io.k, Chunk - (p - g(answer).at))
<1>1. PICK answer \in Mapping :
        /\ f' = Store(g(answer), p, io.b, io.k, take(answer))
        /\ io' = [io EXCEPT !.k = io.k + take(answer)]
  BY DEF bf_write, IInv, TypeOK, Loops
<1> DEFINE w == g(answer)
           t == take(answer)
<1>2. /\ io.op = "write" /\ io.at \in 0 .. SizeMax /\ io.n \in 1 .. XferMax
      /\ io.k \in 0 .. io.n - 1
      /\ io.b \in Payload /\ io \in Loops /\ io.at + io.n <= SizeMax
      /\ f \in File /\ f.len \in 0 .. SizeMax /\ f.writable
      /\ FileSound(f) /\ p \in 0 .. f.len
  BY DEF bf_write, IInv, LoopSound, Loops, TypeOK, File
<1>3. FileSound(w) /\ SameContents(w, f) /\ Showing(w, p)
  BY <1>2, WriteWindowSound
<1>4. f' = Store(w, p, io.b, io.k, t) /\ t = MIN(io.n - io.k, Chunk - (p - w.at))
  BY <1>1
<1> HIDE DEF w
<1>5. w.at \in 0 .. p /\ w.len = f.len /\ w.writable /\ p < w.at + Chunk
  BY <1>2, <1>3 DEF FileSound, File, SameContents, Showing
<1>6. t \in Nat \ {0} /\ t <= io.n - io.k /\ p + t <= w.at + Chunk /\ p + t <= SizeMax
      /\ io.k + t <= XferMax
  BY <1>2, <1>4, <1>5 DEF MIN
<1>7. io' = [io EXCEPT !.k = io.k + t]
  BY <1>1
<1> HIDE DEF t
<1>8. /\ FileSound(f') /\ f'.writable /\ f'.len = MAX(f.len, p + t)
      /\ \A i \in Offset :
           Cached(f', i) = IF In(i, p, t) THEN io.b[io.k + i - p] ELSE Cached(w, i)
  BY <1>2, <1>3, <1>4, <1>5, <1>6, StoreSound
<1>9. /\ io'.op = "write" /\ io'.at = io.at /\ io'.n = io.n /\ io'.k = io.k + t /\ io'.b = io.b
      /\ io' \in Loops
  BY <1>2, <1>6, <1>7 DEF Loops
<1>10. \A i \in Offset : io.k + i - p = i - io.at
  BY <1>2 DEF Offset
<1>11. io'.k - io.k = t /\ io'.k \in io.k + 1 .. io.n /\ p + t = io.at + io'.k
  BY <1>2, <1>6, <1>9
<1>12. UNCHANGED <<req, left>>
  BY DEF bf_write
<1>13. QED
  BY <1>3, <1>8, <1>9, <1>10, <1>11, <1>12 DEF SameContents

LEMMA PutStep ==
  ASSUME IInv, bf_put
  PROVE  /\ FileSound(f') /\ f'.writable
         /\ f'.len = f.len + 1
         /\ \A i \in Offset : Cached(f', i) = IF i = f.len THEN req.b[0] ELSE Cached(f, i)
<1> USE SizeMaxAssumption, ChunkAssumption, XferMaxAssumption
<1>1. PICK answer \in Mapping :
        LET g == PutWindow(f, answer)
        IN  f' = [Store(g, g.at + g.used, req.b, 0, 1) EXCEPT !.len = g.len + 1]
  BY DEF bf_put
<1> DEFINE g == PutWindow(f, answer)
           x == Store(g, f.len, req.b, 0, 1)
<1>2. f.len \in 0 .. SizeMax - 1 /\ f.writable /\ req.b \in Payload /\ FileSound(f)
  BY DEF bf_put, IInv, CallSound, FileSound, File
<1>3. FileSound(g) /\ SameContents(g, f) /\ Showing(g, f.len) /\ g.at + g.used = f.len
  BY <1>2, PutWindowSound
<1>4. f' = [x EXCEPT !.len = g.len + 1]
  BY <1>1, <1>3
<1> HIDE DEF g
<1>5. g.len = f.len /\ g.writable /\ g.at \in Nat /\ f.len + 1 <= g.at + Chunk
  BY <1>2, <1>3 DEF SameContents, FileSound, File, Showing
<1>6. /\ FileSound(x) /\ x.writable /\ x.len = MAX(f.len, f.len + 1)
      /\ \A i \in Offset :
           Cached(x, i) = IF In(i, f.len, 1) THEN req.b[0 + i - f.len] ELSE Cached(g, i)
  BY <1>2, <1>3, <1>5, StoreSound
<1> HIDE DEF x
<1>7. x.len = f.len + 1
  BY <1>2, <1>6 DEF MAX
<1>8. f' = x
  BY <1>4, <1>5, <1>6, <1>7 DEF FileSound, File
<1>9. \A i \in Offset : /\ In(i, f.len, 1) <=> i = f.len
                        /\ i = f.len => 0 + i - f.len = 0
  BY <1>2 DEF In, Offset
<1>10. QED
  BY <1>3, <1>6, <1>7, <1>8, <1>9 DEF SameContents

-----------------------------------------------------------------------------
(* Every step keeps the invariant.                                         *)
LEMMA InitIInv == Init => IInv
<1> SUFFICES ASSUME Init PROVE IInv
  OBVIOUS
<1> USE SizeMaxAssumption, ChunkAssumption, XferMaxAssumption, ZeroAssumption
<1>1. /\ f \in File /\ f.disklen = f.len /\ ~f.dirty /\ ~f.live /\ (f.memory <=> f.mapped)
      /\ \A i \in Offset : i >= f.len => f.disk[i] = Zero
  <2>1. f \in Opened
    BY DEF Init
  <2>2. /\ f \in [len : 0 .. SizeMax, at : {0}, used : {0},
                  writable : BOOLEAN, dirty : {FALSE}, live : {FALSE}, mapped : BOOLEAN,
                  memory : BOOLEAN, nomap : BOOLEAN,
                  buf : {[i \in 0 .. Chunk - 1 |-> Zero]},
                  disklen : 0 .. SizeMax, disk : [Offset -> Byte]]
        /\ f.disklen = f.len
        /\ \A i \in Offset : i >= f.len => f.disk[i] = Zero
        /\ f.memory = f.mapped
    BY <2>1 DEF Opened
  <2>3. [i \in 0 .. Chunk - 1 |-> Zero] \in [0 .. Chunk - 1 -> Byte]
    OBVIOUS
  <2>4. 0 \in 0 .. SizeMax /\ 0 \in 0 .. Chunk
    OBVIOUS
  <2>5. f \in File
    BY <2>2, <2>3, <2>4 DEF File
  <2>6. ~f.dirty /\ ~f.live
    BY <2>2
  <2>7. QED
    BY <2>2, <2>5, <2>6
<1>2. WindowSound(f) /\ DiskSound(f)
  BY <1>1 DEF WindowSound, DiskSound, Cached
<1>3. req = Idle /\ io = NoLoop /\ left = 0
  BY DEF Init
<1>4. io \in Loops /\ io.op = "none" /\ io.k = 0
  BY <1>3 DEF NoLoop, Loop, Loops, NoBytes, Payload
<1>5. req.op = "idle"
  BY <1>3 DEF Idle, Call
<1>6. QED
  BY <1>1, <1>2, <1>3, <1>4, <1>5 DEF IInv, FileSound, ReadOnlyExact, TypeOK, LoopSound,
     CallSound, MoveSound, ClosedSound, ReadExact

(* A call that is made is legal, and its loop starts at its beginning.     *)
LEMMA BeginKeeps == IInv /\ Begin => IInv'
<1> SUFFICES ASSUME IInv, Begin PROVE IInv'
  OBVIOUS
<1> USE SizeMaxAssumption, ChunkAssumption, XferMaxAssumption, ZeroAssumption
<1> USE DEF IInv
<1>1. /\ req = Idle /\ f' = f /\ f \in File /\ f.len \in 0 .. SizeMax
      /\ left' = IF req'.op = "move" THEN req'.n ELSE 0
      /\ io' = IF req'.op \in {"read", "write"} THEN Loop(req'.op, req'.at, req'.n, 0, req'.b)
               ELSE NoLoop
      /\ req' \in QuietCalls(f.len) \cup (IF f.writable THEN ChangeCalls(f.len) ELSE {})
  BY DEF Begin, FileSound, File
<1>2. FileSound(f') /\ ReadOnlyExact(f')
  BY <1>1
<1>3. NoLoop \in Loops /\ NoLoop.op = "none" /\ NoBytes \in Payload
  BY DEF NoLoop, Loop, Loops, NoBytes, Payload
<1>4. CASE req'.op = "read"
  <2>1. /\ req'.at \in Nat /\ req'.n \in 1 .. XferMax /\ req'.b = NoBytes
        /\ req'.at + req'.n <= f.len
    BY <1>1, <1>4 DEF QuietCalls, ChangeCalls, WriteCalls, PutCalls, ResizeCalls, MoveCalls, Call
  <2>2. io' = Loop("read", req'.at, req'.n, 0, NoBytes) /\ left' = 0
    BY <1>1, <1>4, <2>1
  <2>3. io' \in Loops /\ io'.op = "read" /\ io'.k = 0 /\ io'.at = req'.at /\ io'.n = req'.n
    BY <1>1, <1>3, <2>1, <2>2 DEF Loop, Loops
  <2>4. QED
    BY <1>1, <1>2, <1>4, <2>1, <2>2, <2>3
    DEF TypeOK, LoopSound, CallSound, MoveSound, ClosedSound, ReadExact
<1>5. CASE req'.op = "write"
  <2>1. /\ f.writable /\ req'.at \in 0 .. f.len /\ req'.n \in 1 .. XferMax /\ req'.b \in Payload
        /\ req'.at + req'.n <= SizeMax
    BY <1>1, <1>5 DEF QuietCalls, ChangeCalls, WriteCalls, PutCalls, ResizeCalls, MoveCalls, Call
  <2>2. io' = Loop("write", req'.at, req'.n, 0, req'.b) /\ left' = 0
    BY <1>1, <1>5, <2>1
  <2>3. io' \in Loops /\ io'.op = "write" /\ io'.k = 0 /\ io'.at = req'.at /\ io'.n = req'.n
    BY <1>1, <2>1, <2>2 DEF Loop, Loops
  <2>4. QED
    BY <1>1, <1>2, <1>5, <2>1, <2>2, <2>3
    DEF TypeOK, LoopSound, CallSound, MoveSound, ClosedSound, ReadExact
<1>6. CASE req'.op \notin {"read", "write"}
  <2>1. io' = NoLoop
    BY <1>1, <1>6
  <2>2. /\ req'.op \in {"meta", "put", "move", "resize", "dropcache", "close"}
        /\ req'.op = "put" => /\ f.writable /\ f.len < SizeMax /\ req'.b \in Payload
                              /\ req'.at = f.len /\ req'.n = 1
        /\ req'.op = "resize" => f.writable /\ req'.n \in 0 .. f.len
        /\ req'.op = "meta" => /\ req'.at \in Nat /\ req'.n \in 1 .. Chunk
                               /\ req'.at + req'.n <= f.len
        /\ req'.op = "move" => /\ f.writable
                               /\ req'.at \in Nat /\ req'.from \in Nat /\ req'.n \in 1 .. f.len
                               /\ req'.at + req'.n <= f.len /\ req'.from + req'.n <= f.len
    BY <1>1, <1>6 DEF QuietCalls, ChangeCalls, WriteCalls, PutCalls, ResizeCalls, MoveCalls, Call
  <2>3. left' \in 0 .. SizeMax
    BY <1>1, <2>2
  <2>4. TypeOK' /\ LoopSound' /\ CallSound'
    BY <1>1, <1>3, <2>1, <2>2, <2>3 DEF TypeOK, LoopSound, CallSound
  <2>5. MoveSound' /\ ClosedSound' /\ ReadExact'
    BY <1>1, <1>3, <2>1, <2>2, <2>3 DEF MoveSound, ClosedSound, ReadExact
  <2>6. QED
    BY <1>2, <2>4, <2>5
<1>7. QED
  BY <1>4, <1>5, <1>6

LEMMA ReadKeeps == IInv /\ bf_read => IInv'
<1> SUFFICES ASSUME IInv, bf_read PROVE IInv'
  OBVIOUS
<1> USE SizeMaxAssumption, ChunkAssumption, XferMaxAssumption
<1>1. /\ FileSound(f') /\ ReadOnlyExact(f') /\ SameContents(f', f)
      /\ UNCHANGED <<req, left>>
      /\ io'.op = "read" /\ io'.at = io.at /\ io'.n = io.n
      /\ io'.k \in io.k + 1 .. io.n
      /\ io' \in Loops
      /\ \A j \in 0 .. io'.k - 1 : io'.b[j] = Cached(f', io.at + j)
  BY ReadStep
<1>2. /\ io.op = "read" /\ io \in Loops /\ io.n >= 1 /\ io.k < io.n /\ io.at + io.n <= f.len
      /\ FileSound(f)
  BY DEF bf_read, IInv, LoopSound
<1>3. f'.len = f.len /\ f'.writable = f.writable /\ f' \in File
  BY <1>1 DEF SameContents, FileSound
<1>4. TypeOK' /\ LoopSound'
  BY <1>1, <1>2, <1>3 DEF IInv, TypeOK, LoopSound
<1>5. CallSound'
  BY <1>1, <1>2, <1>3 DEF IInv, CallSound, NoLoop, Loop
<1>6. MoveSound'
  BY <1>1, <1>2, <1>3 DEF IInv, MoveSound, MoveOffset
<1>7. req.op # "closed"
  BY <1>2 DEF IInv, CallSound, NoLoop, Loop
<1>8. QED
  BY <1>1, <1>4, <1>5, <1>6, <1>7 DEF IInv, ClosedSound, ReadExact

LEMMA WriteKeeps == IInv /\ bf_write => IInv'
<1> SUFFICES ASSUME IInv, bf_write PROVE IInv'
  OBVIOUS
<1> USE SizeMaxAssumption, ChunkAssumption, XferMaxAssumption
<1>1. /\ FileSound(f') /\ f'.writable
      /\ UNCHANGED <<req, left>>
      /\ io'.op = "write" /\ io'.at = io.at /\ io'.n = io.n
      /\ io'.k \in io.k + 1 .. io.n
      /\ io' \in Loops
      /\ f'.len = MAX(f.len, io.at + io'.k)
  BY WriteStep
<1>2. /\ io.op = "write" /\ io \in Loops /\ io.n >= 1 /\ io.k < io.n /\ io.at + io.n <= SizeMax
      /\ f \in File /\ f.len \in 0 .. SizeMax
  BY DEF bf_write, IInv, LoopSound, FileSound, File
<1>3. f'.len \in Nat /\ f.len <= f'.len /\ io.at + io'.k <= f'.len
  BY <1>1, <1>2 DEF MAX, Loops
<1>4. TypeOK' /\ LoopSound'
  BY <1>1, <1>2, <1>3 DEF IInv, TypeOK, LoopSound, FileSound
<1>5. req.op \in {"write", "move"}
  BY <1>2 DEF IInv, TypeOK, CallSound, NoLoop, Loop
<1>6. CallSound'
  BY <1>1, <1>5 DEF CallSound
<1>7. MoveSound'
  BY <1>1, <1>2, <1>3, <1>5 DEF IInv, MoveSound, MoveOffset
<1>8. QED
  BY <1>1, <1>4, <1>5, <1>6, <1>7 DEF IInv, ClosedSound, ReadExact, ReadOnlyExact

LEMMA PutKeeps == IInv /\ bf_put => IInv'
<1> SUFFICES ASSUME IInv, bf_put PROVE IInv'
  OBVIOUS
<1>1. FileSound(f') /\ f'.writable
  BY PutStep
<1>2. req' = Idle /\ io' = io /\ left' = left /\ req.op = "put"
  BY DEF bf_put
<1>3. io = NoLoop /\ io \in Loops /\ left = 0 /\ left \in 0 .. SizeMax
  BY <1>2 DEF IInv, CallSound, LoopSound, MoveSound, TypeOK
<1>4. QED
  BY <1>1, <1>2, <1>3 DEF IInv, FileSound, ReadOnlyExact, TypeOK, LoopSound, CallSound,
     MoveSound, ClosedSound, ReadExact, Idle, Call, NoLoop, Loop

(* A call without a loop that leaves the handle sound and returns.         *)
LEMMA PlainKeeps ==
  ASSUME IInv, req.op \in {"resize", "dropcache", "close"},
         FileSound(f'), ReadOnlyExact(f'), UNCHANGED <<io, left>>,
         \/ req' = Idle
         \/ /\ req' = Closed
            /\ f'.disklen = f'.len
            /\ \A i \in Offset : f'.disk[i] = IF i < f'.len THEN Cached(f', i) ELSE Zero
  PROVE  IInv'
<1>1. io = NoLoop /\ io \in Loops /\ left = 0 /\ left \in 0 .. SizeMax
  BY DEF IInv, CallSound, LoopSound, MoveSound, TypeOK
<1>2. req'.op \in {"idle", "closed"} /\ (req'.op = "idle" => req' = Idle)
  BY DEF Idle, Closed, Call
<1>3. ClosedSound'
  BY DEF ClosedSound, Idle, Call
<1>4. QED
  BY <1>1, <1>2, <1>3 DEF IInv, FileSound, TypeOK, LoopSound, CallSound, MoveSound, ReadExact,
     NoLoop, Loop

LEMMA ResizeKeeps == IInv /\ Resize => IInv'
<1> SUFFICES ASSUME IInv, Resize PROVE IInv'
  OBVIOUS
<1>1. f.writable /\ req.n \in 0 .. f.len /\ FileSound(f)
  BY DEF Resize, IInv, CallSound
<1>2. FileSound(f') /\ f'.writable
  BY <1>1, ResizeSound DEF Resize
<1>3. QED
  BY <1>2, PlainKeeps DEF Resize, ReadOnlyExact

LEMMA DropCacheKeeps == IInv /\ DropCache => IInv'
<1> SUFFICES ASSUME IInv, DropCache PROVE IInv'
  OBVIOUS
<1>1. FileSound(f) /\ ReadOnlyExact(f)
  BY DEF IInv
<1>2. FileSound(f') /\ ReadOnlyExact(f')
  BY <1>1, BareSound, ReadOnlyKept DEF DropCache, bf_dropcache, Bare
<1>3. QED
  BY <1>2, PlainKeeps DEF DropCache

LEMMA CloseKeeps == IInv /\ Close => IInv'
<1> SUFFICES ASSUME IInv, Close PROVE IInv'
  OBVIOUS
<1>1. FileSound(f) /\ ReadOnlyExact(f) /\ f' = bf_close(f) /\ req' = Closed
  BY DEF IInv, Close
<1>2. /\ FileSound(f') /\ SameContents(f', f)
      /\ f.writable => f'.disklen = f'.len
      /\ \A i \in Offset : f'.disk[i] = IF i < f.len THEN Cached(f, i) ELSE Zero
  BY <1>1, CloseSound
<1>3. ReadOnlyExact(f') /\ f'.writable = f.writable /\ f'.len = f.len
  BY <1>1, <1>2, ReadOnlyKept DEF SameContents
<1>4. /\ f'.disklen = f'.len
      /\ \A i \in Offset : f'.disk[i] = IF i < f'.len THEN Cached(f', i) ELSE Zero
  BY <1>2, <1>3 DEF ReadOnlyExact, SameContents
<1>5. UNCHANGED <<io, left>> /\ req.op = "close"
  BY DEF Close
<1>6. QED
  BY <1>1, <1>2, <1>3, <1>4, <1>5, PlainKeeps

LEMMA MetaKeeps == IInv /\ bf_readmeta => IInv'
<1> SUFFICES ASSUME IInv, bf_readmeta PROVE IInv'
  OBVIOUS
<1> USE SizeMaxAssumption, ChunkAssumption, XferMaxAssumption, ZeroAssumption
<1>1. /\ FileSound(f) /\ ReadOnlyExact(f) /\ f \in File
      /\ req.op = "meta" /\ io.op = "none" /\ UNCHANGED <<req, left>>
      /\ req.at \in Nat /\ req.n \in 1 .. Chunk /\ req.at + req.n <= f.len
      /\ f.len \in 0 .. SizeMax /\ left = 0
  BY DEF IInv, bf_readmeta, CallSound, MoveSound, FileSound, File
<1>2. /\ FileSound(f') /\ ReadOnlyExact(f') /\ SameContents(f', f)
      /\ io'.op = "read" /\ io'.at = req.at /\ io'.n = req.n /\ io'.k \in 0 .. req.n
      /\ io' \in Loops
      /\ \A j \in 0 .. io'.k - 1 : io'.b[j] = Cached(f', req.at + j)
  <2>1. CASE f.memory \/ f.mapped
    <3>1. f' = f /\ io' = Loop("read", req.at, req.n, 0, NoBytes)
      BY <2>1 DEF bf_readmeta
    <3>2. QED
      BY <1>1, <3>1 DEF SameContents, Loop, Loops, NoBytes, Payload
  <2>2. CASE ~(f.memory \/ f.mapped)
    <3> DEFINE b == [j \in 0 .. XferMax - 1 |->
                       IF j < req.n THEN f'.disk[req.at + j] ELSE Zero]
    <3>1. f' = bf_flush(f) /\ io' = Loop("read", req.at, req.n, req.n, b)
      BY <2>2 DEF bf_readmeta, MetaFile
    <3>2. /\ FileSound(f') /\ ReadOnlyExact(f') /\ SameContents(f', f) /\ ~f'.dirty
          /\ f'.len = f.len /\ f' \in File
      BY <1>1, <3>1, FlushSound, ReadOnlyKept DEF SameContents, FileSound
    <3>3. \A j \in 0 .. req.n - 1 : req.at + j \in Offset /\ req.at + j < f.len
      BY <1>1 DEF Offset
    <3>4. \A j \in 0 .. req.n - 1 : f'.disk[req.at + j] = Cached(f', req.at + j)
      BY <3>2, <3>3 DEF FileSound, DiskSound
    <3>5. \A j \in 0 .. req.n - 1 : f'.disk[req.at + j] \in Byte
      BY <3>2, <3>3 DEF File
    <3>6. \A j \in 0 .. XferMax - 1 : b[j] \in Byte
      BY <1>1, <3>5
    <3>7. b \in Payload /\ \A j \in 0 .. req.n - 1 : b[j] = f'.disk[req.at + j]
      BY <1>1, <3>6 DEF Payload
    <3> HIDE DEF b
    <3>8. QED
      BY <1>1, <3>1, <3>2, <3>4, <3>7 DEF Loop, Loops
  <2>3. QED
    BY <2>1, <2>2
<1>3. f'.len = f.len /\ f'.writable = f.writable /\ f' \in File
  BY <1>2 DEF SameContents, FileSound
<1>4. TypeOK' /\ LoopSound' /\ CallSound' /\ MoveSound'
  BY <1>1, <1>2, <1>3 DEF IInv, TypeOK, LoopSound, CallSound, MoveSound
<1>5. QED
  BY <1>1, <1>2, <1>4 DEF IInv, ClosedSound, ReadExact

(* The steps of bf_move hand the bytes from one loop to the next.          *)
LEMMA MoveKeeps == IInv /\ (bf_move_read \/ bf_move_write \/ bf_move_next) => IInv'
<1> SUFFICES ASSUME IInv, bf_move_read \/ bf_move_write \/ bf_move_next PROVE IInv'
  OBVIOUS
<1> USE SizeMaxAssumption, ChunkAssumption, XferMaxAssumption, ZeroAssumption
<1>1. /\ req.op = "move" /\ UNCHANGED <<f, req>>
      /\ f.writable /\ f.len \in 0 .. SizeMax
      /\ req.at \in Nat /\ req.from \in Nat /\ req.n \in Nat
      /\ req.at + req.n <= f.len /\ req.from + req.n <= f.len
      /\ left \in 0 .. req.n
      /\ io.op # "none" => left > 0 /\ io.n = MIN(left, Chunk)
      /\ io.op = "read" => io.at = req.from + MoveOffset(io.n)
      /\ io.op = "write" => io.at = req.at + MoveOffset(io.n)
      /\ io \in Loops
  BY DEF IInv, bf_move_read, bf_move_write, bf_move_next, MoveSound, FileSound, File, LoopSound
<1>2. /\ FileSound(f') /\ ReadOnlyExact(f') /\ CallSound' /\ ClosedSound'
      /\ f' \in File /\ req'.op = "move"
  BY <1>1 DEF IInv, CallSound, ClosedSound, FileSound
<1>3. \A t \in 1 .. left : MoveOffset(t) \in Nat /\ MoveOffset(t) + t <= req.n
  BY <1>1 DEF MoveOffset
<1>4. NoLoop \in Loops /\ NoBytes \in Payload
  BY DEF NoLoop, NoBytes, Loop, Loops, Payload
<1>5. CASE bf_move_read
  <2> DEFINE t == MIN(left, Chunk)
             x == MoveOffset(t)
  <2>1. t \in 1 .. left /\ t <= XferMax /\ left' = left
    BY <1>1, <1>5 DEF bf_move_read, MIN
  <2>2. io' = Loop("read", req.from + x, t, 0, NoBytes)
    BY <1>5 DEF bf_move_read
  <2>3. x \in Nat /\ x + t <= req.n /\ x' = x
    BY <1>1, <1>3, <2>1 DEF MoveOffset
  <2>4. t' = t
    BY <2>1
  <2>5. MoveOffset(t)' = x
    BY <1>1, <2>1 DEF MoveOffset
  <2> HIDE DEF x, t
  <2>6. /\ io' \in Loops /\ io'.op = "read" /\ io'.n = t /\ io'.k = 0 /\ io'.at = req.from + x
    BY <1>1, <1>4, <2>1, <2>2, <2>3 DEF Loop, Loops
  <2>7. TypeOK' /\ LoopSound' /\ ReadExact'
    BY <1>1, <1>2, <2>1, <2>3, <2>6 DEF IInv, TypeOK, LoopSound, ReadExact
  <2>8. MoveSound'
    BY <1>1, <1>2, <2>1, <2>5, <2>6 DEF MoveSound, MoveOffset, t, x
  <2>9. QED
    BY <1>2, <2>7, <2>8 DEF IInv
<1>6. CASE bf_move_write
  <2> DEFINE x == MoveOffset(io.n)
  <2>1. /\ io.op = "read" /\ left' = left
        /\ io' = Loop("write", req.at + x, io.n, 0, io.b)
    BY <1>6 DEF bf_move_write
  <2>2. io.n = MIN(left, Chunk) /\ io.n \in 1 .. left /\ x \in Nat /\ x + io.n <= req.n
    BY <1>1, <1>3, <2>1 DEF MIN
  <2>3. x \in Int /\ x = IF req.at > req.from THEN left - io.n ELSE req.n - left
    BY <2>2 DEF MoveOffset
  <2> HIDE DEF x
  <2>4. /\ io' \in Loops /\ io'.op = "write" /\ io'.n = io.n /\ io'.k = 0 /\ io'.at = req.at + x
    BY <1>1, <2>1, <2>2 DEF Loop, Loops
  <2>5. TypeOK' /\ LoopSound' /\ ReadExact'
    BY <1>1, <1>2, <2>1, <2>2, <2>4 DEF IInv, TypeOK, LoopSound, ReadExact
  <2>6. MoveSound'
    BY <1>1, <1>2, <2>1, <2>2, <2>3, <2>4 DEF MoveSound, MoveOffset
  <2>7. QED
    BY <1>2, <2>5, <2>6 DEF IInv
<1>7. CASE bf_move_next
  <2>1. io.op = "write" /\ left' = left - io.n /\ io' = NoLoop
    BY <1>7 DEF bf_move_next
  <2>2. left' \in 0 .. left /\ left' \in 0 .. SizeMax
    BY <1>1, <2>1 DEF MIN
  <2>3. TypeOK' /\ LoopSound' /\ ReadExact' /\ MoveSound'
    BY <1>1, <1>2, <1>4, <2>1, <2>2
    DEF IInv, TypeOK, LoopSound, ReadExact, MoveSound, NoLoop, Loop
  <2>4. QED
    BY <1>2, <2>3 DEF IInv
<1>8. QED
  BY <1>5, <1>6, <1>7

LEMMA ReturnKeeps == IInv /\ Return => IInv'
<1> SUFFICES ASSUME IInv, Return PROVE IInv'
  OBVIOUS
<1>1. req' = Idle /\ io' = NoLoop /\ UNCHANGED <<f, left>> /\ req'.op = "idle"
  BY DEF Return, Idle, Call
<1>2. left = 0
  BY DEF IInv, MoveSound, Return
<1>3. NoLoop \in Loops /\ NoLoop.op = "none"
  BY SizeMaxAssumption, XferMaxAssumption, ChunkAssumption, ZeroAssumption
  DEF NoLoop, NoBytes, Loop, Loops, Payload
<1>4. QED
  BY <1>1, <1>2, <1>3 DEF IInv, FileSound, ReadOnlyExact, TypeOK, LoopSound, CallSound,
     MoveSound, ClosedSound, ReadExact

LEMMA NextIInv == IInv /\ [Next]_vars => IInv'
<1> SUFFICES ASSUME IInv, [Next]_vars PROVE IInv'
  OBVIOUS
<1>1. CASE UNCHANGED vars
  BY <1>1 DEF vars, IInv, FileSound, ReadOnlyExact, WindowSound, DiskSound, TypeOK, LoopSound,
     CallSound, MoveSound, MoveOffset, ClosedSound, ReadExact
<1>2. CASE Next
  BY <1>2, BeginKeeps, ReadKeeps, WriteKeeps, PutKeeps, MetaKeeps, MoveKeeps, ResizeKeeps,
     DropCacheKeeps, CloseKeeps, ReturnKeeps DEF Next, Step
<1>3. QED
  BY <1>1, <1>2

LEMMA Inductive == Spec => []IInv
BY InitIInv, NextIInv, PTL DEF Spec

-----------------------------------------------------------------------------
(* The handle and the loop variables of file.c keep their types, whatever  *)
(* the client asks and however the system answers a mapping.               *)
THEOREM TypeCorrect == Spec => []TypeOK
<1>1. IInv => TypeOK
  BY DEF IInv
<1>2. QED
  BY <1>1, Inductive, PTL

(* The window of file.c always starts on a chunk, has every byte of the    *)
(* contents the chunk has, and lies on the disk when it is mapped.         *)
THEOREM WindowIsExact == Spec => []WindowExact
<1>1. IInv => WindowExact
  BY DEF IInv, FileSound, WindowExact
<1>2. QED
  BY <1>1, Inductive, PTL

(* What no dirty window of file.c holds is on the disk, and past the end   *)
(* of the contents the disk is blank.                                      *)
THEOREM DiskIsBehind == Spec => []DiskBehind
<1>1. IInv => DiskBehind
  BY DEF IInv, FileSound, DiskBehind
<1>2. QED
  BY <1>1, Inductive, PTL

(* Every byte bf_read and bf_readmeta of file.c copy out is the byte the   *)
(* file holds at that offset.                                              *)
THEOREM ReadIsExact == Spec => []ReadExact
<1>1. IInv => ReadExact
  BY DEF IInv
<1>2. QED
  BY <1>1, Inductive, PTL

-----------------------------------------------------------------------------
(* The windowed file implements the byte string of module ByteFile: a call *)
(* of the client takes its whole effect when it is made, every step of a   *)
(* loop of file.c keeps what has been promised, and close leaves that on   *)
(* the disk.                                                               *)

(* The bytes the client is promised, and what the disk holds in the end,   *)
(* as module Contents is told of them.                                     *)
PromisedBytes == [i \in Offset |-> IF i < PromisedLen THEN Promised(i) ELSE Zero]

SavedFile == IF req.op = "closed" THEN [len |-> f.disklen, bytes |-> f.disk]
             ELSE [len |-> 0, bytes |-> [i \in Offset |-> Zero]]

(* Past its end a file reads as zeros, whatever window is open.            *)
LEMMA Blank ==
  ASSUME NEW h, FileSound(h)
  PROVE  \A i \in Offset : i >= h.len => Cached(h, i) = Zero
BY SizeMaxAssumption, ChunkAssumption
DEF FileSound, File, WindowSound, DiskSound, Cached, In, MIN, Offset

(* Where no call is in progress that changes the file, the promise is what *)
(* the file holds.                                                         *)
LEMMA QuietPromise ==
  ASSUME IInv, req.op \notin {"put", "resize", "move"}, io.op # "write"
  PROVE  PromisedLen = f.len /\ \A i \in Offset : Promised(i) = Cached(f, i)
BY DEF PromisedLen, Promised

(* What bf_move has still to copy lies inside the region it moves, and     *)
(* inside the file it comes from.                                          *)
LEMMA ToMoveInside ==
  ASSUME IInv, req.op = "move"
  PROVE  /\ req.at \in Nat /\ req.from \in Nat /\ req.n \in Nat /\ left \in 0 .. req.n
         /\ req.at + req.n <= f.len /\ req.from + req.n <= f.len /\ f.len \in 0 .. SizeMax
         /\ io.op # "none" => io.n \in 1 .. left
         /\ ToMove \subseteq 0 .. req.n - 1
         /\ \A j \in ToMove : j \in 0 .. req.n - 1 /\ req.from + j \in Offset
<1> USE SizeMaxAssumption, ChunkAssumption
<1>1. /\ req.at \in Nat /\ req.from \in Nat /\ req.n \in Nat /\ left \in 0 .. req.n
      /\ req.at + req.n <= f.len /\ req.from + req.n <= f.len /\ f.len \in 0 .. SizeMax
      /\ io.op # "none" => left > 0 /\ io.n = MIN(left, Chunk)
  BY DEF IInv, MoveSound, FileSound, File
<1>2. io.op # "none" => io.n \in 1 .. left
  BY <1>1 DEF MIN
<1>3. ToMove \subseteq 0 .. req.n - 1
  BY <1>1, <1>2 DEF ToMove
<1>4. \A j \in 0 .. req.n - 1 : req.from + j \in Offset
  BY <1>1 DEF Offset
<1>5. QED
  BY <1>1, <1>2, <1>3, <1>4

(* Nothing but zeros is promised past the promised length.                 *)
LEMMA PromiseBlank ==
  ASSUME IInv
  PROVE  /\ PromisedLen \in 0 .. SizeMax
         /\ \A i \in Offset : Promised(i) \in Byte /\ (i >= PromisedLen => Promised(i) = Zero)
<1> USE SizeMaxAssumption, ChunkAssumption, XferMaxAssumption, ZeroAssumption
<1>1. FileSound(f) /\ f \in File /\ f.len \in 0 .. SizeMax
  BY DEF IInv, FileSound, File
<1>2. \A i \in Offset : Cached(f, i) \in Byte /\ (i >= f.len => Cached(f, i) = Zero)
  BY <1>1, CachedByte, Blank
<1>3. CASE req.op = "put"
  <2>1. f.len < SizeMax /\ req.b \in Payload /\ io.op = "none"
    BY <1>3 DEF IInv, CallSound, NoLoop, Loop
  <2>2. req.b[0] \in Byte
    BY <2>1 DEF Payload
  <2>3. PromisedLen = f.len + 1
    BY <1>3, <2>1 DEF PromisedLen
  <2>4. \A i \in Offset : Promised(i) = IF i = f.len THEN req.b[0] ELSE Cached(f, i)
    BY <1>3, <2>1 DEF Promised
  <2>5. QED
    BY <1>1, <1>2, <2>1, <2>2, <2>3, <2>4 DEF Offset
<1>4. CASE req.op = "resize"
  <2>1. req.n \in 0 .. f.len /\ io.op = "none"
    BY <1>4 DEF IInv, CallSound, NoLoop, Loop
  <2>2. PromisedLen = req.n
    BY <1>4, <2>1 DEF PromisedLen
  <2>3. \A i \in Offset : Promised(i) = IF i >= req.n THEN Zero ELSE Cached(f, i)
    BY <1>4, <2>1 DEF Promised
  <2>4. QED
    BY <1>1, <1>2, <2>1, <2>2, <2>3
<1>5. CASE req.op \notin {"put", "resize"}
  <2>1. io \in Loops
    BY DEF IInv, LoopSound
  <2>2. CASE io.op = "write"
    <3>1. io.at \in Nat /\ io.n \in 1 .. XferMax /\ io.k \in 0 .. io.n /\ io.b \in Payload
          /\ io.at + io.n <= SizeMax
      BY <2>1, <2>2 DEF IInv, LoopSound, Loops
    <3>2. PromisedLen = MAX(f.len, io.at + io.n)
      BY <1>5, <2>2 DEF PromisedLen
    <3>3. \A i \in Offset : In(i, io.at + io.k, io.n - io.k) =>
            i < io.at + io.n /\ io.b[i - io.at] \in Byte
      BY <3>1 DEF In, Payload, Offset
    <3>4. ASSUME NEW i \in Offset, req.op = "move", i - req.at \in ToMove
          PROVE  i < f.len /\ Cached(f, req.from + i - req.at) \in Byte
      <4>1. req.from + (i - req.at) \in Offset /\ i < f.len
        BY <3>4, ToMoveInside DEF Offset
      <4>2. req.from + (i - req.at) = req.from + i - req.at
        BY <3>4, ToMoveInside DEF Offset
      <4>3. QED
        BY <4>1, <4>2, <1>2
    <3>5. QED
      BY <1>1, <1>2, <1>5, <2>2, <3>1, <3>2, <3>3, <3>4 DEF Promised, MAX, Offset
  <2>3. CASE io.op # "write"
    <3>1. PromisedLen = f.len
      BY <1>5, <2>3 DEF PromisedLen
    <3>2. ASSUME NEW i \in Offset, req.op = "move", i - req.at \in ToMove
          PROVE  i < f.len /\ Cached(f, req.from + i - req.at) \in Byte
      <4>1. req.from + (i - req.at) \in Offset /\ i < f.len
        BY <3>2, ToMoveInside DEF Offset
      <4>2. req.from + (i - req.at) = req.from + i - req.at
        BY <3>2, ToMoveInside DEF Offset
      <4>3. QED
        BY <4>1, <4>2, <1>2
    <3>3. QED
      BY <1>1, <1>2, <1>5, <2>3, <3>1, <3>2 DEF Promised, Offset
  <2>4. QED
    BY <2>2, <2>3
<1>6. QED
  BY <1>3, <1>4, <1>5

(* So the promised bytes are the promise, byte for byte.                   *)
LEMMA PromiseExact == IInv => PromisedBytes = [i \in Offset |-> Promised(i)]
<1> SUFFICES ASSUME IInv PROVE PromisedBytes = [i \in Offset |-> Promised(i)]
  OBVIOUS
<1>1. \A i \in Offset : ~(i < PromisedLen) => Promised(i) = Zero
  BY PromiseBlank, SizeMaxAssumption DEF Offset
<1>2. QED
  BY <1>1 DEF PromisedBytes

LEMMA PromiseExactNext == IInv' => PromisedBytes' = [i \in Offset |-> Promised(i)']
<1>1. (IInv => PromisedBytes = [i \in Offset |-> Promised(i)])'
  BY PromiseExact, PTL
<1>2. QED
  BY <1>1

-----------------------------------------------------------------------------
(* A step that changes neither the call nor what is promised of it is a    *)
(* stutter of the byte string.                                             *)
LEMMA PromiseKept ==
  ASSUME req' = req, req.op # "closed",
         PromisedLen' = PromisedLen, \A i \in Offset : Promised(i)' = Promised(i)
  PROVE  UNCHANGED <<PromisedLen, PromisedBytes, req, SavedFile>>
<1>1. PromisedBytes' = PromisedBytes
  BY DEF PromisedBytes
<1>2. SavedFile' = SavedFile
  BY DEF SavedFile
<1>3. QED
  BY <1>1, <1>2

(* The call is made, and its effect with it.                               *)
LEMMA BeginTakesEffect ==
  ASSUME IInv, Begin
  PROVE  /\ PromisedLen = f.len /\ PromisedLen' = Contents!LenAfter(req', f.len)
         /\ \A i \in Offset : /\ Promised(i) = Cached(f, i)
                              /\ Promised(i)' = Contents!BytesAfter(req', PromisedBytes)[i]
         /\ req'.op # "closed"
         /\ req' \in QuietCalls(f.len) \cup ChangeCalls(f.len)
<1> USE SizeMaxAssumption, ChunkAssumption, XferMaxAssumption
<1>1. /\ req = Idle /\ req.op = "idle" /\ f' = f /\ f \in File /\ f.len \in 0 .. SizeMax
      /\ left' = IF req'.op = "move" THEN req'.n ELSE 0
      /\ io' = IF req'.op \in {"read", "write"} THEN Loop(req'.op, req'.at, req'.n, 0, req'.b)
               ELSE NoLoop
      /\ req' \in QuietCalls(f.len) \cup ChangeCalls(f.len)
  BY DEF Begin, IInv, FileSound, File, Idle, Call
<1>2. io.op = "none"
  BY <1>1 DEF IInv, CallSound, NoLoop, Loop
<1>3. PromisedLen = f.len /\ \A i \in Offset : Promised(i) = Cached(f, i)
  BY <1>1, <1>2, QuietPromise
<1>4. PromisedBytes = [i \in Offset |-> Cached(f, i)]
  BY <1>3, PromiseExact
<1>5. \A i \in Offset : Contents!BytesAfter(req', PromisedBytes)[i] =
        CASE req'.op \in {"write", "put"} /\ In(i, req'.at, req'.n) -> req'.b[i - req'.at]
          [] req'.op = "move" /\ In(i, req'.at, req'.n) -> PromisedBytes[req'.from + i - req'.at]
          [] req'.op = "resize" /\ i >= req'.n -> Zero
          [] OTHER -> PromisedBytes[i]
  BY DEF Contents!BytesAfter, Contents!In, In, Contents!Offset, Offset
<1>6. Contents!LenAfter(req', f.len) =
        CASE req'.op \in {"write", "put"} -> MAX(f.len, req'.at + req'.n)
          [] req'.op = "resize"           -> req'.n
          [] OTHER                        -> f.len
  BY DEF Contents!LenAfter, Contents!MAX, MAX
<1>7. f'.len = f.len /\ \A i \in Offset : Cached(f', i) = Cached(f, i)
  BY <1>1
<1>8. CASE req'.op = "write"
  <2>1. io' = Loop("write", req'.at, req'.n, 0, req'.b) /\ req'.at \in Nat /\ req'.n \in Nat
    BY <1>1, <1>8
    DEF QuietCalls, ChangeCalls, WriteCalls, PutCalls, ResizeCalls, MoveCalls, Call
  <2>2. io'.op = "write" /\ io'.at = req'.at /\ io'.n = req'.n /\ io'.k = 0 /\ io'.b = req'.b
    BY <2>1 DEF Loop
  <2>3. io'.at + io'.k = req'.at /\ io'.n - io'.k = req'.n
    BY <2>1, <2>2
  <2>4. PromisedLen' = MAX(f.len, req'.at + req'.n)
    BY <1>7, <1>8, <2>2 DEF PromisedLen
  <2>5. \A i \in Offset : Promised(i)' = IF In(i, req'.at, req'.n) THEN req'.b[i - req'.at]
                                         ELSE Cached(f, i)
    BY <1>7, <1>8, <2>2, <2>3 DEF Promised
  <2>6. QED
    BY <1>1, <1>3, <1>4, <1>5, <1>6, <1>8, <2>4, <2>5
<1>9. CASE req'.op # "write"
  <2>1. io'.op # "write"
    BY <1>1, <1>9 DEF Loop, NoLoop
  <2>2. CASE req'.op = "put"
    <3>1. req'.at = f.len /\ req'.n = 1
      BY <1>1, <2>2
      DEF QuietCalls, ChangeCalls, WriteCalls, PutCalls, ResizeCalls, MoveCalls, Call
    <3>2. PromisedLen' = f.len + 1 /\ MAX(f.len, f.len + 1) = f.len + 1
      BY <1>1, <1>7, <2>1, <2>2 DEF PromisedLen, MAX
    <3>3. \A i \in Offset : Promised(i)' = IF i = f.len THEN req'.b[0] ELSE Cached(f, i)
      BY <1>7, <2>1, <2>2 DEF Promised
    <3>4. \A i \in Offset : (In(i, f.len, 1) <=> i = f.len) /\ (i = f.len => i - f.len = 0)
      BY <1>1 DEF In, Offset
    <3>5. QED
      BY <1>1, <1>3, <1>4, <1>5, <1>6, <2>2, <3>1, <3>2, <3>3, <3>4
  <2>3. CASE req'.op = "resize"
    <3>1. PromisedLen' = req'.n
      BY <2>1, <2>3 DEF PromisedLen
    <3>2. \A i \in Offset : Promised(i)' = IF i >= req'.n THEN Zero ELSE Cached(f, i)
      BY <1>7, <2>1, <2>3 DEF Promised
    <3>3. QED
      BY <1>1, <1>3, <1>4, <1>5, <1>6, <2>3, <3>1, <3>2
  <2>4. CASE req'.op = "move"
    <3>1. /\ req'.at \in Nat /\ req'.from \in Nat /\ req'.n \in Nat
          /\ req'.at + req'.n <= f.len /\ req'.from + req'.n <= f.len
      BY <1>1, <2>4
      DEF QuietCalls, ChangeCalls, WriteCalls, PutCalls, ResizeCalls, MoveCalls, Call
    <3>2. left' = req'.n
      BY <1>1, <2>4
    <3>3. ToMove' = 0 .. req'.n - 1
      BY <2>1, <3>1, <3>2 DEF ToMove
    <3>4. \A i \in Offset : i - req'.at \in 0 .. req'.n - 1 <=> In(i, req'.at, req'.n)
      BY <3>1 DEF In, Offset
    <3>5. \A i \in Offset : In(i, req'.at, req'.n) => req'.from + i - req'.at \in Offset
      BY <1>1, <3>1 DEF In, Offset
    <3>6. PromisedLen' = f.len
      BY <1>7, <2>1, <2>4 DEF PromisedLen
    <3>7. \A i \in Offset : Promised(i)' = IF In(i, req'.at, req'.n)
                                           THEN Cached(f, req'.from + i - req'.at)
                                           ELSE Cached(f, i)
      BY <1>1, <1>7, <2>1, <2>4, <3>3, <3>4 DEF Promised
    <3>8. QED
      BY <1>1, <1>3, <1>4, <1>5, <1>6, <2>4, <3>5, <3>6, <3>7
  <2>5. CASE req'.op \notin {"put", "resize", "move"}
    <3>1. PromisedLen' = f.len /\ \A i \in Offset : Promised(i)' = Cached(f, i)
      BY <1>7, <2>1, <2>5 DEF PromisedLen, Promised
    <3>2. req'.op # "closed"
      BY <1>1, <2>5
      DEF QuietCalls, ChangeCalls, WriteCalls, PutCalls, ResizeCalls, MoveCalls, Call
    <3>3. QED
      BY <1>1, <1>3, <1>4, <1>5, <1>6, <1>9, <2>5, <3>1, <3>2
  <2>6. QED
    BY <2>2, <2>3, <2>4, <2>5
<1>10. QED
  BY <1>8, <1>9

(* A window's worth of a read: the promise rests on the same bytes.        *)
LEMMA ReadKeepsPromise ==
  ASSUME IInv, bf_read
  PROVE  /\ req.op # "closed" /\ req' = req
         /\ PromisedLen' = PromisedLen /\ \A i \in Offset : Promised(i)' = Promised(i)
<1>1. /\ SameContents(f', f) /\ UNCHANGED <<req, left>>
      /\ io'.op = "read" /\ io.op = "read"
  BY ReadStep DEF bf_read
<1>2. req.op \notin {"put", "resize", "closed"}
  BY <1>1 DEF IInv, CallSound, NoLoop, Loop
<1>3. PromisedLen' = PromisedLen
  BY <1>1, <1>2 DEF PromisedLen, SameContents
<1>4. ASSUME NEW i \in Offset PROVE Promised(i)' = Promised(i)
  <2>1. Cached(f', i) = Cached(f, i) /\ ToMove' = ToMove
    BY <1>1 DEF SameContents, ToMove
  <2>2. CASE req.op = "move" /\ i - req.at \in ToMove
    <3>1. req.from + (i - req.at) \in Offset /\ req.from + (i - req.at) = req.from + i - req.at
      BY <2>2, ToMoveInside DEF Offset
    <3>2. Cached(f', req.from + i - req.at) = Cached(f, req.from + i - req.at)
      BY <1>1, <3>1 DEF SameContents
    <3>3. QED
      BY <1>1, <2>1, <2>2, <3>2 DEF Promised
  <2>3. CASE ~(req.op = "move" /\ i - req.at \in ToMove)
    BY <1>1, <1>2, <2>1, <2>3 DEF Promised
  <2>4. QED
    BY <2>2, <2>3
<1>5. QED
  BY <1>1, <1>2, <1>3, <1>4

(* A step of bf_readmeta.                                                  *)
LEMMA MetaKeepsPromise ==
  ASSUME IInv, bf_readmeta
  PROVE  /\ req.op # "closed" /\ req' = req
         /\ PromisedLen' = PromisedLen /\ \A i \in Offset : Promised(i)' = Promised(i)
<1>1. req.op = "meta" /\ io.op = "none" /\ req' = req /\ io'.op = "read" /\ FileSound(f)
  BY DEF bf_readmeta, IInv, Loop
<1>2. SameContents(f', f)
  <2>1. CASE f' = f
    BY <2>1 DEF SameContents
  <2>2. CASE f' = bf_flush(f)
    BY <1>1, <2>2, FlushSound
  <2>3. QED
    BY <2>1, <2>2 DEF bf_readmeta, MetaFile
<1>3. PromisedLen = f.len /\ PromisedLen' = f'.len
  BY <1>1 DEF PromisedLen
<1>4. \A i \in Offset : Promised(i) = Cached(f, i) /\ Promised(i)' = Cached(f', i)
  BY <1>1 DEF Promised
<1>5. QED
  BY <1>1, <1>2, <1>3, <1>4 DEF SameContents

(* What bf_write has still to write does not overlap what bf_move has      *)
(* still to read: the reason why a move goes from the end when the bytes   *)
(* move up.                                                                *)
LEMMA NotYetOverwritten ==
  ASSUME IInv, req.op = "move", io.op = "write", NEW j \in ToMove
  PROVE  /\ ~In(req.from + j, io.at, io.n)
         /\ ~In(req.at + j, io.at, io.n)
<1>1. /\ req.at \in Nat /\ req.from \in Nat /\ req.n \in Nat /\ left \in 0 .. req.n
      /\ io.n \in 1 .. left
  BY ToMoveInside
<1>2. io.at = req.at + IF req.at > req.from THEN left - io.n ELSE req.n - left
  BY DEF IInv, MoveSound, MoveOffset
<1>3. CASE req.at > req.from
  <2>1. j \in 0 .. left - io.n - 1 /\ io.at = req.at + (left - io.n)
    BY <1>2, <1>3 DEF ToMove
  <2>2. QED
    BY <1>1, <1>3, <2>1 DEF In
<1>4. CASE ~(req.at > req.from)
  <2>1. j \in req.n - (left - io.n) .. req.n - 1 /\ io.at = req.at + (req.n - left)
    BY <1>2, <1>4 DEF ToMove
  <2>2. QED
    BY <1>1, <1>4, <2>1 DEF In
<1>5. QED
  BY <1>3, <1>4

(* A window's worth of a write: bytes that were promised are now there,    *)
(* and those a move has still to copy are still where they were.           *)
LEMMA WriteKeepsPromise ==
  ASSUME IInv, bf_write
  PROVE  /\ req.op # "closed" /\ req' = req
         /\ PromisedLen' = PromisedLen /\ \A i \in Offset : Promised(i)' = Promised(i)
<1> USE SizeMaxAssumption
<1>1. /\ UNCHANGED <<req, left>>
      /\ io'.op = "write" /\ io'.at = io.at /\ io'.n = io.n /\ io'.b = io.b
      /\ io'.k \in io.k + 1 .. io.n
      /\ f'.len = MAX(f.len, io.at + io'.k)
      /\ \A i \in Offset :
           Cached(f', i) = IF In(i, io.at + io.k, io'.k - io.k) THEN io.b[i - io.at]
                           ELSE Cached(f, i)
  BY WriteStep
<1>2. /\ io.op = "write" /\ io.at \in Nat /\ io.n \in Nat /\ io.k \in Nat
      /\ io.at + io.n <= SizeMax /\ f.len \in Nat
  BY DEF bf_write, IInv, LoopSound, Loops, FileSound, File
<1>3. req.op \notin {"put", "resize", "closed"}
  BY <1>2 DEF IInv, CallSound, NoLoop, Loop
<1>4. PromisedLen' = PromisedLen
  BY <1>1, <1>2, <1>3 DEF PromisedLen, MAX
<1>5. ASSUME NEW i \in Offset PROVE Promised(i)' = Promised(i)
  <2>1. ToMove' = ToMove
    BY <1>1, <1>2 DEF ToMove
  <2>2. CASE In(i, io.at + io'.k, io.n - io'.k)
    <3>1. In(i, io.at + io.k, io.n - io.k) /\ In(i, io.at, io.n)
      BY <2>2, <1>1, <1>2 DEF In, Offset
    <3>2. Promised(i) = io.b[i - io.at]
      BY <1>2, <1>3, <3>1 DEF Promised
    <3>3. Promised(i)' = io.b[i - io.at]
      BY <1>1, <1>3, <2>2, <3>1 DEF Promised
    <3>4. QED
      BY <3>2, <3>3
  <2>3. CASE In(i, io.at + io.k, io'.k - io.k)
    <3>1. /\ In(i, io.at + io.k, io.n - io.k) /\ In(i, io.at, io.n)
          /\ ~In(i, io.at + io'.k, io.n - io'.k)
      BY <2>3, <1>1, <1>2 DEF In, Offset
    <3>2. Promised(i) = io.b[i - io.at]
      BY <1>2, <1>3, <3>1 DEF Promised
    <3>3. Promised(i)' = Cached(f', i)
      BY <1>1, <1>3, <3>1 DEF Promised
    <3>4. QED
      BY <1>1, <2>3, <3>2, <3>3
  <2>4. CASE ~In(i, io.at + io.k, io.n - io.k)
    <3>1. ~In(i, io.at + io'.k, io.n - io'.k) /\ ~In(i, io.at + io.k, io'.k - io.k)
      BY <2>4, <1>1, <1>2 DEF In, Offset
    <3>2. Cached(f', i) = Cached(f, i)
      BY <1>1, <3>1
    <3>3. CASE req.op = "move" /\ i - req.at \in ToMove
      <4>1. /\ req.from + (i - req.at) \in Offset
            /\ req.from + (i - req.at) = req.from + i - req.at
            /\ req.at + (i - req.at) = i
        BY <3>3, ToMoveInside DEF Offset
      <4>2. ~In(req.from + (i - req.at), io.at, io.n) /\ ~In(i, io.at, io.n)
        BY <3>3, <4>1, <1>2, NotYetOverwritten
      <4>3. ~In(req.from + i - req.at, io.at + io.k, io'.k - io.k)
        BY <4>1, <4>2, <1>1, <1>2 DEF In, Offset
      <4>4. Cached(f', req.from + i - req.at) = Cached(f, req.from + i - req.at)
        BY <1>1, <4>1, <4>3
      <4>5. Promised(i) = Cached(f, req.from + i - req.at)
        BY <1>2, <3>3, <4>2, <2>4 DEF Promised
      <4>6. Promised(i)' = Cached(f', req.from + i - req.at)
        BY <1>1, <3>1, <3>3, <4>2, <2>1 DEF Promised
      <4>7. QED
        BY <4>4, <4>5, <4>6
    <3>4. CASE ~(req.op = "move" /\ i - req.at \in ToMove)
      <4>1. Promised(i) = Cached(f, i)
        BY <1>2, <1>3, <2>4, <3>4 DEF Promised
      <4>2. Promised(i)' = Cached(f', i)
        BY <1>1, <1>3, <3>1, <3>4, <2>1 DEF Promised
      <4>3. QED
        BY <3>2, <4>1, <4>2
    <3>5. QED
      BY <3>3, <3>4
  <2>5. i < io.at + io'.k \/ i >= io.at + io'.k
    BY <1>1, <1>2 DEF Offset
  <2>6. QED
    BY <2>2, <2>3, <2>4, <1>1, <1>2 DEF In, Offset
<1>6. QED
  BY <1>1, <1>3, <1>4, <1>5

(* The steps of bf_move between the loops.                                 *)
LEMMA MoveReadKeepsPromise ==
  ASSUME IInv, bf_move_read
  PROVE  /\ req.op # "closed" /\ req' = req
         /\ PromisedLen' = PromisedLen /\ \A i \in Offset : Promised(i)' = Promised(i)
<1>1. /\ req.op = "move" /\ io.op = "none" /\ UNCHANGED <<f, req, left>>
      /\ io' = Loop("read", io'.at, io'.n, 0, NoBytes)
  BY DEF bf_move_read, Loop
<1>2. io'.op = "read"
  BY <1>1 DEF Loop
<1>3. ToMove' = ToMove
  BY <1>1, <1>2 DEF ToMove
<1>4. PromisedLen' = PromisedLen
  BY <1>1, <1>2 DEF PromisedLen
<1>5. ASSUME NEW i \in Offset PROVE Promised(i)' = Promised(i)
  BY <1>1, <1>2, <1>3 DEF Promised
<1>6. QED
  BY <1>1, <1>4, <1>5

LEMMA MoveWriteKeepsPromise ==
  ASSUME IInv, bf_move_write
  PROVE  /\ req.op # "closed" /\ req' = req
         /\ PromisedLen' = PromisedLen /\ \A i \in Offset : Promised(i)' = Promised(i)
<1> DEFINE x == MoveOffset(io.n)
<1>1. /\ req.op = "move" /\ io.op = "read" /\ io.k = io.n /\ UNCHANGED <<f, req, left>>
      /\ io' = Loop("write", req.at + x, io.n, 0, io.b)
  BY DEF bf_move_write
<1>2. /\ req.at \in Nat /\ req.from \in Nat /\ req.n \in Nat /\ left \in 0 .. req.n
      /\ req.at + req.n <= f.len /\ req.from + req.n <= f.len /\ f.len \in 0 .. SizeMax
      /\ io.n \in 1 .. left
  BY <1>1, ToMoveInside
<1>3. io.at = req.from + x /\ x = IF req.at > req.from THEN left - io.n ELSE req.n - left
  BY <1>1 DEF IInv, MoveSound, MoveOffset
<1>4. x \in Nat /\ x + io.n <= req.n
  BY <1>2, <1>3
<1> HIDE DEF x
<1>5. /\ io'.op = "write" /\ io'.at = req.at + x /\ io'.n = io.n /\ io'.k = 0 /\ io'.b = io.b
      /\ io'.at + io'.k = req.at + x /\ io'.n - io'.k = io.n
  BY <1>1, <1>2, <1>4 DEF Loop
<1>6. \A j \in Int : /\ j \in ToMove <=> j \in ToMove' \/ In(j, x, io.n)
                     /\ ~(j \in ToMove' /\ In(j, x, io.n))
  <2>1. CASE req.at > req.from
    <3>1. ToMove = 0 .. left - 1 /\ ToMove' = 0 .. left - io.n - 1 /\ x = left - io.n
      BY <2>1, <1>1, <1>3, <1>5 DEF ToMove
    <3>2. QED
      BY <3>1, <1>2 DEF In
  <2>2. CASE ~(req.at > req.from)
    <3>1. /\ ToMove = req.n - left .. req.n - 1 /\ x = req.n - left
          /\ ToMove' = req.n - (left - io.n) .. req.n - 1
      BY <2>2, <1>1, <1>3, <1>5 DEF ToMove
    <3>2. QED
      BY <3>1, <1>2 DEF In
  <2>3. QED
    BY <2>1, <2>2
<1>7. PromisedLen' = PromisedLen
  BY <1>1, <1>2, <1>4, <1>5 DEF PromisedLen, MAX
<1>8. ASSUME NEW i \in Offset PROVE Promised(i)' = Promised(i)
  <2>1. i - req.at \in Int /\ (In(i - req.at, x, io.n) <=> In(i, req.at + x, io.n))
    BY <1>2, <1>4, SizeMaxAssumption DEF In, Offset
  <2>2. CASE In(i, req.at + x, io.n)
    <3>1. Promised(i)' = io.b[i - (req.at + x)]
      BY <1>1, <1>5, <2>2 DEF Promised
    <3>2. Promised(i) = Cached(f, req.from + i - req.at)
      BY <1>1, <1>6, <2>1, <2>2 DEF Promised
    <3>3. /\ i - (req.at + x) \in 0 .. io.k - 1
          /\ io.at + (i - (req.at + x)) = req.from + i - req.at
      BY <1>1, <1>2, <1>3, <1>4, <2>2, SizeMaxAssumption DEF In, Offset
    <3>4. io.b[i - (req.at + x)] = Cached(f, io.at + (i - (req.at + x)))
      BY <1>1, <3>3 DEF IInv, ReadExact
    <3>5. QED
      BY <3>1, <3>2, <3>3, <3>4
  <2>3. CASE ~In(i, req.at + x, io.n)
    <3>1. i - req.at \in ToMove <=> i - req.at \in ToMove'
      BY <1>6, <2>1, <2>3
    <3>2. QED
      BY <1>1, <1>5, <2>3, <3>1 DEF Promised
  <2>4. QED
    BY <2>2, <2>3
<1>9. QED
  BY <1>1, <1>7, <1>8

LEMMA MoveNextKeepsPromise ==
  ASSUME IInv, bf_move_next
  PROVE  /\ req.op # "closed" /\ req' = req
         /\ PromisedLen' = PromisedLen /\ \A i \in Offset : Promised(i)' = Promised(i)
<1>1. /\ req.op = "move" /\ io.op = "write" /\ io.k = io.n /\ UNCHANGED <<f, req>>
      /\ left' = left - io.n /\ io'.op = "none"
  BY DEF bf_move_next, NoLoop, Loop
<1>2. /\ req.at \in Nat /\ req.n \in Nat /\ left \in 0 .. req.n
      /\ f.len \in 0 .. SizeMax /\ io.n \in 1 .. left
  BY <1>1, ToMoveInside
<1>3. io.at \in Nat /\ io.at + io.n <= f.len
  BY <1>1, <1>2 DEF IInv, LoopSound, Loops
<1>4. ToMove' = ToMove
  BY <1>1 DEF ToMove
<1>5. PromisedLen' = PromisedLen
  BY <1>1, <1>2, <1>3 DEF PromisedLen, MAX
<1>6. ASSUME NEW i \in Offset PROVE Promised(i)' = Promised(i)
  <2>1. ~In(i, io.at + io.k, io.n - io.k)
    BY <1>1, <1>2, <1>3, SizeMaxAssumption DEF In, Offset
  <2>2. i - req.at \in ToMove => ~In(i, io.at, io.n)
    <3>1. req.at + (i - req.at) = i
      BY <1>2, SizeMaxAssumption DEF Offset
    <3>2. QED
      BY <1>1, <3>1, NotYetOverwritten
  <2>3. QED
    BY <1>1, <1>4, <2>1, <2>2 DEF Promised
<1>7. QED
  BY <1>1, <1>5, <1>6

(* A call that returns has kept its promise.                               *)
LEMMA ReturnKeepsPromise ==
  ASSUME IInv, Return
  PROVE  PromisedLen' = PromisedLen /\ \A i \in Offset : Promised(i)' = Promised(i)
<1> USE SizeMaxAssumption
<1>1. /\ req' = Idle /\ req'.op = "idle" /\ io' = NoLoop /\ io'.op = "none"
      /\ UNCHANGED <<f, left>> /\ f.len \in Nat
  BY DEF Return, Idle, Call, NoLoop, Loop, IInv, FileSound, File
<1>2. PromisedLen' = f.len /\ \A i \in Offset : Promised(i)' = Cached(f, i)
  BY <1>1 DEF PromisedLen, Promised
<1>3. CASE req.op \in {"read", "meta"} /\ io.op = "read"
  BY <1>2, <1>3, QuietPromise
<1>4. CASE req.op = "write" /\ io.k = io.n
  <2>1. io.op = "write" /\ io.at \in Nat /\ io.n \in Nat /\ io.at + io.n <= f.len
    BY <1>4 DEF IInv, CallSound, LoopSound, Loops
  <2>2. PromisedLen = f.len
    BY <1>1, <1>4, <2>1 DEF PromisedLen, MAX
  <2>3. \A i \in Offset : ~In(i, io.at + io.k, io.n - io.k)
    BY <1>4, <2>1 DEF In, Offset
  <2>4. \A i \in Offset : Promised(i) = Cached(f, i)
    BY <1>4, <2>3 DEF Promised
  <2>5. QED
    BY <1>2, <2>2, <2>4
<1>5. CASE req.op = "move" /\ io.op = "none" /\ left = 0
  <2>1. ToMove = {}
    BY <1>5, ToMoveInside DEF ToMove
  <2>2. PromisedLen = f.len /\ \A i \in Offset : Promised(i) = Cached(f, i)
    BY <1>5, <2>1 DEF PromisedLen, Promised
  <2>3. QED
    BY <1>2, <2>2
<1>6. QED
  BY <1>3, <1>4, <1>5 DEF Return

(* A call that makes no loop keeps its promise when it returns.            *)
LEMMA PlainKeepsPromise ==
  ASSUME IInv, bf_put \/ Resize \/ DropCache
  PROVE  /\ req' = Idle /\ req.op \notin {"idle", "close", "closed"}
         /\ PromisedLen' = PromisedLen /\ \A i \in Offset : Promised(i)' = Promised(i)
<1>1. /\ req' = Idle /\ req'.op = "idle" /\ UNCHANGED <<io, left>>
      /\ req.op \in {"put", "resize", "dropcache"}
  BY DEF bf_put, Resize, DropCache, Idle, Call
<1>2. io.op = "none" /\ FileSound(f)
  BY <1>1 DEF IInv, CallSound, NoLoop, Loop
<1>3. PromisedLen' = f'.len /\ \A i \in Offset : Promised(i)' = Cached(f', i)
  BY <1>1, <1>2 DEF PromisedLen, Promised
<1>4. CASE bf_put
  <2>1. /\ f'.len = f.len + 1
        /\ \A i \in Offset : Cached(f', i) = IF i = f.len THEN req.b[0] ELSE Cached(f, i)
    BY <1>4, PutStep
  <2>2. req.op = "put"
    BY <1>4 DEF bf_put
  <2>3. /\ PromisedLen = f.len + 1
        /\ \A i \in Offset : Promised(i) = IF i = f.len THEN req.b[0] ELSE Cached(f, i)
    BY <1>2, <2>2 DEF PromisedLen, Promised
  <2>4. QED
    BY <1>1, <1>3, <2>1, <2>3
<1>5. CASE Resize
  <2>1. req.op = "resize" /\ f' = bf_resize(f, req.n) /\ req.n \in 0 .. f.len
    BY <1>5 DEF Resize, IInv, CallSound
  <2>2. /\ f'.len = req.n
        /\ \A i \in Offset : Cached(f', i) = IF i < req.n THEN Cached(f, i) ELSE Zero
    BY <1>2, <2>1, ResizeSound
  <2>3. /\ PromisedLen = req.n
        /\ \A i \in Offset : Promised(i) = IF i >= req.n THEN Zero ELSE Cached(f, i)
    BY <1>2, <2>1 DEF PromisedLen, Promised
  <2>4. QED
    BY <1>1, <1>3, <2>1, <2>2, <2>3, SizeMaxAssumption DEF Offset, FileSound, File
<1>6. CASE DropCache
  <2>1. req.op = "dropcache" /\ f' = bf_dropcache(f)
    BY <1>6 DEF DropCache
  <2>2. SameContents(f', f)
    BY <1>2, <2>1, BareSound DEF bf_dropcache
  <2>3. PromisedLen = f.len /\ \A i \in Offset : Promised(i) = Cached(f, i)
    BY <1>2, <2>1 DEF PromisedLen, Promised
  <2>4. QED
    BY <1>1, <1>3, <2>2, <2>3 DEF SameContents
<1>7. QED
  BY <1>4, <1>5, <1>6

(* What is promised when the file is closed is what the disk then holds.   *)
LEMMA CloseSaves ==
  ASSUME IInv, Close
  PROVE  /\ req.op = "close" /\ req' = Closed
         /\ PromisedLen' = PromisedLen /\ \A i \in Offset : Promised(i)' = Promised(i)
         /\ f'.disklen = PromisedLen /\ f'.disk = PromisedBytes
<1>1. /\ req.op = "close" /\ req' = Closed /\ req'.op = "closed" /\ UNCHANGED <<io, left>>
      /\ f' = bf_close(f)
      /\ FileSound(f) /\ ReadOnlyExact(f) /\ f.len \in Nat
  BY SizeMaxAssumption DEF Close, IInv, Closed, Call, FileSound, File
<1>2. io.op = "none"
  BY <1>1 DEF IInv, CallSound, NoLoop, Loop
<1>3. /\ FileSound(f') /\ SameContents(f', f)
      /\ f.writable => f'.disklen = f'.len
      /\ \A i \in Offset : f'.disk[i] = IF i < f.len THEN Cached(f, i) ELSE Zero
  BY <1>1, CloseSound
<1>4. ReadOnlyExact(f')
  BY <1>1, ReadOnlyKept
<1>5. PromisedLen = f.len /\ \A i \in Offset : Promised(i) = Cached(f, i)
  BY <1>1, <1>2 DEF PromisedLen, Promised
<1>6. PromisedLen' = f'.len /\ \A i \in Offset : Promised(i)' = Cached(f', i)
  BY <1>1, <1>2 DEF PromisedLen, Promised
<1>7. f'.disklen = PromisedLen
  BY <1>3, <1>4, <1>5 DEF ReadOnlyExact, SameContents
<1>8. f'.disk = PromisedBytes
  <2>1. f'.disk \in [Offset -> Byte]
    BY <1>3 DEF FileSound, File
  <2>2. \A i \in Offset : f'.disk[i] = PromisedBytes[i]
    BY <1>3, <1>5 DEF PromisedBytes
  <2>3. PromisedBytes \in [Offset -> Byte]
    BY <2>1, <2>2 DEF PromisedBytes
  <2>4. QED
    BY <2>1, <2>2, <2>3
<1>9. QED
  BY <1>1, <1>3, <1>5, <1>6, <1>7, <1>8 DEF SameContents

-----------------------------------------------------------------------------
(* file.c keeps its promise: whatever window, mapping or buffer a byte     *)
(* goes through, the file is the byte string of module ByteFile that the   *)
(* calls make of it, no step of a loop changes it, and after bf_close the  *)
(* disk holds it, all of it and no more.                                   *)
THEOREM FileIsByteString == Spec => Implements
<1>1. Init => Contents!Init
  <2> SUFFICES ASSUME Init PROVE Contents!Init
    OBVIOUS
  <2>1. IInv /\ req = Idle /\ req.op = "idle"
    BY InitIInv DEF Init, Idle, Call
  <2>2. PromisedLen \in 0 .. SizeMax /\ PromisedBytes = [i \in Offset |-> Promised(i)]
    BY <2>1, PromiseBlank, PromiseExact
  <2>3. /\ PromisedBytes \in [Offset -> Byte]
        /\ \A i \in Offset : i >= PromisedLen => PromisedBytes[i] = Zero
    BY <2>1, <2>2, PromiseBlank
  <2>4. SavedFile = [len |-> 0, bytes |-> [i \in Offset |-> Zero]]
    BY <2>1 DEF SavedFile
  <2>5. QED
    BY <2>1, <2>2, <2>3, <2>4
    DEF Contents!Init, Contents!Unsaved, Contents!Offset, Contents!Idle, Contents!Call,
        Contents!NoBytes, Idle, Call, NoBytes, Offset, PromisedBytes, SavedFile
<1>2. IInv /\ IInv' /\ [Next]_vars => [Contents!Next]_Contents!vars
  <2> SUFFICES ASSUME IInv, IInv', [Next]_vars PROVE [Contents!Next]_Contents!vars
    OBVIOUS
  <2>1. ASSUME UNCHANGED <<PromisedLen, PromisedBytes, req, SavedFile>>
        PROVE  UNCHANGED Contents!vars
    BY <2>1 DEF Contents!vars, PromisedBytes, SavedFile
  <2>2. CASE UNCHANGED vars
    <3>1. UNCHANGED <<PromisedLen, PromisedBytes, req, SavedFile>>
      BY <2>2 DEF vars, PromisedLen, PromisedBytes, Promised, ToMove, SavedFile
    <3>2. QED
      BY <2>1, <3>1
  <2>3. CASE Begin
    <3>1. /\ PromisedLen = f.len /\ PromisedLen' = Contents!LenAfter(req', f.len)
          /\ \A i \in Offset : Promised(i)' = Contents!BytesAfter(req', PromisedBytes)[i]
          /\ req'.op # "closed" /\ req.op # "closed" /\ req = Idle
          /\ req' \in QuietCalls(f.len) \cup ChangeCalls(f.len)
      BY <2>3, BeginTakesEffect DEF Begin, Idle, Call
    <3>2. PromisedBytes' = [i \in Offset |-> Promised(i)']
      BY PromiseExactNext
    <3>3. PromisedBytes' = Contents!BytesAfter(req', PromisedBytes)
      BY <3>1, <3>2 DEF Contents!BytesAfter, Contents!Offset, Offset
    <3>4. SavedFile' = SavedFile
      BY <3>1 DEF SavedFile
    <3>5. Contents!Begin
      BY <3>1, <3>3, <3>4
      DEF Contents!Begin, PromisedBytes, SavedFile, Contents!Idle, Idle, Contents!Call, Call,
          Contents!NoBytes, NoBytes, Contents!QuietCalls, QuietCalls, Contents!ChangeCalls,
          ChangeCalls, Contents!WriteCalls, WriteCalls, Contents!PutCalls, PutCalls,
          Contents!ResizeCalls, ResizeCalls, Contents!MoveCalls, MoveCalls,
          Contents!Payload, Payload
    <3>6. QED
      BY <3>5 DEF Contents!Next
  <2>4. CASE bf_read \/ bf_write \/ bf_readmeta \/ bf_move_read \/ bf_move_write \/ bf_move_next
    <3>1. /\ req.op # "closed" /\ req' = req
          /\ PromisedLen' = PromisedLen /\ \A i \in Offset : Promised(i)' = Promised(i)
      BY <2>4, ReadKeepsPromise, WriteKeepsPromise, MetaKeepsPromise, MoveReadKeepsPromise,
         MoveWriteKeepsPromise, MoveNextKeepsPromise
    <3>2. QED
      BY <2>1, <3>1, PromiseKept
  <2>5. CASE bf_put \/ Resize \/ DropCache \/ Return
    <3>1. /\ req' = Idle /\ req.op \notin {"idle", "close", "closed"}
          /\ PromisedLen' = PromisedLen /\ \A i \in Offset : Promised(i)' = Promised(i)
      <4>1. Return => req' = Idle /\ req.op \notin {"idle", "close", "closed"}
        BY DEF Return
      <4>2. QED
        BY <2>5, <4>1, PlainKeepsPromise, ReturnKeepsPromise
    <3>2. PromisedBytes' = PromisedBytes
      BY <3>1 DEF PromisedBytes
    <3>3. SavedFile' = SavedFile
      BY <3>1 DEF SavedFile, Idle, Call
    <3>4. Contents!Return
      BY <3>1, <3>2, <3>3
      DEF Contents!Return, PromisedBytes, SavedFile, Contents!Idle, Idle, Contents!Call, Call,
          Contents!NoBytes, NoBytes
    <3>5. QED
      BY <3>4 DEF Contents!Next
  <2>6. CASE Close
    <3>1. /\ req.op = "close" /\ req' = Closed /\ req'.op = "closed"
          /\ PromisedLen' = PromisedLen /\ \A i \in Offset : Promised(i)' = Promised(i)
          /\ f'.disklen = PromisedLen /\ f'.disk = PromisedBytes
      BY <2>6, CloseSaves DEF Closed, Call
    <3>2. PromisedBytes' = PromisedBytes
      BY <3>1 DEF PromisedBytes
    <3>3. SavedFile' = [len |-> PromisedLen, bytes |-> PromisedBytes]
      BY <3>1 DEF SavedFile
    <3>4. Contents!Close
      BY <3>1, <3>2, <3>3
      DEF Contents!Close, PromisedBytes, SavedFile, Contents!Closed, Closed, Contents!Call, Call,
          Contents!NoBytes, NoBytes
    <3>5. QED
      BY <3>4 DEF Contents!Next
  <2>7. QED
    BY <2>2, <2>3, <2>4, <2>5, <2>6 DEF Next, Step
<1>3. QED
  BY <1>1, <1>2, Inductive, PTL DEF Spec, Implements, Contents!Spec
=============================================================================
