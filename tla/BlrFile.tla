------------------------------ MODULE BlrFile -------------------------------
(***************************************************************************)
(* One file handle of src/file.c: a file on disk seen through one window   *)
(* of Chunk bytes, which is either a shared mapping of the file or a       *)
(* private buffer that has to be written back.  A handle opened for        *)
(* reading is mapped whole when the system lets it be.                     *)
(*                                                                         *)
(* The record f has the fields of blr_file that matter.  "mapped" stands   *)
(* for f->map.p # NULL, and then f->buf points into the mapping, so the    *)
(* window's bytes are disk bytes and f.buf is not looked at.  Disk and     *)
(* disklen are the file as the system has it; bytes past its end read as   *)
(* Zero when it is extended.                                               *)
(*                                                                         *)
(* A client call (req) runs as the loop of the C function: one step moves  *)
(* one window's worth of bytes, and io is the frame of the bf_read or      *)
(* bf_write loop in progress, left the loop variable of bf_move.  Memory   *)
(* that malloc returns may hold anything; nothing of it is read before it  *)
(* is written, and the model lets the bytes of a new buffer be those of    *)
(* the old one.  A failing system call other than the one that maps a      *)
(* window ends the process, and with it the behaviour.                     *)
(***************************************************************************)
EXTENDS FileCalls

VARIABLES
  f,     \* the file handle, and the disk behind it
  req,   \* the client's call
  io,    \* the bf_read or bf_write loop in progress
  left   \* bytes bf_move has still to move

vars == <<f, req, io, left>>

File ==
  [len : 0 .. SizeMax, at : 0 .. SizeMax, used : 0 .. Chunk,
   writable : BOOLEAN, dirty : BOOLEAN, live : BOOLEAN, mapped : BOOLEAN,
   memory : BOOLEAN, nomap : BOOLEAN,
   buf : [0 .. Chunk - 1 -> Byte],
   disklen : 0 .. SizeMax, disk : [Offset -> Byte]]

(* How the system may answer a window that asks to be mapped.              *)
Mapping == {"mapped", "refused", "refused after extending"}

Loop(op, at, n, k, b) == [op |-> op, at |-> at, n |-> n, k |-> k, b |-> b]
NoLoop == Loop("none", 0, 0, 0, NoBytes)

-----------------------------------------------------------------------------
(* The static functions of file.c and the ones that make no loop.          *)

Floor(p) == Chunk * (p \div Chunk)

(* A write-back that forgets to extend the disk length.                    *)
FlushKeepsDiskLen(h) ==
  IF ~h.dirty THEN h
  ELSE IF h.mapped THEN [h EXCEPT !.dirty = FALSE]
  ELSE [h EXCEPT !.dirty = FALSE,
                 !.disk = [i \in Offset |-> IF In(i, h.at, h.used) THEN h.buf[i - h.at]
                                            ELSE @[i]]]

bf_flush(h) ==
  IF ~h.dirty THEN h
  ELSE IF h.mapped THEN [h EXCEPT !.dirty = FALSE]
  ELSE [h EXCEPT !.dirty = FALSE,
                 !.disk = [i \in Offset |-> IF In(i, h.at, h.used) THEN h.buf[i - h.at]
                                            ELSE @[i]],
                 !.disklen = MAX(@, h.at + h.used)]

(* Dropping a mapping also drops f->memory, which points into it.          *)
drop_window(h) ==
  [h EXCEPT !.live = FALSE, !.mapped = FALSE, !.memory = @ /\ ~h.mapped]

size_file(h, n) ==
  [h EXCEPT !.disklen = n,
            !.disk = [i \in Offset |-> IF i < n THEN @[i] ELSE Zero]]

(* The window as a private buffer, filled from the disk.  A handle that    *)
(* once had to do with that never asks for a mapping again.                *)
Buffered(w) ==
  [w EXCEPT !.nomap = TRUE,
            !.buf = [i \in 0 .. Chunk - 1 |->
                       IF i < w.used THEN w.disk[w.at + i] ELSE @[i]]]

(* Mapping a window for writing needs its whole chunk on disk, so the file *)
(* may be made longer than its contents.                                   *)
Extended(w) ==
  LET end == w.at + MIN(Chunk, SizeMax - w.at)
  IN  IF w.writable /\ end > w.disklen THEN size_file(w, end) ELSE w

(* The window moves to the chunk that holds offset p.                      *)
bf_window(h, p, answer) ==
  LET w == [drop_window(bf_flush(h)) EXCEPT
              !.at = Floor(p), !.used = MIN(Chunk, h.len - Floor(p)), !.live = TRUE]
  IN  CASE h.nomap \/ answer = "refused"  -> Buffered(w)
        [] ~h.nomap /\ answer = "mapped" -> [Extended(w) EXCEPT !.mapped = TRUE]
        [] OTHER                         -> Buffered(Extended(w))

(* A truncation that leaves the window open.                               *)
ResizeKeepsWindow(h, n) == [size_file(bf_flush(h), n) EXCEPT !.len = n]

bf_resize(h, n) == [size_file(drop_window(bf_flush(h)), n) EXCEPT !.len = n]

bf_dropcache(h) == drop_window(bf_flush(h))

bf_close(h) ==
  LET g == drop_window(bf_flush(h))
  IN  IF g.writable /\ g.disklen # g.len THEN size_file(g, g.len) ELSE g

(* A byte of the window, through f->buf.                                   *)
WindowByte(h, i) == IF h.mapped THEN h.disk[i] ELSE h.buf[i - h.at]

(* Bytes b from the k-th on, n of them, stored at p, inside the window.    *)
Store(h, p, b, k, n) ==
  [h EXCEPT
     !.disk = [i \in Offset |-> IF h.mapped /\ In(i, p, n) THEN b[k + i - p] ELSE @[i]],
     !.buf = [i \in 0 .. Chunk - 1 |->
                IF ~h.mapped /\ In(h.at + i, p, n) THEN b[k + h.at + i - p] ELSE @[i]],
     !.used = MAX(@, p + n - h.at),
     !.len = MAX(@, p + n),
     !.dirty = TRUE]

-----------------------------------------------------------------------------
(* The loops.                                                              *)

(* bf_read looks for the next byte in a window that has bytes there.       *)
ReadWindow(h, p, answer) ==
  IF ~h.live \/ p < h.at \/ p - h.at >= h.used THEN bf_window(h, p, answer) ELSE h

(* bf_write is content with a window whose chunk has room there.           *)
WriteWindow(h, p, answer) ==
  IF ~h.live \/ p < h.at \/ p - h.at >= Chunk THEN bf_window(h, p, answer) ELSE h

(* A put that moves on only once the window is over-full.                  *)
PutWindowLate(h, answer) ==
  IF ~h.live \/ h.len - h.at > Chunk THEN bf_window(h, h.len, answer) ELSE h

(* bf_put needs the window in which the file ends, with room for a byte.   *)
PutWindow(h, answer) ==
  IF ~h.live \/ h.len - h.at >= Chunk THEN bf_window(h, h.len, answer) ELSE h

(* One window's worth of bf_read; bf_get is this loop for one byte.        *)
bf_read ==
  /\ io.op = "read" /\ io.k < io.n
  /\ \E answer \in Mapping :
       LET p == io.at + io.k
           g == IF f.memory THEN f ELSE ReadWindow(f, p, answer)
           take == IF f.memory THEN io.n - io.k ELSE MIN(io.n - io.k, g.used - (p - g.at))
       IN  /\ f' = g
           /\ io' = [io EXCEPT !.k = @ + take,
                               !.b = [j \in 0 .. XferMax - 1 |->
                                        IF In(j, io.k, take) THEN WindowByte(g, io.at + j)
                                        ELSE @[j]]]
  /\ UNCHANGED <<req, left>>

bf_write ==
  /\ io.op = "write" /\ io.k < io.n
  /\ \E answer \in Mapping :
       LET p == io.at + io.k
           g == WriteWindow(f, p, answer)
           take == MIN(io.n - io.k, Chunk - (p - g.at))
       IN  /\ f' = Store(g, p, io.b, io.k, take)
           /\ io' = [io EXCEPT !.k = @ + take]
  /\ UNCHANGED <<req, left>>

(* A move that always copies from the front.                               *)
MoveOffsetForward(take) == req.n - left

(* Where in the region bf_move works on next: from the end when the bytes  *)
(* move up, so that no byte is overwritten before it has been copied.      *)
MoveOffset(take) == IF req.at > req.from THEN left - take ELSE req.n - left

(* An iteration of bf_move reads a window's worth of bytes, ...            *)
bf_move_read ==
  /\ req.op = "move" /\ io.op = "none" /\ left > 0
  /\ LET take == MIN(left, Chunk)
     IN  io' = Loop("read", req.from + MoveOffset(take), take, 0, NoBytes)
  /\ UNCHANGED <<f, req, left>>

(* ... writes them where they go, ...                                      *)
bf_move_write ==
  /\ req.op = "move" /\ io.op = "read" /\ io.k = io.n
  /\ io' = Loop("write", req.at + MoveOffset(io.n), io.n, 0, io.b)
  /\ UNCHANGED <<f, req, left>>

(* ... and counts them off.                                                *)
bf_move_next ==
  /\ req.op = "move" /\ io.op = "write" /\ io.k = io.n
  /\ left' = left - io.n
  /\ io' = NoLoop
  /\ UNCHANGED <<f, req>>

-----------------------------------------------------------------------------
(* The client.                                                             *)

(* bf_open: a new file, or an old one with some contents.                  *)
Opened ==
  {h \in [len : 0 .. SizeMax, at : {0}, used : {0},
          writable : BOOLEAN, dirty : {FALSE}, live : {FALSE}, mapped : BOOLEAN,
          memory : BOOLEAN, nomap : BOOLEAN,
          buf : {[i \in 0 .. Chunk - 1 |-> Zero]},
          disklen : 0 .. SizeMax, disk : [Offset -> Byte]] :
     /\ h.disklen = h.len
     /\ \A i \in Offset : i >= h.len => h.disk[i] = Zero
     /\ h.writable => h.len = 0
     /\ h.memory = h.mapped
     /\ h.memory => ~h.writable /\ ~h.nomap /\ h.len > 0}

Init ==
  /\ f \in Opened
  /\ req = Idle
  /\ io = NoLoop
  /\ left = 0

Begin ==
  /\ req = Idle
  /\ req' \in QuietCalls(f.len) \cup (IF f.writable THEN ChangeCalls(f.len) ELSE {})
  /\ io' = IF req'.op \in {"read", "write"} THEN Loop(req'.op, req'.at, req'.n, 0, req'.b)
           ELSE NoLoop
  /\ left' = IF req'.op = "move" THEN req'.n ELSE 0
  /\ UNCHANGED f

(* bf_put stores at the used end of the window.                            *)
bf_put ==
  /\ req.op = "put"
  /\ \E answer \in Mapping :
       LET g == PutWindow(f, answer)
       IN  f' = [Store(g, g.at + g.used, req.b, 0, 1) EXCEPT !.len = g.len + 1]
  /\ req' = Idle
  /\ UNCHANGED <<io, left>>

(* A bf_readmeta that trusts the disk to be up to date.                    *)
MetaUnflushed(h) == h

(* The file whose disk bf_readmeta reads when nothing is mapped.           *)
MetaFile(h) == bf_flush(h)

(* bf_readmeta reads past the window when the file is not mapped.          *)
bf_readmeta ==
  /\ req.op = "meta" /\ io.op = "none"
  /\ IF f.memory \/ f.mapped
       THEN io' = Loop("read", req.at, req.n, 0, NoBytes) /\ UNCHANGED f
       ELSE /\ f' = MetaFile(f)
            /\ io' = Loop("read", req.at, req.n, req.n,
                          [j \in 0 .. XferMax - 1 |->
                             IF j < req.n THEN f'.disk[req.at + j] ELSE Zero])
  /\ UNCHANGED <<req, left>>

Resize ==
  /\ req.op = "resize"
  /\ f' = bf_resize(f, req.n)
  /\ req' = Idle
  /\ UNCHANGED <<io, left>>

DropCache ==
  /\ req.op = "dropcache"
  /\ f' = bf_dropcache(f)
  /\ req' = Idle
  /\ UNCHANGED <<io, left>>

Close ==
  /\ req.op = "close"
  /\ f' = bf_close(f)
  /\ req' = Closed
  /\ UNCHANGED <<io, left>>

(* A call whose loop has run to its end returns.                           *)
Return ==
  /\ \/ req.op \in {"read", "meta"} /\ io.op = "read" /\ io.k = io.n
     \/ req.op = "write" /\ io.k = io.n
     \/ req.op = "move" /\ io.op = "none" /\ left = 0
  /\ req' = Idle
  /\ io' = NoLoop
  /\ UNCHANGED <<f, left>>

Step ==
  \/ bf_read \/ bf_write \/ bf_put \/ bf_readmeta
  \/ bf_move_read \/ bf_move_write \/ bf_move_next
  \/ Resize \/ DropCache \/ Close \/ Return

Next == Begin \/ Step

Spec == Init /\ [][Next]_vars

-----------------------------------------------------------------------------
(* The contents of the file: what the window holds where it is a private   *)
(* buffer, and the disk everywhere else.                                   *)
Cached(h, i) ==
  IF h.live /\ ~h.mapped /\ In(i, h.at, h.used) THEN h.buf[i - h.at] ELSE h.disk[i]

(* The bytes bf_move has not begun to write yet, as offsets in the region. *)
ToMove ==
  LET n == IF io.op = "write" THEN left - io.n ELSE left
  IN  IF req.at > req.from THEN 0 .. n - 1 ELSE req.n - n .. req.n - 1

(* The contents with what the call in progress has still to do to them.    *)
Promised(i) ==
  CASE req.op = "put" /\ i = f.len                          -> req.b[0]
    [] req.op = "resize" /\ i >= req.n                      -> Zero
    [] io.op = "write" /\ In(i, io.at + io.k, io.n - io.k)  -> io.b[i - io.at]
    [] req.op = "move" /\ i - req.at \in ToMove
       /\ ~(io.op = "write" /\ In(i, io.at, io.n))          -> Cached(f, req.from + i - req.at)
    [] OTHER                                                -> Cached(f, i)

PromisedLen ==
  CASE req.op = "put"    -> f.len + 1
    [] req.op = "resize" -> req.n
    [] io.op = "write"   -> MAX(f.len, io.at + io.n)
    [] OTHER             -> f.len

Contents == INSTANCE ByteFile WITH
  length <- PromisedLen,
  bytes <- [i \in Offset |-> IF i < PromisedLen THEN Promised(i) ELSE Zero],
  req <- req,
  saved <- IF req.op = "closed" THEN [len |-> f.disklen, bytes |-> f.disk]
           ELSE [len |-> 0, bytes |-> [i \in Offset |-> Zero]]

-----------------------------------------------------------------------------
(* Properties.                                                             *)

Loops ==
  [op : {"none", "read", "write"}, at : 0 .. SizeMax, n : 0 .. XferMax, k : 0 .. XferMax,
   b : Payload]

(* The handle and the loop variables have their types.                     *)
TypeOK ==
  /\ f \in File
  /\ io \in Loops
  /\ left \in 0 .. SizeMax
  /\ req.op \in {"idle", "closed", "read", "write", "meta", "put", "move", "resize",
                 "dropcache", "close"}

WindowSound(h) ==
  /\ h.live => /\ h.at = Floor(h.at)
               /\ h.at <= h.len
               /\ h.used = MIN(Chunk, h.len - h.at)
  /\ h.live /\ h.mapped /\ h.writable => h.at + MIN(Chunk, SizeMax - h.at) <= h.disklen
  /\ h.dirty => h.live /\ h.writable
  /\ h.mapped => h.live \/ h.memory
  /\ h.memory => h.mapped /\ ~h.live

DiskSound(h) ==
  \A i \in Offset :
    /\ i < h.len /\ ~(h.dirty /\ ~h.mapped /\ In(i, h.at, h.used)) =>
         i < h.disklen /\ Cached(h, i) = h.disk[i]
    /\ i >= h.len => h.disk[i] = Zero

(* What bf_put, bf_read and bf_write rely on without testing it: the       *)
(* window starts on a chunk, reaches to the end of the chunk or of the     *)
(* file, whichever is first, and a mapped one lies on the disk.            *)
WindowExact == WindowSound(f)

(* No byte is in two minds: a clean private window agrees with the disk, a *)
(* byte that no dirty window holds is on the disk, and what a mapping      *)
(* added to the disk past the end of the contents is still blank.          *)
DiskBehind == DiskSound(f)

(* What bf_read or bf_readmeta has copied out is what the file holds there *)
(* whatever window, mapping or disk it came from.                          *)
ReadExact ==
  io.op = "read" => \A j \in 0 .. io.k - 1 : io.b[j] = Cached(f, io.at + j)

(* The windowed file implements the byte string: every call changes what   *)
(* it should, no internal step changes anything, and the disk has exactly  *)
(* the contents after close.                                               *)
Implements == Contents!Spec
=============================================================================
