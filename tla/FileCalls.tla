----------------------------- MODULE FileCalls -----------------------------
(***************************************************************************)
(* The calls a client makes of a file handle of src/file.h, shared by the  *)
(* abstract file (ByteFile) and the windowed one (BlrFile).                *)
(***************************************************************************)
EXTENDS Integers

CONSTANTS
  SizeMax,  \* SIZE_MAX: no file is longer
  Chunk,    \* BLR_IO_CHUNK, the bytes of a window
  XferMax,  \* bound on the bytes one read or write call transfers
  Byte,     \* the values of a byte
  Zero      \* the byte a file is extended with

ASSUME SizeMaxAssumption == SizeMax \in Nat \ {0}
ASSUME ChunkAssumption == Chunk \in Nat \ {0}
ASSUME XferMaxAssumption == XferMax \in Nat /\ XferMax >= Chunk
ASSUME ZeroAssumption == Zero \in Byte

MIN(a, b) == IF a <= b THEN a ELSE b
MAX(a, b) == IF a >= b THEN a ELSE b

Offset == 0 .. SizeMax - 1
In(i, at, n) == at <= i /\ i < at + n

(* Bytes on their way to or from a file.                                   *)
Payload == [0 .. XferMax - 1 -> Byte]
NoBytes == [i \in 0 .. XferMax - 1 |-> Zero]

Call(op, at, from, n, b) == [op |-> op, at |-> at, from |-> from, n |-> n, b |-> b]
Idle == Call("idle", 0, 0, 0, NoBytes)
Closed == Call("closed", 0, 0, 0, NoBytes)

(* The calls that leave the bytes of a file of length l alone.             *)
QuietCalls(l) ==
  {c \in [op : {"read"}, at : 0 .. l, from : {0}, n : 1 .. XferMax, b : {NoBytes}] :
     c.n <= l - c.at}
  \cup {c \in [op : {"meta"}, at : 0 .. l, from : {0}, n : 1 .. Chunk, b : {NoBytes}] :
          c.n <= l - c.at}
  \cup {Call("dropcache", 0, 0, 0, NoBytes), Call("close", 0, 0, 0, NoBytes)}

(* The calls that change a file of length l opened for writing.  A resize  *)
(* never grows the file and a move stays inside it: nothing in the program *)
(* asks for more.                                                          *)
WriteCalls(l) ==
  {c \in [op : {"write"}, at : 0 .. l, from : {0}, n : 1 .. XferMax, b : Payload] :
     c.n <= SizeMax - c.at /\ \A i \in c.n .. XferMax - 1 : c.b[i] = Zero}

PutCalls(l) ==
  {c \in [op : {"put"}, at : {l}, from : {0}, n : {1}, b : Payload] :
     l < SizeMax /\ \A i \in 1 .. XferMax - 1 : c.b[i] = Zero}

ResizeCalls(l) ==
  [op : {"resize"}, at : {0}, from : {0}, n : 0 .. l, b : {NoBytes}]

MoveCalls(l) ==
  {c \in [op : {"move"}, at : 0 .. l, from : 0 .. l, n : 1 .. l, b : {NoBytes}] :
     c.at + c.n <= l /\ c.from + c.n <= l}

ChangeCalls(l) == WriteCalls(l) \cup PutCalls(l) \cup ResizeCalls(l) \cup MoveCalls(l)
=============================================================================
