------------------------------ MODULE ByteFile ------------------------------
(***************************************************************************)
(* What a balrogg file handle promises its client: a byte string that the  *)
(* client overwrites, extends, truncates and moves about, one call at a    *)
(* time, and that is exactly what the disk holds once the handle has been  *)
(* closed.  No window, no mapping and no disk length: module BlrFile shows *)
(* that src/file.c, which has all three, implements this.                  *)
(*                                                                         *)
(* A call takes effect when it is made.  The call itself is visible (req)  *)
(* until it returns, so that nothing but a call can change the bytes.      *)
(***************************************************************************)
EXTENDS FileCalls

VARIABLES
  length,  \* length of the file
  bytes,   \* its bytes; Zero from length on
  req,     \* the client's call in progress
  saved    \* what the disk holds once the file is closed

vars == <<length, bytes, req, saved>>

Unsaved == [len |-> 0, bytes |-> [i \in Offset |-> Zero]]

(* What a call makes of a file of length l with bytes s.  A move copies as *)
(* memmove does.                                                           *)
LenAfter(c, l) ==
  CASE c.op \in {"write", "put"} -> MAX(l, c.at + c.n)
    [] c.op = "resize"           -> c.n
    [] OTHER                     -> l

BytesAfter(c, s) ==
  [i \in Offset |->
     CASE c.op \in {"write", "put"} /\ In(i, c.at, c.n) -> c.b[i - c.at]
       [] c.op = "move" /\ In(i, c.at, c.n)             -> s[c.from + i - c.at]
       [] c.op = "resize" /\ i >= c.n                   -> Zero
       [] OTHER                                         -> s[i]]

Init ==
  /\ length \in 0 .. SizeMax
  /\ bytes \in [Offset -> Byte]
  /\ \A i \in Offset : i >= length => bytes[i] = Zero
  /\ req = Idle
  /\ saved = Unsaved

(* The client makes a call.                                                *)
Begin ==
  /\ req = Idle
  /\ req' \in QuietCalls(length) \cup ChangeCalls(length)
  /\ length' = LenAfter(req', length)
  /\ bytes' = BytesAfter(req', bytes)
  /\ UNCHANGED saved

(* A call other than close returns.                                        *)
Return ==
  /\ req.op \notin {"idle", "close", "closed"}
  /\ req' = Idle
  /\ UNCHANGED <<length, bytes, saved>>

(* Close returns: the disk has the bytes, all of them and no more.         *)
Close ==
  /\ req.op = "close"
  /\ req' = Closed
  /\ saved' = [len |-> length, bytes |-> bytes]
  /\ UNCHANGED <<length, bytes>>

Next == Begin \/ Return \/ Close

Spec == Init /\ [][Next]_vars
=============================================================================
