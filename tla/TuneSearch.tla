---------------------------- MODULE TuneSearch -----------------------------
(***************************************************************************)
(* The search of src/codec.c for the tune that packs a Vorbis file best.   *)
(* Each trial packs the whole file behind the best candidate so far, in    *)
(* the output file itself; a smaller one is moved to the front, and the    *)
(* file is cut to what it keeps.  pack_once is one cell at a time, so the  *)
(* file can be seen while a candidate grows and while one is moved; each   *)
(* trial can also end the process (FATAL), by memory or by a full disk.    *)
(*                                                                         *)
(* A candidate is as many cells as its size, each marked with its tune.    *)
(***************************************************************************)
EXTENDS Integers, SequencesExt

CONSTANTS
  TRY_ALIM, TRY_LR,  \* values tried for the two numbers of a tune
  Default,           \* the default tune
  Sizes,             \* sizes a candidate may come to
  Searches           \* values of vb_opt.search

ASSUME TuneAssumption ==
  /\ TRY_ALIM \in Seq(Nat) /\ TRY_LR \in Seq(Nat)
  /\ Default \in [alim : Nat, lr : Nat, flags : {{}}]
  /\ IsInjective(<<Default.alim>> \o TRY_ALIM) /\ IsInjective(<<Default.lr>> \o TRY_LR)
ASSUME SizeAssumption == Sizes \subseteq Nat \ {0} /\ Searches \subseteq Nat

VARIABLES
  output,  \* the cells of the output file
  s,       \* search: whether there is a best, its size and tune, trials left
  total,   \* trials affordable in all
  next,    \* the trial of the plan that comes next
  cand,    \* the candidate being packed: its tune and the size it comes to
  moved,   \* cells of it that have been moved
  tried,   \* the candidates so far
  phase

vars == <<output, s, total, next, cand, moved, tried, phase>>

Archive(c) == [k \in 1 .. c.len |-> c.tune]

(* The trials in order, each a change to the best tune so far.             *)
Plan ==
  <<[axis |-> "default", val |-> 0], [axis |-> "CLS", val |-> 0], [axis |-> "MATCH", val |-> 0]>>
  \o [k \in DOMAIN TRY_ALIM |-> [axis |-> "alim", val |-> TRY_ALIM[k]]]
  \o [k \in DOMAIN TRY_LR |-> [axis |-> "lr", val |-> TRY_LR[k]]]

(* Each axis starts from the best tune so far.                             *)
Tune(p) ==
  CASE p.axis = "default"        -> Default
    [] p.axis \in {"CLS", "MATCH"} -> [s.bt EXCEPT !.flags = @ \cup {p.axis}]
    [] p.axis = "alim"           -> [s.bt EXCEPT !.alim = p.val]
    [] p.axis = "lr"             -> [s.bt EXCEPT !.lr = p.val]

(* Where the plan goes on when a trial is not affordable: an axis of       *)
(* values is left, to the next axis.                                       *)
After(n) ==
  IF Plan[n].axis \in {"alim", "lr"}
    THEN CHOOSE m \in n + 1 .. Len(Plan) + 1 :
           /\ m \in DOMAIN Plan => Plan[m].axis # Plan[n].axis
           /\ \A k \in n .. m - 1 : Plan[k].axis = Plan[n].axis
    ELSE n + 1

(* A budget checked after it has been drawn on.                            *)
AffordsLate == s.left >= 0

Affords == s.left > 0

(* trial, up to pack_once.                                                 *)
Trial ==
  /\ phase = "plan" /\ next <= Len(Plan) /\ Affords
  /\ \E len \in Sizes : cand' = [tune |-> Tune(Plan[next]), len |-> len]
  /\ s' = [s EXCEPT !.left = @ - 1]
  /\ phase' = "pack"
  /\ UNCHANGED <<output, total, next, moved, tried>>

Unaffordable ==
  /\ phase = "plan" /\ next <= Len(Plan) /\ ~Affords
  /\ next' = After(next)
  /\ UNCHANGED <<output, s, total, cand, moved, tried, phase>>

Start == Len(output) - cand.len

pack_once ==
  /\ phase = "pack"
  /\ LET start == IF s.have THEN s.blen ELSE 0
     IN  IF Len(output) - start < cand.len
           THEN output' = Append(output, cand.tune) /\ UNCHANGED <<phase, tried>>
           ELSE /\ phase' = "packed" /\ tried' = Append(tried, cand)
                /\ UNCHANGED output
  /\ UNCHANGED <<s, total, next, cand, moved>>

(* A tune kept when it does no harm.                                       *)
HelpsOrTies == ~s.have \/ cand.len <= s.blen

Helps == ~s.have \/ cand.len < s.blen

(* A candidate kept is moved to the front, unless it is there.             *)
Keep ==
  /\ phase = "packed" /\ Helps
  /\ phase' = IF Start > 0 THEN "move" ELSE "cut"
  /\ s' = [s EXCEPT !.have = TRUE, !.blen = cand.len, !.bt = cand.tune]
  /\ moved' = 0
  /\ UNCHANGED <<output, total, next, cand, tried>>

Drop ==
  /\ phase = "packed" /\ ~Helps
  /\ phase' = "cut"
  /\ UNCHANGED <<output, s, total, next, cand, moved, tried>>

(* A move that starts where the candidate would have with one cell less.   *)
MoveSourceEarly(k) == Len(output) - cand.len + k

MoveSource(k) == Len(output) - cand.len + k + 1

bf_move ==
  /\ phase = "move"
  /\ IF moved < cand.len
       THEN /\ output' = [output EXCEPT ![moved + 1] = output[MoveSource(moved)]]
            /\ moved' = moved + 1 /\ UNCHANGED phase
       ELSE phase' = "cut" /\ UNCHANGED <<output, moved>>
  /\ UNCHANGED <<s, total, next, cand, tried>>

(* A cut that leaves what was packed behind the best where it is.          *)
NotCut ==
  /\ phase = "cut"
  /\ next' = next + 1 /\ phase' = "plan"
  /\ UNCHANGED <<output, s, total, cand, moved, tried>>

(* The output is cut to the best candidate, whichever it is.               *)
bf_resize ==
  /\ phase = "cut"
  /\ output' = SubSeq(output, 1, s.blen)
  /\ next' = next + 1 /\ phase' = "plan"
  /\ UNCHANGED <<s, total, cand, moved, tried>>

Fatal ==
  /\ phase \in {"pack", "move", "cut"}
  /\ phase' = "fatal"
  /\ UNCHANGED <<output, s, total, next, cand, moved, tried>>

Close ==
  /\ phase = "plan" /\ next > Len(Plan)
  /\ phase' = "done"
  /\ UNCHANGED <<output, s, total, next, cand, moved, tried>>

Budget(search) == search + 1

Init ==
  /\ output = <<>> /\ next = 1 /\ moved = 0 /\ tried = <<>> /\ phase = "plan"
  /\ \E n \in Searches :
       /\ s = [have |-> FALSE, blen |-> 0, bt |-> Default, left |-> Budget(n)]
       /\ total = Budget(n)
  /\ cand = [tune |-> Default, len |-> 0]

Next ==
  Trial \/ Unaffordable \/ pack_once \/ Keep \/ Drop \/ bf_move \/ bf_resize \/ Fatal \/ Close

Spec == Init /\ [][Next]_vars

-----------------------------------------------------------------------------
(* Properties.                                                             *)

(* The search keeps its types; the trials made and left are the budget.    *)
TypeOK ==
  /\ s.left \in Nat /\ s.blen \in {0} \cup Sizes /\ (s.have <=> s.blen > 0)
  /\ Len(tried) + s.left \in {total - 1, total}
  /\ next \in 1 .. Len(Plan) + 1
  /\ phase \in {"plan", "pack", "packed", "move", "cut", "done", "fatal"}

(* Between trials the output is the best candidate and nothing else; while *)
(* another is packed behind it, the best is untouched.                     *)
BestKept ==
  /\ phase \in {"plan", "done"} => output = (IF s.have THEN Archive([tune |-> s.bt, len |-> s.blen])
                                             ELSE <<>>)
  /\ phase \in {"pack", "packed"} /\ s.have =>
       SubSeq(output, 1, s.blen) = Archive([tune |-> s.bt, len |-> s.blen])

(* The best is the first of the smallest of all that have been tried.      *)
Smallest ==
  phase \in {"plan", "done"} /\ tried # <<>> =>
    \E k \in DOMAIN tried :
      /\ tried[k] = [tune |-> s.bt, len |-> s.blen]
      /\ \A j \in DOMAIN tried : IF j < k THEN tried[j].len > s.blen ELSE tried[j].len >= s.blen

(* The README's word: at most the best candidate and the current one are   *)
(* in the file, whenever it is looked at.                                  *)
TwoAtMost ==
  /\ Cardinality(ToSet(output)) <= 2
  /\ phase \in {"plan", "done"} => Cardinality(ToSet(output)) <= 1
=============================================================================
