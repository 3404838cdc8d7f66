------------------------------- MODULE Batch -------------------------------
(***************************************************************************)
(* Batch mode, do_batch of src/main.c where there is fork: the files are   *)
(* run, larger ones first, by at most so many child processes at a time;   *)
(* their exit statuses are gathered as they end.  Where a child cannot be  *)
(* forked the parent runs the file itself.                                 *)
(*                                                                         *)
(* do_one either returns a status, or ends its process with one (FATAL),   *)
(* or its process is killed, which a parent sees as no exit at all.  What  *)
(* it does to the file is not modelled here.                               *)
(***************************************************************************)
EXTENDS Integers, FiniteSetsExt

CONSTANTS
  N,          \* files on the command line
  SizeSet,    \* sizes of files
  Requested,  \* values of --jobs, 0 when it is not given
  Cores,      \* processors there may be
  Avail,      \* memory that may be available, 0 when unknown
  FixedCost   \* BLR_JOB_FIXED

ASSUME BatchAssumption ==
  /\ N \in Nat \ {0} /\ SizeSet \subseteq Nat /\ FixedCost \in Nat \ {0}
  /\ Requested \subseteq Nat /\ Cores \subseteq Nat \ {0} /\ Avail \subseteq Nat

OK == 0
REFUSED == 1
IO == 3
INTERNAL == 4

Killed == 9  \* a status for a child that did not exit

VARIABLES
  host,    \* what --jobs asks for, the processors and the memory there are
  q,       \* the files in the order they are run, each with its size
  jobs,    \* children there may be
  i,       \* files taken from q
  live,    \* children the parent counts
  running, \* children at work
  ended,   \* children that have ended, not yet waited for
  results, \* the status each file has come to, -1 before
  bad,     \* files that failed
  status,  \* the status so far, and at last the one that is returned
  phase

vars == <<host, q, jobs, i, live, running, ended, results, bad, status, phase>>

Files == 1 .. N
Lesser(a, b) == IF a <= b THEN a ELSE b

by_size_desc(x, y) == x.size > y.size \/ (x.size = y.size /\ x.order < y.order)

(* The memory a file is taken to need.                                     *)
Need(size) == FixedCost + 3 * size

(* The sizes of the files are left out.                                    *)
JobsForCores(h, big) ==
  LET by_mem == IF h.avail > 0 THEN Lesser(h.cores, h.avail \div FixedCost) ELSE h.cores
      wanted == IF h.requested > 0 THEN h.requested ELSE by_mem
  IN  Lesser(IF wanted < 1 THEN 1 ELSE wanted, N)

(* As many as there are cores and memory for, unless asked for otherwise;  *)
(* at least one, at most one for each file.                                *)
JobsFor(h, big) ==
  LET by_mem == IF h.avail > 0 THEN Lesser(h.cores, h.avail \div Need(big)) ELSE h.cores
      wanted == IF h.requested > 0 THEN h.requested ELSE by_mem
  IN  Lesser(IF wanted < 1 THEN 1 ELSE wanted, N)

-----------------------------------------------------------------------------
(* The parent.                                                             *)

(* A status that only the last failure decides.                            *)
FailedLast(st) ==
  IF st = OK THEN bad' = bad /\ status' = status
  ELSE bad' = bad + 1 /\ status' = IF st \in REFUSED .. INTERNAL THEN st ELSE INTERNAL

pool_failed(st) ==
  IF st = OK THEN bad' = bad /\ status' = status
  ELSE LET clamped == IF st \in REFUSED .. INTERNAL THEN st ELSE INTERNAL
       IN  bad' = bad + 1 /\ status' = IF clamped > status THEN clamped ELSE status

Full == live >= jobs

Spawning == phase = "spawn" /\ i < N /\ ~Full

(* fork: the file is run by a child.                                       *)
Fork ==
  /\ Spawning
  /\ i' = i + 1 /\ live' = live + 1
  /\ running' = running \cup {q[i + 1].order}
  /\ UNCHANGED <<host, q, jobs, ended, results, bad, status, phase>>

(* fork fails and the parent runs the file: do_one returns.                *)
RunHere ==
  /\ Spawning
  /\ \E st \in {OK, REFUSED, IO} :
       results' = [results EXCEPT ![q[i + 1].order] = st] /\ pool_failed(st)
  /\ i' = i + 1
  /\ UNCHANGED <<host, q, jobs, live, running, ended, phase>>

(* It does not return: FATAL ends the parent, with its status.             *)
FatalHere ==
  /\ Spawning
  /\ \E st \in {REFUSED, IO, INTERNAL} :
       results' = [results EXCEPT ![q[i + 1].order] = st] /\ status' = st
  /\ i' = i + 1
  /\ phase' = "died"
  /\ UNCHANGED <<host, q, jobs, live, running, ended, bad>>

(* A killed child is not taken off the count.                              *)
ReapExited ==
  /\ phase = "spawn" /\ (IF i < N THEN Full ELSE live > 0)
  /\ \E f \in ended :
       /\ ended' = ended \ {f}
       /\ pool_failed(IF results[f] = Killed THEN INTERNAL ELSE results[f])
       /\ live' = IF results[f] = Killed THEN live ELSE live - 1
  /\ UNCHANGED <<host, q, jobs, i, running, results, phase>>

(* The parent waits for a child when the pool is full, and for all of them *)
(* in the end.                                                             *)
pool_reap ==
  /\ phase = "spawn" /\ (IF i < N THEN Full ELSE live > 0)
  /\ \E f \in ended :
       /\ ended' = ended \ {f}
       /\ pool_failed(IF results[f] = Killed THEN INTERNAL ELSE results[f])
  /\ live' = live - 1
  /\ UNCHANGED <<host, q, jobs, i, running, results, phase>>

Return ==
  /\ phase = "spawn" /\ i = N /\ live = 0
  /\ phase' = "returned"
  /\ UNCHANGED <<host, q, jobs, i, live, running, ended, results, bad, status>>

-----------------------------------------------------------------------------
(* A child ends: its do_one returns, FATAL ends it, or it is killed.       *)
Exit(f) ==
  /\ f \in running
  /\ running' = running \ {f} /\ ended' = ended \cup {f}
  /\ \E st \in {OK, REFUSED, IO, INTERNAL, Killed} : results' = [results EXCEPT ![f] = st]
  /\ UNCHANGED <<host, q, jobs, i, live, bad, status, phase>>

Init ==
  /\ \E size \in [Files -> SizeSet] :
       LET all == {[order |-> f, size |-> size[f]] : f \in Files}
           big == Max({size[f] : f \in Files})
       IN  /\ q \in [Files -> all]
           /\ \A k, l \in Files : k < l => by_size_desc(q[k], q[l])
           /\ host \in [requested : Requested, cores : Cores, avail : Avail]
           /\ jobs = JobsFor(host, big)
  /\ i = 0 /\ live = 0 /\ running = {} /\ ended = {} /\ bad = 0 /\ status = OK
  /\ results = [f \in Files |-> -1]
  /\ phase = "spawn"

Parent == Fork \/ RunHere \/ FatalHere \/ pool_reap \/ Return

Next == Parent \/ \E f \in Files : Exit(f)

(* The parent goes on as long as it can, and every file comes to an end.   *)
Fairness == WF_vars(Parent) /\ \A f \in Files : WF_vars(Exit(f))

Spec == Init /\ [][Next]_vars /\ Fairness

-----------------------------------------------------------------------------
(* Properties.                                                             *)

(* The parent's count of its children is exact, and never more than jobs.  *)
TypeOK ==
  /\ jobs \in 1 .. N /\ i \in 0 .. N
  /\ running \cap ended = {} /\ running \cup ended \subseteq {q[k].order : k \in 1 .. i}
  /\ live = Cardinality(running \cup ended) /\ live <= jobs
  /\ results \in [Files -> {-1, OK, REFUSED, IO, INTERNAL, Killed}]
  /\ bad \in 0 .. N /\ status \in {OK, REFUSED, IO, INTERNAL}
  /\ phase \in {"spawn", "returned", "died"}

(* The README's word: a batch returns the highest status reported by any   *)
(* file, a killed child being an internal error; and it counts the files   *)
(* that failed.  By then every file has been run, once, and has ended.     *)
HighestStatus ==
  phase = "returned" =>
    /\ \A f \in Files : results[f] # -1
    /\ status = Max({IF results[f] = Killed THEN INTERNAL ELSE results[f] : f \in Files})
    /\ bad = Cardinality({f \in Files : results[f] # OK})

(* Unless --jobs asks for more, the children at work fit together into the *)
(* memory that was available, however their sizes mix; one child always    *)
(* runs.                                                                   *)
MemoryFits ==
  host.requested = 0 /\ host.avail > 0 /\ Cardinality(running) > 1 =>
    MapThenSumSet(LAMBDA k : IF q[k].order \in running THEN Need(q[k].size) ELSE 0, 1 .. N)
      <= host.avail

(* The batch ends.                                                         *)
Ends == <>(phase # "spawn")

(* t_cli.c: a batch with a refused file reports it and carries on.         *)
CarriesOn == phase # "spawn" => \A f \in Files : results[f] # -1
=============================================================================
