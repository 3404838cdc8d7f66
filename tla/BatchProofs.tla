---------------------------- MODULE BatchProofs ----------------------------
(***************************************************************************)
(* Batch mode of main.c, for any files, processors and memory: the status  *)
(* and the count of failures that a batch returns are those of all its     *)
(* files, however their processes end and in whatever order, and the       *)
(* children at work fit into memory.  That a batch ends is left to TLC.    *)
(***************************************************************************)
EXTENDS Batch, NatFacts

Statuses == {OK, REFUSED, IO, INTERNAL, Killed}

(* The files that were begun, and those whose status is in the tally.      *)
Taken == {q[k].order : k \in 1 .. i}
Counted == Taken \ (running \cup ended)

(* What a status counts as.                                                *)
Weight(st) == IF st = Killed THEN INTERNAL ELSE st

Queue ==
  /\ q \in [Files -> [order : Files, size : Nat]]
  /\ \A k, l \in Files : k # l => q[k].order # q[l].order

Fitted ==
  /\ host \in [requested : Nat, cores : Nat \ {0}, avail : Nat]
  /\ \E big \in Nat : /\ \A k \in Files : q[k].size <= big
                      /\ jobs = JobsFor(host, big)

Children ==
  /\ i \in 0 .. N
  /\ running \cap ended = {} /\ running \cup ended \subseteq Taken
  /\ live = Cardinality(running \cup ended) /\ live <= jobs
  /\ phase \in {"spawn", "returned", "died"}
  /\ phase = "returned" => i = N /\ live = 0

(* A file has no status before it is begun, nor while a child is at it.    *)
Known ==
  /\ results \in [Files -> Statuses \cup {-1}]
  /\ \A f \in Files : results[f] = -1 <=> f \notin Taken \/ f \in running

Tally ==
  /\ bad \in 0 .. N /\ status \in {OK, REFUSED, IO, INTERNAL}
  /\ phase # "died" =>
       /\ \A f \in Counted : Weight(results[f]) <= status
       /\ status = OK \/ \E f \in Counted : Weight(results[f]) = status
       /\ bad = Cardinality({f \in Counted : results[f] # OK})

IInv == Queue /\ Fitted /\ Children /\ Known /\ Tally

-----------------------------------------------------------------------------
LEMMA FilesFinite ==
  N \in Nat /\ N # 0 /\ IsFiniteSet(Files) /\ Cardinality(Files) = N
BY BatchAssumption, FS_Interval DEF Files

(* At least one child, at most one for each file.                          *)
LEMMA JobsInRange ==
  ASSUME NEW h \in [requested : Nat, cores : Nat \ {0}, avail : Nat], NEW big \in Nat
  PROVE  JobsFor(h, big) \in 1 .. N
<1>1. N \in Nat \ {0} /\ FixedCost \in Nat \ {0}
  BY BatchAssumption
<1>2. Need(big) \in Nat \ {0}
  BY <1>1 DEF Need
<1> DEFINE by_mem == IF h.avail > 0 THEN Lesser(h.cores, h.avail \div Need(big)) ELSE h.cores
           wanted == IF h.requested > 0 THEN h.requested ELSE by_mem
<1>3. h.avail \div Need(big) \in Int
  BY <1>2
<1>4. wanted \in Int
  BY <1>3 DEF Lesser
<1>5. JobsFor(h, big) = Lesser(IF wanted < 1 THEN 1 ELSE wanted, N)
  BY DEF JobsFor
<1> HIDE DEF wanted
<1>6. QED
  BY <1>1, <1>4, <1>5 DEF Lesser

LEMMA TakenFacts ==
  ASSUME Queue, i \in 0 .. N
  PROVE  /\ Taken \subseteq Files /\ IsFiniteSet(Taken)
         /\ i < N => q[i + 1].order \in Files \ Taken
         /\ i = N => Taken = Files
<1>1. N \in Nat /\ N # 0 /\ IsFiniteSet(Files) /\ Cardinality(Files) = N
  BY FilesFinite
<1>2. \A k \in Files : q[k].order \in Files
  BY DEF Queue
<1>3. 1 .. i \subseteq Files
  BY <1>1 DEF Files
<1>4. Taken \subseteq Files
  BY <1>2, <1>3 DEF Taken
<1>5. IsFiniteSet(Taken)
  BY <1>1, <1>4, FS_Subset
<1>6. ASSUME i < N PROVE q[i + 1].order \in Files \ Taken
  <2>1. i + 1 \in Files /\ \A k \in 1 .. i : k \in Files /\ k # i + 1
    BY <1>1, <1>3, <1>6 DEF Files
  <2>2. QED
    BY <1>2, <2>1 DEF Queue, Taken
<1>7. ASSUME i = N PROVE Taken = Files
  <2> DEFINE order == [k \in Files |-> q[k].order]
  <2>1. order \in [Files -> Files]
    BY <1>2
  <2>2. \A k, l \in Files : order[k] = order[l] => k = l
    BY DEF Queue
  <2> HIDE DEF order
  <2>3. order \in Injection(Files, Files)
    BY <2>1, <2>2 DEF Injection, IsInjective
  <2>4. order \in Surjection(Files, Files)
    BY <1>1, <2>3, FS_Injection
  <2>5. \A f \in Files : \E k \in Files : order[k] = f
    BY <2>4 DEF Surjection
  <2>6. \A f \in Files : \E k \in 1 .. i : q[k].order = f
    BY <1>7, <2>5 DEF Files, order
  <2>7. QED
    BY <1>4, <2>6 DEF Taken
<1>8. QED
  BY <1>4, <1>5, <1>6, <1>7

(* One more file is begun.                                                 *)
LEMMA TakesOne ==
  ASSUME Queue, i \in 0 .. N, i < N, i' = i + 1, q' = q
  PROVE  Taken' = Taken \cup {q[i + 1].order} /\ i' \in 0 .. N
<1>1. N \in Nat
  BY FilesFinite
<1>2. 1 .. i' = 1 .. i \cup {i + 1}
  OBVIOUS
<1>3. QED
  BY <1>1, <1>2 DEF Taken

-----------------------------------------------------------------------------
LEMMA InitIInv == Init => IInv
<1> SUFFICES ASSUME Init PROVE IInv
  OBVIOUS
<1>1. N \in Nat /\ N # 0 /\ IsFiniteSet(Files) /\ 1 \in Files
  BY FilesFinite DEF Files
<1>2. PICK size \in [Files -> SizeSet] :
        /\ q \in [Files -> {[order |-> f, size |-> size[f]] : f \in Files}]
        /\ \A k, l \in Files : k < l => by_size_desc(q[k], q[l])
        /\ host \in [requested : Requested, cores : Cores, avail : Avail]
        /\ jobs = JobsFor(host, Max({size[f] : f \in Files}))
  BY DEF Init
<1>3. \A f \in Files : size[f] \in Nat
  BY BatchAssumption
<1>4. \A k \in Files : q[k] \in [order : Files, size : Nat] /\ q[k].size = size[q[k].order]
  <2> SUFFICES ASSUME NEW k \in Files
               PROVE  q[k] \in [order : Files, size : Nat] /\ q[k].size = size[q[k].order]
    OBVIOUS
  <2>1. PICK f \in Files : q[k] = [order |-> f, size |-> size[f]]
    BY <1>2
  <2>2. QED
    BY <1>3, <2>1
<1>5. \A k, l \in Files : k # l => q[k].order # q[l].order
  <2> SUFFICES ASSUME NEW k \in Files, NEW l \in Files, k # l, q[k].order = q[l].order
               PROVE  FALSE
    OBVIOUS
  <2>1. q[k].size = q[l].size /\ q[k].size \in Nat /\ q[k].order \in Files
    BY <1>4
  <2>2. k < l \/ l < k
    BY <1>1 DEF Files
  <2>3. by_size_desc(q[k], q[l]) \/ by_size_desc(q[l], q[k])
    BY <1>2, <2>2
  <2>4. QED
    BY <1>1, <2>1, <2>3 DEF by_size_desc, Files
<1>6. Queue
  BY <1>2, <1>4, <1>5 DEF Queue
<1> DEFINE S == {size[f] : f \in Files}
           big == Max(S)
<1>7. big \in Nat /\ \A f \in Files : size[f] <= big
  <2>1. \E x \in S : \A y \in S : x >= y
    <3> DEFINE G == {n \in Nat : n # 0 /\ n <= N =>
                       \E k \in Files : \A f \in 1 .. n : size[f] <= size[k]}
    <3>1. 0 \in G
      OBVIOUS
    <3>2. ASSUME NEW n \in Nat, n \in G PROVE n + 1 \in G
      <4> SUFFICES ASSUME n + 1 <= N
                   PROVE  \E k \in Files : \A f \in 1 .. n + 1 : size[f] <= size[k]
        OBVIOUS
      <4>1. n + 1 \in Files /\ \A f \in 1 .. n + 1 : f \in Files /\ (f \in 1 .. n \/ f = n + 1)
        BY <1>1 DEF Files
      <4>2. CASE n = 0
        BY <1>3, <4>1, <4>2
      <4>3. CASE n # 0
        <5>1. PICK k \in Files : \A f \in 1 .. n : size[f] <= size[k]
          BY <1>1, <3>2, <4>3
        <5>2. CASE size[n + 1] <= size[k]
          BY <4>1, <5>1, <5>2
        <5>3. CASE ~(size[n + 1] <= size[k])
          <6>1. \A f \in 1 .. n + 1 : size[f] <= size[n + 1]
            BY <1>3, <4>1, <5>1, <5>3
          <6>2. QED
            BY <4>1, <6>1
        <5>4. QED
          BY <5>2, <5>3
      <4>4. QED
        BY <4>2, <4>3
    <3> HIDE DEF G
    <3>3. \A n \in Nat : n \in G
      BY <3>1, <3>2, Inducts
    <3>4. PICK k \in Files : \A f \in 1 .. N : size[f] <= size[k]
      BY <1>1, <3>3 DEF G
    <3>5. \A f \in Files : size[k] >= size[f]
      BY <1>3, <3>4 DEF Files
    <3>6. QED
      BY <3>5
  <2> HIDE DEF S
  <2>2. big \in S /\ \A y \in S : big >= y
    BY <2>1 DEF Max
  <2> HIDE DEF big
  <2>3. QED
    BY <1>3, <2>2 DEF S
<1> HIDE DEF big
<1>8. Fitted
  <2>1. host \in [requested : Nat, cores : Nat \ {0}, avail : Nat]
    BY <1>2, BatchAssumption
  <2>2. \A k \in Files : q[k].size <= big
    BY <1>4, <1>7
  <2>3. jobs = JobsFor(host, big)
    BY <1>2 DEF big
  <2>4. QED
    BY <1>7, <2>1, <2>2, <2>3 DEF Fitted
<1>9. /\ i = 0 /\ live = 0 /\ running = {} /\ ended = {} /\ bad = 0 /\ status = OK
      /\ results = [f \in Files |-> -1] /\ phase = "spawn"
  BY DEF Init
<1>10. Taken = {} /\ Counted = {}
  BY <1>9 DEF Taken, Counted
<1>11. Children
  <2>1. jobs \in 1 .. N
    BY <1>8, JobsInRange DEF Fitted
  <2>2. running \cup ended = {} /\ Cardinality(running \cup ended) = 0
    BY <1>9, FS_EmptySet
  <2>3. QED
    BY <1>1, <1>9, <1>10, <2>1, <2>2 DEF Children
<1>12. Known
  BY <1>9, <1>10 DEF Known
<1>13. Tally
  <2>1. {f \in Counted : results[f] # OK} = {}
    BY <1>10
  <2>2. QED
    BY <1>1, <1>9, <1>10, <2>1, FS_EmptySet DEF Tally
<1>14. QED
  BY <1>6, <1>8, <1>11, <1>12, <1>13 DEF IInv

-----------------------------------------------------------------------------
(* The parent.                                                             *)

(* A file enters the tally.                                                *)
LEMMA CountsOne ==
  ASSUME IInv, phase # "died", NEW f \in Files \ Counted, NEW st \in Statuses,
         pool_failed(Weight(st)), Counted' = Counted \cup {f}, Counted \subseteq Files,
         results'[f] = st, \A g \in Counted : results'[g] = results[g]
  PROVE  Tally'
<1>1. N \in Nat /\ IsFiniteSet(Files) /\ Cardinality(Files) = N
  BY FilesFinite
<1> DEFINE w == Weight(st)
           Failed == {g \in Counted : results[g] # OK}
           Failing == {g \in Counted' : results'[g] # OK}
<1>2. w \in {OK, REFUSED, IO, INTERNAL} /\ (w = OK <=> st = OK)
  BY DEF Weight, Statuses, OK, REFUSED, IO, INTERNAL, Killed
<1>3. /\ \A g \in Counted : Weight(results[g]) <= status
      /\ status = OK \/ \E g \in Counted : Weight(results[g]) = status
      /\ bad = Cardinality(Failed) /\ bad \in 0 .. N /\ status \in {OK, REFUSED, IO, INTERNAL}
  BY DEF IInv, Tally
<1>4. status' = (IF w > status THEN w ELSE status) /\ bad' = (IF w = OK THEN bad ELSE bad + 1)
  BY <1>2, <1>3 DEF pool_failed, OK, REFUSED, IO, INTERNAL
<1>5. Failing = IF st = OK THEN Failed ELSE Failed \cup {f}
  OBVIOUS
<1>6. IsFiniteSet(Failed) /\ f \notin Failed /\ Failing \subseteq Files
  <2>1. Failed \subseteq Files
    OBVIOUS
  <2> HIDE DEF Failed
  <2>2. IsFiniteSet(Failed)
    BY <1>1, <2>1, FS_Subset
  <2>3. QED
    BY <2>2 DEF Failed
<1> HIDE DEF w, Failed, Failing
<1>7. bad' = Cardinality(Failing) /\ bad' \in 0 .. N
  <2>1. CASE st = OK
    BY <1>2, <1>3, <1>4, <1>5, <2>1
  <2>2. CASE st # OK
    <3>1. Cardinality(Failing) = Cardinality(Failed) + 1
      BY <1>5, <1>6, <2>2, FS_AddElement
    <3>2. Cardinality(Failing) <= N
      BY <1>1, <1>6, FS_Subset
    <3>3. QED
      BY <1>1, <1>2, <1>3, <1>4, <2>2, <3>1, <3>2
  <2>3. QED
    BY <2>1, <2>2
<1>8. \A g \in Counted' : Weight(results[g]') <= status'
  <2>1. w \in Nat /\ status \in Nat /\ status <= status' /\ w <= status'
    BY <1>2, <1>3, <1>4 DEF OK, REFUSED, IO, INTERNAL
  <2>2. Weight(results'[f]) = w
    BY DEF w
  <2>3. \A g \in Counted : Weight(results[g]) <= status'
    <3> SUFFICES ASSUME NEW g \in Counted PROVE Weight(results[g]) <= status'
      OBVIOUS
    <3>1. results[g] \in Statuses \cup {-1}
      BY DEF IInv, Known
    <3>2. Weight(results[g]) \in Int
      BY <3>1 DEF Weight, Statuses, OK, REFUSED, IO, INTERNAL, Killed
    <3>3. status' \in Nat
      BY <1>2, <1>3, <1>4 DEF OK, REFUSED, IO, INTERNAL
    <3>4. QED
      BY <1>3, <2>1, <3>2, <3>3
  <2>4. QED
    BY <2>1, <2>2, <2>3
<1>9. status' = OK \/ \E g \in Counted' : Weight(results'[g]) = status'
  <2>1. CASE w > status
    BY <1>4, <2>1 DEF w
  <2>2. CASE ~(w > status)
    BY <1>3, <1>4, <2>2
  <2>3. QED
    BY <2>1, <2>2
<1>10. status' \in {OK, REFUSED, IO, INTERNAL}
  BY <1>2, <1>3, <1>4
<1>11. QED
  BY <1>7, <1>8, <1>9, <1>10 DEF Tally, Failing

(* The tally is kept while the files in it stay.                           *)
LEMMA TallyStays ==
  ASSUME IInv, bad' = bad, status' = status, phase' # "died" => phase # "died",
         Counted' = Counted, \A g \in Counted : results'[g] = results[g]
  PROVE  Tally'
<1>1. {g \in Counted : results[g] # OK} = {g \in Counted' : results'[g] # OK}
  OBVIOUS
<1>2. bad' \in 0 .. N /\ status' \in {OK, REFUSED, IO, INTERNAL}
  BY DEF IInv, Tally
<1>3. ASSUME phase # "died"
      PROVE  /\ \A f \in Counted' : Weight(results'[f]) <= status'
             /\ status' = OK \/ \E f \in Counted' : Weight(results'[f]) = status'
             /\ bad' = Cardinality({f \in Counted' : results'[f] # OK})
  BY <1>1, <1>3 DEF IInv, Tally
<1>4. QED
  BY <1>2, <1>3 DEF Tally

(* What every step leaves alone.                                           *)
LEMMA HostStays ==
  ASSUME IInv, UNCHANGED <<host, q, jobs>>
  PROVE  Queue' /\ Fitted' /\ jobs \in 1 .. N
<1>1. jobs \in 1 .. N
  BY JobsInRange DEF IInv, Fitted
<1>2. QED
  BY <1>1 DEF IInv, Queue, Fitted

LEMMA ForkKeeps == ASSUME IInv, Fork PROVE IInv'
<1> DEFINE f == q[i + 1].order
<1>1. /\ phase = "spawn" /\ i < N /\ ~(live >= jobs)
      /\ i' = i + 1 /\ live' = live + 1 /\ running' = running \cup {f} /\ ended' = ended
      /\ results' = results /\ bad' = bad /\ status' = status /\ phase' = phase
      /\ UNCHANGED <<host, q, jobs>>
  BY DEF Fork, Spawning, Full
<1>2. Queue /\ i \in 0 .. N /\ N \in Nat /\ running \cup ended \subseteq Taken
  BY FilesFinite DEF IInv, Children
<1>3. /\ f \in Files \ Taken /\ Taken \subseteq Files /\ IsFiniteSet(Taken)
      /\ Taken' = Taken \cup {f} /\ i' \in 0 .. N
  BY <1>1, <1>2, TakenFacts, TakesOne
<1> HIDE DEF f
<1>4. Queue' /\ Fitted' /\ jobs \in 1 .. N
  BY <1>1, HostStays
<1>5. Children'
  <2>1. IsFiniteSet(running \cup ended) /\ f \notin running \cup ended
    BY <1>2, <1>3, FS_Subset
  <2>2. running' \cup ended' = (running \cup ended) \cup {f}
    BY <1>1
  <2>3. Cardinality(running' \cup ended') = Cardinality(running \cup ended) + 1
    BY <2>1, <2>2, FS_AddElement
  <2>4. Cardinality(running \cup ended) = live /\ live \in Nat
    BY <2>1, FS_CardinalityType DEF IInv, Children
  <2>5. running' \cap ended' = {} /\ running' \cup ended' \subseteq Taken'
    BY <1>1, <1>2, <1>3, <2>1 DEF IInv, Children
  <2>6. live' <= jobs'
    BY <1>1, <1>4, <2>4
  <2>7. QED
    BY <1>1, <1>3, <2>3, <2>4, <2>5, <2>6 DEF IInv, Children
<1>6. Known'
  <2>1. results[f] = -1
    BY <1>3 DEF IInv, Known
  <2>2. QED
    BY <1>1, <1>3, <2>1 DEF IInv, Known
<1>7. Tally'
  <2>1. Counted' = Counted
    BY <1>1, <1>2, <1>3 DEF Counted
  <2>2. QED
    BY <1>1, <2>1, TallyStays
<1>8. QED
  BY <1>4, <1>5, <1>6, <1>7 DEF IInv

(* The parent takes a file, to run it to a status.                         *)
LEMMA HereTakes ==
  ASSUME IInv, Spawning, i' = i + 1, UNCHANGED <<host, q, jobs, live, running, ended>>,
         NEW st \in Statuses, results' = [results EXCEPT ![q[i + 1].order] = st],
         phase' \in {"spawn", "died"}
  PROVE  /\ Queue' /\ Fitted' /\ Children' /\ Known' /\ Counted \subseteq Files
         /\ q[i + 1].order \in Files \ Counted /\ Counted' = Counted \cup {q[i + 1].order}
         /\ results'[q[i + 1].order] = st /\ \A g \in Counted : results'[g] = results[g]
<1> DEFINE f == q[i + 1].order
<1>1. Queue /\ i \in 0 .. N /\ N \in Nat /\ running \cup ended \subseteq Taken /\ i < N
  BY FilesFinite DEF IInv, Children, Spawning
<1>2. /\ f \in Files \ Taken /\ Taken \subseteq Files /\ Taken' = Taken \cup {f} /\ i' \in 0 .. N
  BY <1>1, TakenFacts, TakesOne
<1>3. results' = [results EXCEPT ![f] = st]
  OBVIOUS
<1> HIDE DEF f
<1>4. Queue' /\ Fitted' /\ Children'
  BY <1>1, <1>2, HostStays DEF IInv, Children
<1>5. results' \in [Files -> Statuses \cup {-1}] /\ results'[f] = st
      /\ \A g \in Files : g # f => results'[g] = results[g]
  BY <1>2, <1>3 DEF IInv, Known
<1>6. Known'
  <2>1. st # -1
    BY DEF Statuses, OK, REFUSED, IO, INTERNAL, Killed
  <2>2. f \notin running
    BY <1>1, <1>2
  <2>3. QED
    BY <1>2, <1>5, <2>1, <2>2 DEF IInv, Known
<1>7. Counted \subseteq Files /\ f \in Files \ Counted /\ Counted' = Counted \cup {f}
  BY <1>1, <1>2 DEF Counted
<1>8. \A g \in Counted : results'[g] = results[g]
  BY <1>5, <1>7
<1>9. QED
  BY <1>4, <1>5, <1>6, <1>7, <1>8 DEF f

LEMMA RunHereKeeps == ASSUME IInv, RunHere PROVE IInv'
<1>1. PICK st \in {OK, REFUSED, IO} :
        results' = [results EXCEPT ![q[i + 1].order] = st] /\ pool_failed(st)
  BY DEF RunHere
<1>2. /\ Spawning /\ i' = i + 1 /\ phase' = phase /\ phase = "spawn"
      /\ UNCHANGED <<host, q, jobs, live, running, ended>>
  BY DEF RunHere, Spawning
<1>3. st \in Statuses /\ Weight(st) = st
  BY DEF Statuses, Weight, OK, REFUSED, IO, Killed
<1> DEFINE f == q[i + 1].order
<1>4. /\ Queue' /\ Fitted' /\ Children' /\ Known' /\ Counted \subseteq Files
      /\ f \in Files \ Counted /\ Counted' = Counted \cup {f}
      /\ results'[f] = st /\ \A g \in Counted : results'[g] = results[g]
  BY <1>1, <1>2, <1>3, HereTakes
<1> HIDE DEF f
<1>5. phase # "died" /\ pool_failed(Weight(st))
  BY <1>1, <1>2, <1>3
<1>6. Tally'
  BY <1>3, <1>4, <1>5, CountsOne
<1>7. QED
  BY <1>4, <1>6 DEF IInv

LEMMA FatalHereKeeps == ASSUME IInv, FatalHere PROVE IInv'
<1>1. PICK st \in {REFUSED, IO, INTERNAL} :
        results' = [results EXCEPT ![q[i + 1].order] = st] /\ status' = st
  BY DEF FatalHere
<1>2. /\ Spawning /\ i' = i + 1 /\ phase' = "died" /\ bad' = bad
      /\ UNCHANGED <<host, q, jobs, live, running, ended>>
  BY DEF FatalHere
<1>3. st \in Statuses
  BY DEF Statuses
<1>4. Queue' /\ Fitted' /\ Children' /\ Known'
  BY <1>1, <1>2, <1>3, HereTakes
<1>5. Tally'
  BY <1>1, <1>2 DEF IInv, Tally
<1>6. QED
  BY <1>4, <1>5 DEF IInv

LEMMA ReapKeeps == ASSUME IInv, pool_reap PROVE IInv'
<1>1. PICK f \in ended : /\ ended' = ended \ {f}
                         /\ pool_failed(Weight(results[f]))
  BY DEF pool_reap, Weight
<1>2. /\ phase = "spawn" /\ phase' = phase /\ live' = live - 1 /\ i' = i /\ running' = running
      /\ results' = results /\ UNCHANGED <<host, q, jobs>>
  BY DEF pool_reap
<1>3. /\ Queue /\ i \in 0 .. N /\ N \in Nat /\ running \cup ended \subseteq Taken
      /\ running \cap ended = {}
  BY FilesFinite DEF IInv, Children
<1>4. Taken \subseteq Files /\ IsFiniteSet(Taken) /\ Taken' = Taken
  BY <1>2, <1>3, TakenFacts DEF Taken
<1>5. Queue' /\ Fitted' /\ jobs \in 1 .. N
  BY <1>2, HostStays
<1>6. Children'
  <2>1. IsFiniteSet(running \cup ended) /\ f \in running \cup ended
    BY <1>3, <1>4, FS_Subset
  <2>2. running' \cup ended' = (running \cup ended) \ {f}
    BY <1>1, <1>2, <1>3
  <2>3. Cardinality(running' \cup ended') = Cardinality(running \cup ended) - 1
    BY <2>1, <2>2, FS_RemoveElement
  <2>4. Cardinality(running \cup ended) = live /\ live \in Nat /\ live <= jobs
    BY <2>1, FS_CardinalityType DEF IInv, Children
  <2>5. running' \cap ended' = {} /\ running' \cup ended' \subseteq Taken'
    BY <1>1, <1>2, <1>3, <1>4
  <2>6. live' <= jobs'
    BY <1>2, <1>5, <2>4
  <2>7. QED
    BY <1>2, <1>3, <2>3, <2>4, <2>5, <2>6 DEF IInv, Children
<1>7. Known'
  BY <1>2, <1>4 DEF IInv, Known
<1>8. Tally'
  <2>1. f \in Files \ Counted /\ Counted \subseteq Files /\ Counted' = Counted \cup {f}
    BY <1>1, <1>2, <1>3, <1>4 DEF Counted
  <2>2. results[f] # -1 /\ results[f] \in Statuses
    BY <1>1, <1>3, <1>4 DEF IInv, Known
  <2> DEFINE st == results[f]
  <2>3. st \in Statuses /\ pool_failed(Weight(st)) /\ results'[f] = st
    BY <1>1, <1>2, <2>2
  <2> HIDE DEF st
  <2>4. phase # "died" /\ \A g \in Counted : results'[g] = results[g]
    BY <1>2
  <2>5. QED
    BY <2>1, <2>3, <2>4, CountsOne
<1>9. QED
  BY <1>5, <1>6, <1>7, <1>8 DEF IInv

LEMMA ReturnKeeps == ASSUME IInv, Return PROVE IInv'
<1>1. /\ phase = "spawn" /\ i = N /\ live = 0 /\ phase' = "returned"
      /\ UNCHANGED <<host, q, jobs, i, live, running, ended, results, bad, status>>
  BY DEF Return
<1>2. Taken' = Taken /\ Counted' = Counted
  BY <1>1 DEF Taken, Counted
<1>3. Queue' /\ Fitted' /\ Known' /\ Children'
  BY <1>1, <1>2, HostStays DEF IInv, Known, Children
<1>4. Tally'
  BY <1>1, <1>2, TallyStays
<1>5. QED
  BY <1>3, <1>4 DEF IInv

(* A child that ends is not in the tally yet.                              *)
LEMMA ExitKeeps == ASSUME IInv, NEW f \in Files, Exit(f) PROVE IInv'
<1>1. PICK st \in Statuses : results' = [results EXCEPT ![f] = st]
  BY DEF Exit, Statuses
<1>2. /\ f \in running /\ running' = running \ {f} /\ ended' = ended \cup {f}
      /\ UNCHANGED <<host, q, jobs, i, live, bad, status, phase>>
  BY DEF Exit
<1>3. running \cup ended \subseteq Taken /\ running \cap ended = {}
  BY DEF IInv, Children
<1>4. /\ Taken' = Taken /\ Counted' = Counted /\ f \notin Counted
      /\ running' \cup ended' = running \cup ended /\ running' \cap ended' = {}
  BY <1>2, <1>3 DEF Taken, Counted
<1>5. Queue' /\ Fitted'
  BY <1>2, HostStays
<1>6. Children'
  BY <1>2, <1>4 DEF IInv, Children
<1>7. /\ results' \in [Files -> Statuses \cup {-1}] /\ results'[f] = st
      /\ \A g \in Files : g # f => results'[g] = results[g]
  BY <1>1 DEF IInv, Known
<1>8. Known'
  <2>1. st # -1
    BY DEF Statuses, OK, REFUSED, IO, INTERNAL, Killed
  <2>2. QED
    BY <1>2, <1>3, <1>4, <1>7, <2>1 DEF IInv, Known
<1>9. Tally'
  <2>1. Counted \subseteq Files
    BY TakenFacts DEF IInv, Children, Counted
  <2>2. \A g \in Counted : results'[g] = results[g]
    BY <1>4, <1>7, <2>1
  <2>3. QED
    BY <1>2, <1>4, <2>2, TallyStays
<1>10. QED
  BY <1>5, <1>6, <1>8, <1>9 DEF IInv

LEMMA NextKeeps == IInv /\ [Next]_vars => IInv'
<1> SUFFICES ASSUME IInv, [Next]_vars PROVE IInv'
  OBVIOUS
<1>1. CASE Parent
  BY <1>1, ForkKeeps, RunHereKeeps, FatalHereKeeps, ReapKeeps, ReturnKeeps DEF Parent
<1>2. CASE \E f \in Files : Exit(f)
  BY <1>2, ExitKeeps
<1>3. CASE UNCHANGED vars
  <2>1. Taken' = Taken /\ Counted' = Counted
    BY <1>3 DEF vars, Taken, Counted
  <2>2. Queue' /\ Fitted' /\ Children' /\ Known' /\ Tally'
    BY <1>3, <2>1 DEF vars, IInv, Queue, Fitted, Children, Known, Tally
  <2>3. QED
    BY <2>2 DEF IInv
<1>4. QED
  BY <1>1, <1>2, <1>3 DEF Next

LEMMA Invariant == Spec => []IInv
BY InitIInv, NextKeeps, PTL DEF Spec

-----------------------------------------------------------------------------
(* The parent's count of its children is the number of those that are at   *)
(* work or not yet waited for, and never more than jobs; a child is of a   *)
(* file that was begun (main.c:441-461).                                   *)
THEOREM ChildrenAreCounted == Spec => []TypeOK
<1>1. IInv => TypeOK
  <2> SUFFICES ASSUME IInv PROVE TypeOK
    OBVIOUS
  <2>1. jobs \in 1 .. N
    BY JobsInRange DEF IInv, Fitted
  <2>2. results \in [Files -> {-1, OK, REFUSED, IO, INTERNAL, Killed}]
    BY DEF IInv, Known, Statuses
  <2>3. QED
    BY <2>1, <2>2 DEF IInv, Children, Tally, Taken, TypeOK
<1>2. QED
  BY <1>1, Invariant, PTL

(* A batch that returns has run every file, and returns the highest of     *)
(* their statuses and the number of those that failed, whichever ended     *)
(* first, were killed or had to be run by the parent (main.c:380-386).     *)
THEOREM ReturnsHighest == Spec => []HighestStatus
<1>1. IInv => HighestStatus
  <2> SUFFICES ASSUME IInv, phase = "returned"
               PROVE  /\ \A f \in Files : results[f] # -1
                      /\ status = Max({Weight(results[f]) : f \in Files})
                      /\ bad = Cardinality({f \in Files : results[f] # OK})
    BY DEF HighestStatus, Weight
  <2>1. N \in Nat /\ N # 0 /\ 1 \in Files /\ Taken = Files /\ IsFiniteSet(Taken)
    BY FilesFinite, TakenFacts DEF IInv, Children, Files
  <2>2. running = {} /\ ended = {}
    <3>1. IsFiniteSet(running \cup ended) /\ Cardinality(running \cup ended) = 0
      BY <2>1, FS_Subset DEF IInv, Children
    <3>2. running \cup ended = {}
      BY <3>1, FS_EmptySet
    <3>3. QED
      BY <3>2
  <2>3. Counted = Files
    BY <2>1, <2>2 DEF Counted
  <2>4. \A f \in Files : results[f] \in Statuses
    BY <2>1, <2>2 DEF IInv, Known
  <2> DEFINE S == {Weight(results[f]) : f \in Files}
  <2>5. status \in S
    <3>1. status = OK \/ \E f \in Files : Weight(results[f]) = status
      BY <2>3 DEF IInv, Tally
    <3>2. CASE status = OK
      <4>1. Weight(results[1]) <= OK
        BY <2>1, <2>3, <3>2 DEF IInv, Tally
      <4>2. results[1] \in Statuses
        BY <2>1, <2>4
      <4>3. Weight(results[1]) = OK
        BY <4>1, <4>2 DEF Weight, Statuses, OK, REFUSED, IO, INTERNAL, Killed
      <4>4. QED
        BY <2>1, <3>2, <4>3
    <3>3. QED
      BY <3>1, <3>2
  <2>6. \A x \in S : status >= x /\ x \in Int
    <3> SUFFICES ASSUME NEW f \in Files
                 PROVE  status >= Weight(results[f]) /\ Weight(results[f]) \in Int
      OBVIOUS
    <3>1. Weight(results[f]) <= status /\ status \in {OK, REFUSED, IO, INTERNAL}
      BY <2>3 DEF IInv, Tally
    <3>2. Weight(results[f]) \in Int
      BY <2>4 DEF Weight, Statuses, OK, REFUSED, IO, INTERNAL, Killed
    <3>3. QED
      BY <3>1, <3>2 DEF OK, REFUSED, IO, INTERNAL
  <2>7. status = Max(S)
    <3> HIDE DEF S
    <3>1. Max(S) \in S /\ \A y \in S : Max(S) >= y
      BY <2>5, <2>6 DEF Max
    <3>2. QED
      BY <2>5, <2>6, <3>1
  <2>8. bad = Cardinality({f \in Files : results[f] # OK})
    BY <2>3 DEF IInv, Tally
  <2>9. \A f \in Files : results[f] # -1
    BY <2>1, <2>2 DEF IInv, Known
  <2>10. QED
    BY <2>7, <2>8, <2>9
<1>2. QED
  BY <1>1, Invariant, PTL

-----------------------------------------------------------------------------
(* The need of the files whose children are at work.                       *)
LEMMA RunningNeed ==
  ASSUME IInv, NEW big \in Nat, \A k \in Files : q[k].size <= big
  PROVE  LET need(k) == IF q[k].order \in running THEN Need(q[k].size) ELSE 0
         IN  /\ MapThenSumSet(need, Files) \in Nat
             /\ MapThenSumSet(need, Files) <= Need(big) * Cardinality(running)
<1> DEFINE need(k) == IF q[k].order \in running THEN Need(q[k].size) ELSE 0
           Sum(f) == f = [s \in SUBSET Files |->
                   IF s = {} THEN 0
                   ELSE need(CHOOSE x \in s : TRUE) + f[s \ {CHOOSE x \in s : TRUE}]]
           it == CHOOSE f : Sum(f)
           h == [k \in Files |-> need(k)]
           T == {k \in Files : q[k].order \in running}
           B == Need(big)
<1>1. MapThenSumSet(need, Files) = it[Files]
  BY DEF MapThenSumSet, MapThenFoldSet
<1>2. IsFiniteSet(Files) /\ IsFiniteSet(running) /\ FixedCost \in Nat /\ running \subseteq Files
  BY FilesFinite, TakenFacts, FS_Subset, BatchAssumption DEF IInv, Children
<1>3. \A k \in Files : Need(q[k].size) \in Nat /\ Need(q[k].size) <= B
  <2> SUFFICES ASSUME NEW k \in Files PROVE Need(q[k].size) \in Nat /\ Need(q[k].size) <= B
    OBVIOUS
  <2>1. q[k].size \in Nat /\ q[k].size <= big
    BY DEF IInv, Queue
  <2>2. QED
    BY <1>2, <2>1 DEF Need
<1>4. B \in Nat
  BY <1>2 DEF Need
<1> HIDE DEF B
<1>5. h \in [Files -> Nat] /\ (\A k \in T : h[k] <= B) /\ \A k \in Files \ T : h[k] = 0
  BY <1>3
<1>6. \A f : Sums(f, Files, h) <=> Sum(f)
  <2>1. \A k \in Files : h[k] = need(k)
    OBVIOUS
  <2>2. \A s \in SUBSET Files : s # {} => (CHOOSE x \in s : TRUE) \in Files
    OBVIOUS
  <2> HIDE DEF h, need
  <2>3. QED
    BY <2>1, <2>2 DEF Sums
<1>7. Cardinality(T) <= Cardinality(running) /\ Cardinality(T) \in Nat /\ T \in SUBSET Files
  <2> DEFINE order == [k \in T |-> q[k].order]
  <2>1. order \in [T -> running] /\ \A k, l \in T : order[k] = order[l] => k = l
    BY DEF IInv, Queue
  <2>2. T \in SUBSET Files
    OBVIOUS
  <2> HIDE DEF order, T
  <2>3. order \in Injection(T, running)
    BY <2>1 DEF Injection, IsInjective
  <2>4. Cardinality(T) \in Nat
    BY <1>2, <2>2, FS_Subset, FS_CardinalityType
  <2>5. QED
    BY <1>2, <2>2, <2>3, <2>4, FS_Injection
<1> HIDE DEF h, Sum, T
<1>8. \E f : Sums(f, Files, h)
  BY <1>2, <1>5, SumsExist
<1>9. Sums(it, Files, h)
  BY <1>6, <1>8
<1> HIDE DEF it
<1>10. it[Files] \in Nat /\ it[Files] <= B * Cardinality(T)
  BY <1>2, <1>4, <1>5, <1>7, <1>9, SumsBounded
<1>11. B * Cardinality(T) <= B * Cardinality(running)
  <2>1. \A x, y \in Nat : x <= y => B * x <= B * y
    BY <1>4
  <2>2. Cardinality(running) \in Nat
    BY <1>2, FS_CardinalityType
  <2>3. QED
    BY <1>7, <2>1, <2>2
<1>12. B * Cardinality(T) \in Nat /\ B * Cardinality(running) \in Nat
  <2>1. \A x \in Nat : B * x \in Nat
    BY <1>4
  <2>2. QED
    BY <1>2, <1>7, <2>1, FS_CardinalityType
<1>13. it[Files] <= B * Cardinality(running)
  BY <1>10, <1>11, <1>12
<1>14. QED
  BY <1>1, <1>10, <1>13 DEF B

(* Left to itself, a batch has no more children at work than there is      *)
(* memory for, by what the files are taken to need; but one at least       *)
(* (main.c:487-497).                                                       *)
THEOREM ChildrenFit == Spec => []MemoryFits
<1>1. IInv => MemoryFits
  <2> SUFFICES ASSUME IInv, host.requested = 0, host.avail > 0, Cardinality(running) > 1
               PROVE  LET need(k) == IF q[k].order \in running THEN Need(q[k].size) ELSE 0
                      IN  MapThenSumSet(need, 1 .. N) <= host.avail
    BY DEF MemoryFits
  <2> DEFINE need(k) == IF q[k].order \in running THEN Need(q[k].size) ELSE 0
             sum == MapThenSumSet(need, Files)
             n == Cardinality(running)
  <2>1. PICK big \in Nat : (\A k \in Files : q[k].size <= big) /\ jobs = JobsFor(host, big)
    BY DEF IInv, Fitted
  <2> DEFINE B == Need(big)
             room == host.avail \div B
  <2>2. sum \in Nat /\ sum <= B * n
    BY <2>1, RunningNeed
  <2> HIDE DEF sum
  <2>3. B \in Nat \ {0} /\ host.avail \in Nat /\ host.cores \in Nat
    BY BatchAssumption DEF IInv, Fitted, Need
  <2>4. n \in Nat /\ n <= live
    <3>1. IsFiniteSet(running \cup ended)
      BY TakenFacts, FS_Subset DEF IInv, Children
    <3>2. IsFiniteSet(running) /\ n <= Cardinality(running \cup ended)
      BY <3>1, FS_Subset
    <3>3. QED
      BY <3>2, FS_CardinalityType DEF IInv, Children
  <2>5. live \in Nat /\ live <= jobs
    BY TakenFacts, FS_Subset, FS_CardinalityType DEF IInv, Children
  <2>6. N \in Nat
    BY FilesFinite
  <2> HIDE DEF n
  <2>7. n <= room /\ room \in Nat
    <3>1. n > 1
      BY DEF n
    <3>2. room \in Nat
      BY <2>3
    <3>3. jobs = LET wanted == Lesser(host.cores, room)
                 IN  Lesser(IF wanted < 1 THEN 1 ELSE wanted, N)
      BY <2>1 DEF JobsFor
    <3> HIDE DEF room
    <3>4. QED
      BY <2>3, <2>4, <2>5, <2>6, <3>1, <3>2, <3>3 DEF Lesser
  <2> HIDE DEF B
  <2>8. B * room <= host.avail
    BY <2>3
  <2> HIDE DEF room
  <2>9. B * n <= B * room
    BY <2>3, <2>4, <2>7
  <2>10. B * n \in Nat /\ B * room \in Nat
    BY <2>3, <2>4, <2>7
  <2>11. sum <= host.avail
    BY <2>2, <2>3, <2>8, <2>9, <2>10
  <2>12. QED
    BY <2>11 DEF sum, Files
<1>2. QED
  BY <1>1, Invariant, PTL
=============================================================================
