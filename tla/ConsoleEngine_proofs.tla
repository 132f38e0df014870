------------------------ MODULE ConsoleEngine_proofs -------------------------
(***************************************************************************)
(* Proofs about the console, for any runs, peaks, cap and scenarios: about *)
(* ConsoleEngine its types, that the reservations are those of the runs in *)
(* flight and fit beside what was in the account (Reservations), and that  *)
(* the account-wide sweep at the end of a run meets no other run's pytest  *)
(* (EndSweepAlone); about PostRunRescans that no late growth goes without  *)
(* an alert (LateAlertKept).  With what ControlPlane_proofs says of the    *)
(* runs table, these are the types of the platform (PlatformTypeOK).       *)
(*                                                                         *)
(* ConsoleInv ties the queue to the threads that wait in it and the        *)
(* reservations to the threads in flight.  Most steps put the record of    *)
(* one run, so the lemmas about a step speak of that record q (Puts), and  *)
(* those about a look at the queue of the runs that start together.        *)
(***************************************************************************)
EXTENDS ConsoleEngine, PostRunRescans, PlatformTypes, ControlPlane_proofs, SequenceTheorems, TLAPS

-----------------------------------------------------------------------------
(* The console: slots and the queue *)

SlotsOf(R) == {slot \in R \X (1 .. CapVpcs) : slot[2] <= Peak[slot[1]]}

LEMMA SlotsFinite ==
  ASSUME NEW R, R \subseteq Admitted
  PROVE  /\ IsFiniteSet(SlotsOf(R)) /\ Slots(R) = Cardinality(SlotsOf(R))
         /\ Slots(R) \in Nat
<1>1. IsFiniteSet(R)
  BY ConsoleAssumption, FS_Subset DEF Runs
<1>2. IsFiniteSet(1 .. CapVpcs)
  BY ConsoleAssumption, FS_Interval, 1 \in Int, CapVpcs \in Int
<1>3. IsFiniteSet(R \X (1 .. CapVpcs))
  BY <1>1, <1>2, FS_Product
<1>4. IsFiniteSet(SlotsOf(R))
  BY <1>3, FS_Subset DEF SlotsOf
<1>5. QED
  BY <1>4, FS_CardinalityType DEF Slots, SlotsOf

\* A run more takes at most its peak.
LEMMA SlotsOfOneMore ==
  ASSUME NEW R, R \subseteq Admitted, NEW r \in Admitted
  PROVE  Slots(R \cup {r}) <= Slots(R) + Peak[r]
<1> DEFINE own == {r} \X (1 .. Peak[r])
<1>1. CapVpcs \in Nat /\ Peak[r] \in Nat /\ Peak[r] <= CapVpcs
  BY ConsoleAssumption
<1>2. IsFiniteSet(1 .. Peak[r]) /\ Cardinality(1 .. Peak[r]) = Peak[r]
  <2>1. 1 \in Int /\ Peak[r] \in Int
    BY <1>1
  <2>2. Cardinality(1 .. Peak[r]) = IF 1 > Peak[r] THEN 0 ELSE Peak[r] - 1 + 1
    BY <2>1, FS_Interval
  <2>3. IsFiniteSet(1 .. Peak[r])
    BY <2>1, FS_Interval
  <2>4. QED
    BY <1>1, <2>2, <2>3
<1>3. IsFiniteSet(own) /\ Cardinality(own) = Peak[r]
  <2>1. IsFiniteSet({r}) /\ Cardinality({r}) = 1
    BY FS_Singleton
  <2>2. IsFiniteSet(own) /\ Cardinality(own) = Cardinality({r}) * Cardinality(1 .. Peak[r])
    BY <1>2, <2>1, FS_Product
  <2>3. QED
    BY <1>1, <1>2, <2>1, <2>2
<1>4. SlotsOf(R \cup {r}) = SlotsOf(R) \cup own
  BY <1>1 DEF SlotsOf
<1> HIDE DEF own
<1>5. IsFiniteSet(SlotsOf(R)) /\ Slots(R) = Cardinality(SlotsOf(R)) /\ Slots(R) \in Nat
  BY SlotsFinite
<1>6. Slots(R \cup {r}) = Cardinality(SlotsOf(R) \cup own)
  <2>1. R \cup {r} \subseteq Admitted
    OBVIOUS
  <2>2. QED
    BY <1>4, <2>1, SlotsFinite
<1>7. Cardinality(SlotsOf(R) \cup own)
        = Cardinality(SlotsOf(R)) + Cardinality(own) - Cardinality(SlotsOf(R) \cap own)
  BY <1>3, <1>5, FS_Union
<1>8. Cardinality(SlotsOf(R) \cap own) \in Nat
  BY <1>3, <1>5, FS_Intersection, FS_CardinalityType
<1>9. Slots(R \cup {r}) = Slots(R) + Peak[r] - Cardinality(SlotsOf(R) \cap own)
  BY <1>3, <1>5, <1>6, <1>7
<1>10. QED
  BY <1>1, <1>5, <1>8, <1>9

\* Runs with a peak of 0 take nothing.
LEMMA SlotsOfFreeRuns ==
  ASSUME NEW R, R \subseteq Admitted, NEW S, S \subseteq Admitted, R \subseteq S,
         \A r \in S \ R : Peak[r] = 0
  PROVE  Slots(S) = Slots(R)
<1>1. SlotsOf(S) = SlotsOf(R)
  <2>1. ASSUME NEW slot \in SlotsOf(S) PROVE slot \in SlotsOf(R)
    <3>1. slot \in S \X (1 .. CapVpcs) /\ slot[2] <= Peak[slot[1]]
      BY DEF SlotsOf
    <3>2. slot[1] \in R
      BY <3>1, ConsoleAssumption
    <3>3. QED
      BY <3>1, <3>2 DEF SlotsOf
  <2>2. QED
    BY <2>1 DEF SlotsOf
<1>2. QED
  BY <1>1, SlotsFinite

LEMMA SlotsOfFewer ==
  ASSUME NEW R, NEW S, S \subseteq Admitted, R \subseteq S
  PROVE  Slots(R) <= Slots(S)
<1>1. SlotsOf(R) \subseteq SlotsOf(S)
  BY DEF SlotsOf
<1>2. QED
  BY <1>1, SlotsFinite, FS_Subset

\* The runs in flight and those of the queue before the i-th.
Before(i) == reserved \cup {queue[j] : j \in 1 .. i - 1}

\* The number that is picked is one that fits.
LEMMA ReadyFits ==
  ASSUME NEW base, queue \in Seq(Admitted)
  PROVE  /\ Ready(base) \in 0 .. Len(queue)
         /\ \A i \in 1 .. Ready(base) : Fits(base, Before(i), queue[i])
<1> DEFINE Ok(i) == Fits(base, Before(i), queue[i])
           FitTo(k) == \A i \in 1 .. k : Ok(i)
           Is(k) == FitTo(k) /\ (k = Len(queue) \/ ~FitTo(k + 1))
<1>1. Len(queue) \in Nat
  OBVIOUS
<1>2. Ready(base) = CHOOSE k \in 0 .. Len(queue) : Is(k)
  BY DEF Ready, Before
<1> HIDE DEF Ok
<1>3. \E k \in 0 .. Len(queue) : Is(k)
  <2>1. CASE \A i \in 1 .. Len(queue) : Ok(i)
    BY <1>1, <2>1
  <2>2. CASE \E i \in 1 .. Len(queue) : ~Ok(i)
    <3> DEFINE bad == {i \in 1 .. Len(queue) : ~Ok(i)}
    <3>1. bad \in SUBSET Nat /\ bad # {}
      BY <1>1, <2>2
    <3>2. PICK i \in bad : \A j \in bad : i <= j
      BY <3>1, LeastNumber
    <3>3. i - 1 \in 0 .. Len(queue) /\ FitTo(i - 1) /\ ~FitTo((i - 1) + 1)
      BY <1>1, <3>2
    <3>4. QED
      BY <3>3
  <2>3. QED
    BY <2>1, <2>2
<1>4. PICK k \in 0 .. Len(queue) : Is(k) /\ k = Ready(base)
  <2> HIDE DEF Is
  <2>1. QED
    BY <1>2, <1>3
<1>5. QED
  BY <1>4 DEF Ok

\* The runs that start from the queue fit together, beside those in flight.
LEMMA ReadyFitsTogether ==
  ASSUME queue \in Seq(Admitted), reserved \subseteq Admitted, NEW base \in Nat,
         NEW k \in 0 .. Len(queue), \A i \in 1 .. k : Fits(base, Before(i), queue[i]),
         NEW ready, ready = {queue[i] : i \in 1 .. k}
  PROVE  \/ Slots(reserved \cup ready) = Slots(reserved)
         \/ reserved \cup ready # {} /\ base + Slots(reserved \cup ready) <= CapVpcs
<1> DEFINE free == {i \in 0 .. k : \A j \in i + 1 .. k : Peak[queue[j]] = 0}
<1>1. Len(queue) \in Nat /\ k \in Nat /\ \A i \in 1 .. k : queue[i] \in Admitted
  OBVIOUS
<1>2. free \in SUBSET Nat /\ free # {}
  <2>1. k \in free
    BY <1>1
  <2>2. free \subseteq Nat
    BY <1>1
  <2>3. QED
    BY <2>1, <2>2
<1>3. PICK i \in free : \A j \in free : i <= j
  BY <1>2, LeastNumber
<1>4. CASE i = 0
  <2>1. \A r \in (reserved \cup ready) \ reserved : Peak[r] = 0
    BY <1>1, <1>3, <1>4
  <2>2. QED
    BY <1>1, <2>1, SlotsOfFreeRuns
<1>5. CASE i # 0
  <2>1. i \in 1 .. k /\ i \in Nat /\ i - 1 \in 0 .. k /\ i - 1 \notin free
    BY <1>1, <1>3, <1>5
  <2>2. Peak[queue[i]] # 0
    BY <1>1, <1>3, <2>1
  <2>3. base + Slots(Before(i)) + Peak[queue[i]] <= CapVpcs
    BY <2>1, <2>2 DEF Fits
  <2>4. Before(i) \subseteq Admitted /\ queue[i] \in Admitted
    BY <1>1, <2>1 DEF Before
  <2>5. Slots(Before(i) \cup {queue[i]}) <= Slots(Before(i)) + Peak[queue[i]]
    BY <2>4, SlotsOfOneMore
  <2>6. Slots(reserved \cup ready) = Slots(Before(i) \cup {queue[i]})
    <3>1. Before(i) \cup {queue[i]} \subseteq reserved \cup ready
      BY <1>1, <2>1 DEF Before
    <3>2. ASSUME NEW r \in (reserved \cup ready) \ (Before(i) \cup {queue[i]}) PROVE Peak[r] = 0
      <4>1. PICK j \in 1 .. k : r = queue[j]
        BY DEF Before
      <4>2. ~ j <= i
        BY <1>1, <2>1, <4>1 DEF Before
      <4>3. QED
        BY <1>1, <1>3, <2>1, <4>1, <4>2
    <3>3. reserved \cup ready \subseteq Admitted
      BY <1>1
    <3>4. QED
      BY <2>4, <3>1, <3>2, <3>3, SlotsOfFreeRuns
  <2>7. Slots(Before(i)) \in Nat /\ Slots(reserved \cup ready) \in Nat /\ Peak[queue[i]] \in Nat
    BY <1>1, <2>4, SlotsFinite, ConsoleAssumption
  <2>8. base + Slots(reserved \cup ready) <= CapVpcs
    BY <2>3, <2>5, <2>6, <2>7, ConsoleAssumption
  <2>9. reserved \cup ready # {}
    <3>1. queue[i] \in ready
      BY <2>1
    <3>2. QED
      BY <3>1
  <2>10. QED
    BY <2>8, <2>9
<1>6. QED
  BY <1>4, <1>5

-----------------------------------------------------------------------------
(* The console: records and places *)

RunRecords == [status : {"none", "running", "queued", "done", "aborted", "error", "unknown"},
               at : Places, abort : BOOLEAN, kill : BOOLEAN]
RunRemains == [tree : BOOLEAN, vpc : BOOLEAN,
               log : {"none", "head", "summary", "missing", "abort"}]
Targets == [queued : SUBSET Runs, running : SUBSET Runs, run : SUBSET Runs,
            at : {"next", "dequeue", "readmit"}]

Shapes ==
  /\ rec \in [Runs -> RunRecords] /\ disk \in [Runs -> RunRemains]
  /\ queue \in Seq(Admitted) /\ IsInjective(queue)
  /\ reserved \subseteq Admitted
  /\ baseline \in Nat /\ foreign \in Nat
  /\ ticker \in [on : BOOLEAN, owed : SUBSET Runs]
  /\ op \in Targets
  /\ cron \in BOOLEAN
  /\ server \in [up : BOOLEAN, died : BOOLEAN]
  /\ left \in Bounds

InLine == {r \in Runs : rec[r].at = "waiting"}

\* The queue holds exactly the runs whose threads wait in it.
Placed ==
  /\ \A r \in Runs : rec[r].at \in {"admit", "waiting"} => r \in Admitted
  /\ server.up => ToSet(queue) = InLine
  /\ ~server.up => reserved = {} /\ queue = <<>>
  /\ ReservedExact

ConsoleInv == Shapes /\ Placed /\ ReservedFit

\* The step changes the record of one run, to q.
Puts(r, q) == q \in RunRecords /\ rec' = [rec EXCEPT ![r] = q]

LEMMA ToPuts ==
  ASSUME rec \in [Runs -> RunRecords], NEW r \in Runs, NEW place \in Places, To(r, place)
  PROVE  \E q \in RunRecords :
           /\ Puts(r, q) /\ q.at = place
           /\ q.status = rec[r].status /\ q.abort = rec[r].abort /\ q.kill = rec[r].kill
<1> DEFINE q == [rec[r] EXCEPT !.at = place]
<1>1. q \in RunRecords /\ q.at = place /\ q.status = rec[r].status
      /\ q.abort = rec[r].abort /\ q.kill = rec[r].kill
  BY DEF RunRecords
<1>2. rec' = [rec EXCEPT ![r] = q]
  BY DEF To
<1>3. QED
  BY <1>1, <1>2 DEF Puts

Sets(r, status, place) ==
  /\ rec' = [rec EXCEPT ![r].status = status, ![r].at = place]
  /\ status \in {"none", "running", "queued", "done", "aborted", "error", "unknown"}
  /\ place \in Places

LEMMA BothPut ==
  ASSUME rec \in [Runs -> RunRecords], NEW r \in Runs, NEW place, NEW status,
         Sets(r, status, place)
  PROVE  \E q \in RunRecords :
           /\ Puts(r, q) /\ q.at = place
           /\ q.status = status /\ q.abort = rec[r].abort /\ q.kill = rec[r].kill
<1> DEFINE q == [rec[r] EXCEPT !.status = status, !.at = place]
<1>1. q \in RunRecords /\ q.at = place /\ q.status = status
      /\ q.abort = rec[r].abort /\ q.kill = rec[r].kill
  BY DEF RunRecords, Sets
<1>2. rec' = [rec EXCEPT ![r] = q]
  BY DEF Sets
<1>3. QED
  BY <1>1, <1>2 DEF Puts

LEMMA KilledPuts ==
  ASSUME rec \in [Runs -> RunRecords], NEW r \in Runs, Killed(r)
  PROVE  \E q \in RunRecords :
           /\ Puts(r, q) /\ q.at = rec[r].at /\ q.kill = FALSE
           /\ q.status = rec[r].status /\ q.abort = rec[r].abort
<1> DEFINE q == [rec[r] EXCEPT !.kill = FALSE]
<1>1. q \in RunRecords /\ q.at = rec[r].at /\ q.status = rec[r].status
      /\ q.abort = rec[r].abort /\ q.kill = FALSE
  BY DEF RunRecords
<1>2. rec' = [rec EXCEPT ![r] = q]
  BY DEF Killed
<1>3. QED
  BY <1>1, <1>2 DEF Puts

LEMMA DequeuePuts ==
  ASSUME rec \in [Runs -> RunRecords], NEW r \in Runs, Dequeue(r)
  PROVE  \E q \in RunRecords :
           /\ Puts(r, q) /\ q.status = "aborted" /\ q.abort = TRUE /\ q.kill = rec[r].kill
           /\ q.at = IF rec[r].at = "waiting" THEN "over" ELSE rec[r].at
<1> DEFINE q == [rec[r] EXCEPT !.status = "aborted", !.abort = TRUE,
                               !.at = IF @ = "waiting" THEN "over" ELSE @]
<1>1. q \in RunRecords /\ q.status = "aborted" /\ q.abort = TRUE /\ q.kill = rec[r].kill
      /\ q.at = IF rec[r].at = "waiting" THEN "over" ELSE rec[r].at
  BY DEF RunRecords, Places
<1>2. rec' = [rec EXCEPT ![r] = q]
  BY DEF Dequeue
<1>3. QED
  BY <1>1, <1>2 DEF Puts

LEMMA AbortRunningPuts ==
  ASSUME rec \in [Runs -> RunRecords], NEW r \in Runs, AbortRunning(r)
  PROVE  \E q \in RunRecords :
           /\ Puts(r, q) /\ q.status = rec[r].status /\ q.abort = TRUE /\ q.at = rec[r].at
<1> DEFINE q == [rec[r] EXCEPT !.abort = TRUE, !.kill = @ \/ rec[r].at = "wait"]
<1>1. q \in RunRecords /\ q.status = rec[r].status /\ q.abort = TRUE /\ q.at = rec[r].at
  <2>1. (rec[r].kill \/ rec[r].at = "wait") \in BOOLEAN
    OBVIOUS
  <2>2. QED
    BY <2>1 DEF RunRecords
<1>2. rec' = [rec EXCEPT ![r] = q]
  BY DEF AbortRunning
<1>3. QED
  BY <1>1, <1>2 DEF Puts

\* The places in which a run has its reservation.
InFlightAt(place) == place \notin {"none", "admit", "waiting", "force", "readmit", "over"}

\* A step that neither takes nor gives a reservation nor a place in the queue.
LEMMA PutKeeps ==
  ASSUME rec \in [Runs -> RunRecords], Placed, ReservedFit, NEW r \in Runs,
         NEW q, Puts(r, q),
         InFlightAt(q.at) <=> InFlightAt(rec[r].at),
         q.at = "waiting" <=> rec[r].at = "waiting",
         q.at = "admit" => r \in Admitted,
         reserved' = reserved, queue' = queue, server' = server, baseline' = baseline
  PROVE  rec' \in [Runs -> RunRecords] /\ Placed' /\ ReservedFit'
<1>1. rec' \in [Runs -> RunRecords] /\ rec'[r] = q /\ \A s \in Runs \ {r} : rec'[s] = rec[s]
  BY DEF Puts
<1>2. InLine' = InLine
  BY <1>1 DEF InLine
<1>3. InFlight' = InFlight
  BY <1>1 DEF InFlight, InFlightAt, Runs
<1>4. \A s \in Runs : rec'[s].at \in {"admit", "waiting"} => s \in Admitted
  BY <1>1 DEF Placed
<1>5. Placed'
  BY <1>2, <1>3, <1>4 DEF Placed, ReservedExact
<1>6. ReservedFit'
  BY DEF ReservedFit, Slots
<1>7. QED
  BY <1>1, <1>5, <1>6

\* A step that leaves the records.
LEMMA StillPlaced ==
  ASSUME Placed, ReservedFit, UNCHANGED <<rec, reserved, queue, server, baseline>>
  PROVE  Placed' /\ ReservedFit'
<1>1. Placed'
  BY DEF Placed, InLine, ReservedExact, InFlight
<1>2. ReservedFit'
  BY DEF ReservedFit, Slots
<1>3. QED
  BY <1>1, <1>2

\* What a run is when it starts from the queue.
Started(q) == [q EXCEPT !.status = "running", !.at = "begin"]

LEMMA StartedFields ==
  ASSUME NEW q \in RunRecords
  PROVE  /\ Started(q) \in RunRecords
         /\ Started(q).status = "running" /\ Started(q).at = "begin"
         /\ Started(q).abort = q.abort /\ Started(q).kill = q.kill
BY DEF Started, RunRecords, Places

\* _try_admit_queue starts runs that wait, and leaves the others as it finds them.
LEMMA AdmitQueueStarts ==
  ASSUME Shapes, Placed, server.up, NEW n \in Nat, NEW R \in [Runs -> RunRecords],
         AdmitQueue(n, R)
  PROVE  \E k \in 0 .. Len(queue) : \E ready \in SUBSET InLine :
           /\ ready = {queue[i] : i \in 1 .. k}
           /\ \A i \in 1 .. k : Fits(Resynced(n), Before(i), queue[i])
           /\ baseline' = Base(Resynced(n), reserved \cup ready)
           /\ reserved' = reserved \cup ready
           /\ queue' = SubSeq(queue, k + 1, Len(queue))
           /\ \A r \in ready : rec'[r] = Started(R[r])
           /\ \A r \in Runs \ ready : rec'[r] = R[r]
           /\ rec' \in [Runs -> RunRecords]
<1> DEFINE k == Ready(Resynced(n))
           ready == {queue[i] : i \in 1 .. k}
<1>1. queue \in Seq(Admitted) /\ Len(queue) \in Nat
  BY DEF Shapes
<1>2. k \in 0 .. Len(queue) /\ \A i \in 1 .. k : Fits(Resynced(n), Before(i), queue[i])
  BY <1>1, ReadyFits
<1>3. /\ baseline' = Base(Resynced(n), reserved \cup ready)
      /\ reserved' = reserved \cup ready
      /\ queue' = SubSeq(queue, k + 1, Len(queue))
      /\ rec' = [r \in Runs |-> IF r \in ready THEN Started(R[r]) ELSE R[r]]
  BY DEF AdmitQueue, Started
<1> HIDE DEF k
<1>4. ready \in SUBSET InLine
  <2>1. ready \subseteq ToSet(queue)
    BY <1>1, <1>2 DEF ToSet
  <2>2. QED
    BY <2>1 DEF Placed
<1>5. ready \subseteq Runs
  BY <1>4 DEF InLine
<1> HIDE DEF ready
<1>6. rec' \in [Runs -> RunRecords]
  <2>1. \A r \in Runs : (IF r \in ready THEN Started(R[r]) ELSE R[r]) \in RunRecords
    BY StartedFields
  <2>2. QED
    BY <1>3, <2>1
<1>7. (\A r \in ready : rec'[r] = Started(R[r])) /\ \A r \in Runs \ ready : rec'[r] = R[r]
  BY <1>3, <1>5
<1>8. ready = {queue[i] : i \in 1 .. k}
  BY DEF ready
<1>9. QED
  BY <1>2, <1>3, <1>4, <1>6, <1>7, <1>8

LEMMA RestOfQueue ==
  ASSUME queue \in Seq(Admitted), IsInjective(queue), NEW k \in 0 .. Len(queue),
         NEW rest, rest = SubSeq(queue, k + 1, Len(queue))
  PROVE  /\ rest \in Seq(Admitted) /\ IsInjective(rest)
         /\ ToSet(rest) = ToSet(queue) \ {queue[i] : i \in 1 .. k}
<1>1. Len(queue) \in Nat /\ DOMAIN queue = 1 .. Len(queue) /\ k \in Nat
      /\ \A i \in 1 .. Len(queue) : queue[i] \in Admitted
  OBVIOUS
<1>2. k + 1 \in Int /\ Len(queue) \in Int /\ \A i \in k + 1 .. Len(queue) : queue[i] \in Admitted
  BY <1>1
<1>3. /\ rest \in Seq(Admitted)
      /\ Len(rest) = IF k + 1 <= Len(queue) THEN Len(queue) - (k + 1) + 1 ELSE 0
      /\ \A i \in 1 .. Len(queue) - (k + 1) + 1 : rest[i] = queue[(k + 1) + i - 1]
  BY <1>2, SubSeqProperties
<1>4. DOMAIN rest = 1 .. Len(queue) - k /\ \A i \in 1 .. Len(queue) - k : rest[i] = queue[k + i]
  BY <1>1, <1>3
<1>5. \A i, j \in 1 .. Len(queue) : queue[i] = queue[j] => i = j
  BY <1>1 DEF IsInjective
<1>6. IsInjective(rest)
  BY <1>1, <1>4, <1>5 DEF IsInjective
<1>7. \A r \in ToSet(rest) : r \in ToSet(queue) \ {queue[i] : i \in 1 .. k}
  BY <1>1, <1>4, <1>5 DEF ToSet
<1>8. ASSUME NEW r \in ToSet(queue) \ {queue[i] : i \in 1 .. k} PROVE r \in ToSet(rest)
  <2>1. PICK j \in 1 .. Len(queue) : r = queue[j]
    BY <1>1 DEF ToSet
  <2>2. ~ j <= k
    BY <1>1, <2>1
  <2>3. j - k \in 1 .. Len(queue) - k /\ k + (j - k) = j
    BY <1>1, <2>1, <2>2
  <2>4. QED
    BY <1>4, <2>1, <2>3 DEF ToSet
<1>9. QED
  BY <1>3, <1>6, <1>7, <1>8

LEMMA AdmitQueueKeeps ==
  ASSUME Shapes, Placed, ReservedFit, server.up, server' = server, NEW n \in Nat,
         NEW R \in [Runs -> RunRecords], AdmitQueue(n, R),
         \A r \in Runs : /\ InFlightAt(R[r].at) <=> InFlightAt(rec[r].at)
                         /\ R[r].at = "waiting" <=> rec[r].at = "waiting"
                         /\ R[r].at = "admit" => rec[r].at = "admit"
  PROVE  /\ rec' \in [Runs -> RunRecords]
         /\ queue' \in Seq(Admitted) /\ IsInjective(queue')
         /\ reserved' \subseteq Admitted /\ baseline' \in Nat
         /\ Placed' /\ ReservedFit'
<1>1. PICK k \in 0 .. Len(queue), ready \in SUBSET InLine :
           /\ ready = {queue[i] : i \in 1 .. k}
           /\ \A i \in 1 .. k : Fits(Resynced(n), Before(i), queue[i])
           /\ baseline' = Base(Resynced(n), reserved \cup ready)
           /\ reserved' = reserved \cup ready
           /\ queue' = SubSeq(queue, k + 1, Len(queue))
           /\ \A r \in ready : rec'[r] = Started(R[r])
           /\ \A r \in Runs \ ready : rec'[r] = R[r]
           /\ rec' \in [Runs -> RunRecords]
  BY AdmitQueueStarts
<1>2. /\ queue' \in Seq(Admitted) /\ IsInjective(queue')
      /\ ToSet(queue') = ToSet(queue) \ ready
  BY <1>1, RestOfQueue DEF Shapes
<1>3. ready \subseteq Admitted /\ InLine \subseteq Admitted
  BY DEF Placed, InLine
<1>4. ready \subseteq Runs /\ Admitted \subseteq Runs
  BY <1>3 DEF Runs
<1>5. \A r \in ready : rec'[r].at = "begin"
  BY <1>1, <1>4, StartedFields
<1>6. Resynced(n) \in Nat /\ baseline' \in Nat
  BY <1>1 DEF Resynced, Base, Shapes
<1>7. reserved' \subseteq Admitted
  BY <1>1, <1>3 DEF Shapes
<1>8. InLine' = InLine \ ready
  BY <1>1, <1>5 DEF InLine
<1>9. InFlight' = InFlight \cup ready
  <2>1. \A r \in Runs : InFlightAt(rec'[r].at) <=> r \in ready \/ InFlightAt(rec[r].at)
    BY <1>1, <1>4, <1>5 DEF InFlightAt
  <2>2. QED
    BY <1>3, <1>4, <2>1 DEF InFlight, InFlightAt
<1>10. Placed'
  <2>1. \A r \in Runs : rec'[r].at \in {"admit", "waiting"} => r \in Admitted
    BY <1>1, <1>5 DEF Placed
  <2>2. reserved' = InFlight'
    BY <1>1, <1>9 DEF Placed, ReservedExact
  <2>3. ToSet(queue') = InLine'
    BY <1>2, <1>8 DEF Placed
  <2>4. QED
    BY <2>1, <2>2, <2>3 DEF Placed, ReservedExact
<1>11. ReservedFit'
  <2>1. \/ Slots(reserved') = Slots(reserved)
        \/ reserved' # {} /\ Resynced(n) + Slots(reserved') <= CapVpcs
    BY <1>1, <1>6, ReadyFitsTogether DEF Shapes
  <2>2. Slots({}) = 0
    BY SlotsFinite, FS_EmptySet DEF SlotsOf
  <2>3. CASE reserved' # {} /\ Resynced(n) + Slots(reserved') <= CapVpcs
    BY <1>1, <2>3 DEF Base, ReservedFit, Slots
  <2>4. CASE Slots(reserved') = Slots(reserved)
    <3>1. CASE reserved = {}
      BY <2>2, <2>4, <3>1 DEF ReservedFit, Slots
    <3>2. CASE reserved # {}
      <4>1. baseline' = baseline
        BY <1>1, <3>2 DEF Base, Resynced
      <4>2. QED
        BY <2>4, <4>1 DEF ReservedFit, Slots
    <3>3. QED
      BY <3>1, <3>2
  <2>5. QED
    BY <2>1, <2>3, <2>4
<1>12. QED
  BY <1>1, <1>2, <1>6, <1>7, <1>10, <1>11

LEMMA CountsAreNumbers ==
  ASSUME NEW n \in Counts
  PROVE  n \in Nat
BY DEF Counts

\* The rest of the types, for a step that only moves runs.
LEMMA ShapesKept ==
  ASSUME Shapes, rec' \in [Runs -> RunRecords], disk' \in [Runs -> RunRemains],
         UNCHANGED <<reserved, queue, baseline, foreign, server>>,
         ticker' \in [on : BOOLEAN, owed : SUBSET Runs],
         op' \in Targets, cron' \in BOOLEAN, left' \in Bounds
  PROVE  Shapes'
BY DEF Shapes

LEMMA LogPut ==
  ASSUME disk \in [Runs -> RunRemains], NEW r \in Runs,
         NEW x \in {"none", "head", "summary", "missing", "abort"},
         disk' = [disk EXCEPT ![r].log = x]
  PROVE  disk' \in [Runs -> RunRemains] /\ \A s \in Runs : disk'[s].tree = disk[s].tree
BY DEF RunRemains

LEMMA VpcPut ==
  ASSUME disk \in [Runs -> RunRemains], NEW r \in Runs, NEW v \in BOOLEAN,
         \/ disk' = [disk EXCEPT ![r].vpc = v]
         \/ disk' = [disk EXCEPT ![r].vpc = v, ![r].log = "head"]
  PROVE  disk' \in [Runs -> RunRemains] /\ \A s \in Runs : disk'[s].tree = disk[s].tree
BY DEF RunRemains

LEMMA TreePut ==
  ASSUME disk \in [Runs -> RunRemains], NEW r \in Runs, NEW t \in BOOLEAN,
         NEW x \in {"none", "head", "summary", "missing", "abort"},
         \/ disk' = [disk EXCEPT ![r].tree = t]
         \/ disk' = [disk EXCEPT ![r].tree = t, ![r].log = x]
  PROVE  /\ disk' \in [Runs -> RunRemains] /\ disk'[r].tree = t
         /\ \A s \in Runs \ {r} : disk'[s].tree = disk[s].tree
BY DEF RunRemains

\* The typed part of a step that puts a record and leaves the admission.
LEMMA PutKeepsAll ==
  ASSUME ConsoleInv, NEW r \in Runs, NEW q, Puts(r, q),
         InFlightAt(q.at) <=> InFlightAt(rec[r].at),
         q.at = "waiting" <=> rec[r].at = "waiting",
         q.at = "admit" => r \in Admitted,
         disk' \in [Runs -> RunRemains], UNCHANGED <<reserved, queue, baseline, server, foreign>>,
         ticker' \in [on : BOOLEAN, owed : SUBSET Runs],
         op' \in Targets, cron' \in BOOLEAN, left' \in Bounds
  PROVE  ConsoleInv'
<1>1. rec \in [Runs -> RunRecords]
  BY DEF ConsoleInv, Shapes
<1>2. rec' \in [Runs -> RunRecords] /\ Placed' /\ ReservedFit'
  BY <1>1, PutKeeps DEF ConsoleInv
<1>3. Shapes'
  BY <1>2, ShapesKept DEF ConsoleInv
<1>4. QED
  BY <1>2, <1>3 DEF ConsoleInv

LEMMA StillKeepsAll ==
  ASSUME ConsoleInv, UNCHANGED <<rec, reserved, queue, baseline, server>>,
         disk' \in [Runs -> RunRemains], foreign' \in Nat,
         ticker' \in [on : BOOLEAN, owed : SUBSET Runs],
         op' \in Targets, cron' \in BOOLEAN, left' \in Bounds
  PROVE  ConsoleInv'
<1>1. Placed' /\ ReservedFit'
  BY StillPlaced DEF ConsoleInv
<1>2. Shapes'
  BY DEF ConsoleInv, Shapes
<1>3. QED
  BY <1>1, <1>2 DEF ConsoleInv

LEMMA ConsoleInitKeeps ==
  ConsoleInit => ConsoleInv
<1> SUFFICES ASSUME ConsoleInit PROVE ConsoleInv
  OBVIOUS
<1>1. NewRecord \in RunRecords /\ EarlierRecord \in RunRecords /\ NewRemains \in RunRemains
      /\ NewRecord.at = "none" /\ EarlierRecord.at = "over"
  BY DEF NewRecord, EarlierRecord, NewRemains, RunRecords, RunRemains, Places
<1>2. PICK sc \in Scenarios :
        /\ rec = [r \in Runs |-> IF r \in sc.runs THEN NewRecord ELSE EarlierRecord]
        /\ left = sc.left /\ foreign = sc.foreign
  BY DEF ConsoleInit
<1>3. rec \in [Runs -> RunRecords] /\ disk \in [Runs -> RunRemains]
  BY <1>1, <1>2 DEF ConsoleInit
<1>4. \A r \in Runs : rec[r].at \in {"none", "over"}
  BY <1>1, <1>2
<1>5. left \in Bounds /\ foreign \in Nat
  BY <1>2, ConsoleAssumption
<1>6. queue = <<>> /\ reserved = {} /\ queue \in Seq(Admitted) /\ IsInjective(queue)
      /\ ToSet(queue) = {}
  BY DEF ConsoleInit, IsInjective, ToSet
<1>7. op \in Targets /\ ticker \in [on : BOOLEAN, owed : SUBSET Runs]
      /\ server \in [up : BOOLEAN, died : BOOLEAN]
  BY DEF ConsoleInit, NoOne, Targets
<1>8. Shapes
  BY <1>3, <1>5, <1>6, <1>7 DEF Shapes, ConsoleInit
<1>9. Placed
  BY <1>4, <1>6 DEF Placed, InLine, ReservedExact, InFlight, Runs
<1>10. ReservedFit
  <2>1. Slots(reserved) = 0
    BY <1>6, SlotsFinite, FS_EmptySet DEF SlotsOf
  <2>2. QED
    BY <2>1 DEF ReservedFit
<1>11. QED
  BY <1>8, <1>9, <1>10 DEF ConsoleInv

\* What a run's thread does while the run is in flight: q is its record after it.
WorkMoves(r, q) ==
  LET at == rec[r].at
      same == q.status = rec[r].status
      tree == disk[r].tree
  IN  \/ at = "begin" /\ q.at = "check" /\ same /\ disk'[r].tree = tree
      \/ at = "check" /\ q.at = "judge" /\ same /\ rec[r].abort /\ disk'[r].tree = tree
      \/ at = "check" /\ q.at = "spawned" /\ same /\ ~rec[r].abort /\ disk'[r].tree
      \/ at = "spawned" /\ q.at = "wait" /\ same /\ disk'[r].tree = tree
      \/ at = "wait" /\ q.at = "judge" /\ same /\ ~tree /\ ~disk'[r].tree
      \/ at = "judge" /\ q.at = "own sweep" /\ same /\ disk'[r].tree = tree
      \/ at = "judge" /\ q.at = "guard" /\ same /\ ~rec[r].abort /\ disk'[r].tree = tree
      \/ /\ at = "guard" /\ q.at = "end sweep" /\ same /\ disk'[r].tree = tree
         /\ reserved \subseteq {r} /\ queue = <<>>
      \/ /\ at \in {"begin", "check", "judge", "guard", "own sweep", "end sweep"}
         /\ q.at = "release" /\ q.status \in {"done", "aborted", "error"}
         /\ disk'[r].tree = tree

\* A step of r's thread that is such a move.
Works(r, q) ==
  /\ Puts(r, q) /\ q.abort = rec[r].abort /\ q.kill = rec[r].kill
  /\ InFlightAt(rec[r].at) /\ InFlightAt(q.at)
  /\ WorkMoves(r, q)
  /\ server.up /\ disk' \in [Runs -> RunRemains]
  /\ \A s \in Runs \ {r} : disk'[s].tree = disk[s].tree
  /\ left' \in Bounds
  /\ UNCHANGED <<reserved, queue, baseline, ticker, op, cron, server, foreign>>

LEMMA OverPuts ==
  ASSUME rec \in [Runs -> RunRecords], NEW r \in Runs,
         NEW status \in {"done", "aborted", "error"}, Over(r, status)
  PROVE  \E q \in RunRecords :
           /\ Puts(r, q) /\ q.at = "release"
           /\ q.status = status /\ q.abort = rec[r].abort /\ q.kill = rec[r].kill
<1>1. Sets(r, status, "release")
  BY DEF Over, Sets, Places
<1>2. QED
  BY <1>1, BothPut

LEMMA WorkSteps ==
  ASSUME Shapes, NEW r \in Runs,
         \/ Provision(r) \/ CheckAbort(r) \/ Spawn(r) \/ HoldProc(r) \/ Waited(r)
         \/ Judge(r) \/ GuardSweep(r) \/ SweepEnds(r) \/ Fails(r) \/ Simulate(r)
  PROVE  \E q \in RunRecords : Works(r, q)
<1> USE DEF admission, around, At
<1>1. /\ rec \in [Runs -> RunRecords] /\ disk \in [Runs -> RunRemains] /\ left \in Bounds
      /\ disk[r].tree \in BOOLEAN
  BY DEF Shapes, RunRemains
<1>2. CASE Provision(r)
  <2>1. PICK v \in BOOLEAN : disk' = [disk EXCEPT ![r].vpc = v, ![r].log = "head"]
    BY <1>2 DEF Provision
  <2>2. disk' \in [Runs -> RunRemains] /\ \A s \in Runs : disk'[s].tree = disk[s].tree
    BY <1>1, <2>1, VpcPut
  <2>3. "check" \in Places
    BY DEF Places
  <2>4. PICK q \in RunRecords :
           /\ Puts(r, q) /\ q.at = "check"
           /\ q.status = rec[r].status /\ q.abort = rec[r].abort /\ q.kill = rec[r].kill
    BY <1>1, <1>2, <2>3, ToPuts DEF Provision
  <2>5. QED
    BY <1>1, <1>2, <2>2, <2>4 DEF Provision, Works, WorkMoves, InFlightAt
<1>3. CASE CheckAbort(r)
  <2>1. "judge" \in Places
    BY DEF Places
  <2>2. PICK q \in RunRecords :
           /\ Puts(r, q) /\ q.at = "judge"
           /\ q.status = rec[r].status /\ q.abort = rec[r].abort /\ q.kill = rec[r].kill
    BY <1>1, <1>3, <2>1, ToPuts DEF CheckAbort
  <2>3. QED
    BY <1>1, <1>3, <2>2 DEF CheckAbort, Works, WorkMoves, InFlightAt
<1>4. CASE Spawn(r)
  <2>1. "spawned" \in Places
    BY DEF Places
  <2>2. PICK q \in RunRecords :
           /\ Puts(r, q) /\ q.at = "spawned"
           /\ q.status = rec[r].status /\ q.abort = rec[r].abort /\ q.kill = rec[r].kill
    BY <1>1, <1>4, <2>1, ToPuts DEF Spawn
  <2>3. disk' = [disk EXCEPT ![r].tree = TRUE]
    BY <1>4 DEF Spawn
  <2>4. /\ disk' \in [Runs -> RunRemains] /\ disk'[r].tree = TRUE
        /\ \A s \in Runs \ {r} : disk'[s].tree = disk[s].tree
    BY <1>1, <2>3, TreePut
  <2>5. QED
    BY <1>1, <1>4, <2>2, <2>4 DEF Spawn, Works, WorkMoves, InFlightAt
<1>5. CASE HoldProc(r)
  <2>1. "wait" \in Places
    BY DEF Places
  <2>2. PICK q \in RunRecords :
           /\ Puts(r, q) /\ q.at = "wait"
           /\ q.status = rec[r].status /\ q.abort = rec[r].abort /\ q.kill = rec[r].kill
    BY <1>1, <1>5, <2>1, ToPuts DEF HoldProc
  <2>3. QED
    BY <1>1, <1>5, <2>2 DEF HoldProc, Works, WorkMoves, InFlightAt
<1>6. CASE Waited(r)
  <2>1. "judge" \in Places
    BY DEF Places
  <2>2. PICK q \in RunRecords :
           /\ Puts(r, q) /\ q.at = "judge"
           /\ q.status = rec[r].status /\ q.abort = rec[r].abort /\ q.kill = rec[r].kill
    BY <1>1, <1>6, <2>1, ToPuts DEF Waited
  <2>3. QED
    BY <1>1, <1>6, <2>2 DEF Waited, Works, WorkMoves, InFlightAt
<1>7. CASE Judge(r)
  <2>1. disk' = disk \/ disk' = [disk EXCEPT ![r].log = "abort"]
    BY <1>7 DEF Judge
  <2>2. disk' \in [Runs -> RunRemains] /\ \A s \in Runs : disk'[s].tree = disk[s].tree
    BY <1>1, <2>1, LogPut
  <2>3. CASE To(r, "own sweep")
    <3>1. "own sweep" \in Places
      BY DEF Places
    <3>2. PICK q \in RunRecords :
             /\ Puts(r, q) /\ q.at = "own sweep"
             /\ q.status = rec[r].status /\ q.abort = rec[r].abort /\ q.kill = rec[r].kill
      BY <1>1, <2>3, <3>1, ToPuts
    <3>3. QED
      BY <1>1, <1>7, <2>2, <3>2 DEF Judge, Works, WorkMoves, InFlightAt
  <2>4. CASE Over(r, "done")
    <3>1. PICK q \in RunRecords :
             /\ Puts(r, q) /\ q.at = "release"
             /\ q.status = "done" /\ q.abort = rec[r].abort /\ q.kill = rec[r].kill
      BY <1>1, <2>4, OverPuts
    <3>2. QED
      BY <1>1, <1>7, <2>2, <3>1 DEF Judge, Works, WorkMoves, InFlightAt
  <2>5. CASE ~rec[r].abort /\ To(r, "guard")
    <3>1. "guard" \in Places
      BY DEF Places
    <3>2. PICK q \in RunRecords :
             /\ Puts(r, q) /\ q.at = "guard"
             /\ q.status = rec[r].status /\ q.abort = rec[r].abort /\ q.kill = rec[r].kill
      BY <1>1, <2>5, <3>1, ToPuts
    <3>3. QED
      BY <1>1, <1>7, <2>2, <2>5, <3>2 DEF Judge, Works, WorkMoves, InFlightAt
  <2>6. QED
    BY <1>7, <2>3, <2>4, <2>5 DEF Judge
<1>8. CASE GuardSweep(r)
  <2>1. CASE reserved \subseteq {r} /\ queue = <<>> /\ To(r, "end sweep")
    <3>1. "end sweep" \in Places
      BY DEF Places
    <3>2. PICK q \in RunRecords :
             /\ Puts(r, q) /\ q.at = "end sweep"
             /\ q.status = rec[r].status /\ q.abort = rec[r].abort /\ q.kill = rec[r].kill
      BY <1>1, <2>1, <3>1, ToPuts
    <3>3. QED
      BY <1>1, <1>8, <2>1, <3>2 DEF GuardSweep, Works, WorkMoves, InFlightAt
  <2>2. CASE Over(r, "done")
    <3>1. PICK q \in RunRecords :
             /\ Puts(r, q) /\ q.at = "release"
             /\ q.status = "done" /\ q.abort = rec[r].abort /\ q.kill = rec[r].kill
      BY <1>1, <2>2, OverPuts
    <3>2. QED
      BY <1>1, <1>8, <3>1 DEF GuardSweep, Works, WorkMoves, InFlightAt
  <2>3. QED
    BY <1>8, <2>1, <2>2 DEF GuardSweep
<1>9. CASE SweepEnds(r)
  <2>1. PICK status \in {"done", "aborted", "error"} : Over(r, status)
    BY <1>9 DEF SweepEnds
  <2>2. PICK q \in RunRecords :
           /\ Puts(r, q) /\ q.at = "release"
           /\ q.status = status /\ q.abort = rec[r].abort /\ q.kill = rec[r].kill
    BY <1>1, <2>1, OverPuts
  <2>3. QED
    BY <1>1, <1>9, <2>2 DEF SweepEnds, Works, WorkMoves, InFlightAt
<1>10. CASE Fails(r)
  <2>1. PICK q \in RunRecords :
           /\ Puts(r, q) /\ q.at = "release"
           /\ q.status = "error" /\ q.abort = rec[r].abort /\ q.kill = rec[r].kill
    BY <1>1, <1>10, OverPuts DEF Fails
  <2>2. left' \in Bounds
    BY <1>1, <1>10 DEF Fails, Bounds
  <2>3. QED
    BY <1>1, <1>10, <2>1, <2>2 DEF Fails, Works, WorkMoves, InFlightAt
<1>11. CASE Simulate(r)
  <2>1. PICK status \in {"done", "aborted", "error"} : Over(r, status)
    BY <1>11 DEF Simulate
  <2>2. PICK q \in RunRecords :
           /\ Puts(r, q) /\ q.at = "release"
           /\ q.status = status /\ q.abort = rec[r].abort /\ q.kill = rec[r].kill
    BY <1>1, <2>1, OverPuts
  <2>3. disk' \in [Runs -> RunRemains] /\ \A s \in Runs : disk'[s].tree = disk[s].tree
    BY <1>1, <1>11, LogPut DEF Simulate
  <2>4. QED
    BY <1>1, <1>11, <2>2, <2>3 DEF Simulate, Works, WorkMoves, InFlightAt
<1>12. QED
  BY <1>2, <1>3, <1>4, <1>5, <1>6, <1>7, <1>8, <1>9, <1>10, <1>11

LEMMA WorksKeeps ==
  ASSUME ConsoleInv, NEW r \in Runs, NEW q, Works(r, q)
  PROVE  ConsoleInv'
<1>1. /\ ticker \in [on : BOOLEAN, owed : SUBSET Runs] /\ op \in Targets /\ cron \in BOOLEAN
  BY DEF ConsoleInv, Shapes
<1>2. /\ Puts(r, q) /\ InFlightAt(rec[r].at) /\ InFlightAt(q.at)
      /\ disk' \in [Runs -> RunRemains] /\ left' \in Bounds
      /\ UNCHANGED <<reserved, queue, baseline, ticker, op, cron, server, foreign>>
  BY DEF Works
<1>3. QED
  BY <1>1, <1>2, PutKeepsAll DEF InFlightAt

\* A list without one of its entries.
LEMMA WithoutOne ==
  ASSUME queue \in Seq(Admitted), IsInjective(queue), NEW i \in DOMAIN queue,
         NEW rest, rest = RemoveAt(queue, i)
  PROVE  /\ rest \in Seq(Admitted) /\ IsInjective(rest)
         /\ ToSet(rest) = ToSet(queue) \ {queue[i]}
<1> DEFINE first == SubSeq(queue, 1, i - 1)
           tail == SubSeq(queue, i + 1, Len(queue))
<1>1. Len(queue) \in Nat /\ i \in 1 .. Len(queue) /\ DOMAIN queue = 1 .. Len(queue)
      /\ \A j \in 1 .. Len(queue) : queue[j] \in Admitted
  OBVIOUS
<1>2. /\ first \in Seq(Admitted) /\ Len(first) = i - 1
      /\ \A j \in 1 .. i - 1 : first[j] = queue[j]
  <2>1. 1 \in Int /\ i - 1 \in Int /\ \A j \in 1 .. i - 1 : queue[j] \in Admitted
    BY <1>1
  <2>2. /\ first \in Seq(Admitted)
        /\ Len(first) = IF 1 <= i - 1 THEN i - 1 - 1 + 1 ELSE 0
        /\ \A j \in 1 .. i - 1 - 1 + 1 : first[j] = queue[1 + j - 1]
    BY <2>1, SubSeqProperties
  <2>3. QED
    BY <1>1, <2>2
<1>3. /\ tail \in Seq(Admitted) /\ Len(tail) = Len(queue) - i
      /\ \A j \in 1 .. Len(queue) - i : tail[j] = queue[i + j]
  <2>1. i + 1 \in Int /\ Len(queue) \in Int /\ \A j \in i + 1 .. Len(queue) : queue[j] \in Admitted
    BY <1>1
  <2>2. /\ tail \in Seq(Admitted)
        /\ Len(tail) = IF i + 1 <= Len(queue) THEN Len(queue) - (i + 1) + 1 ELSE 0
        /\ \A j \in 1 .. Len(queue) - (i + 1) + 1 : tail[j] = queue[(i + 1) + j - 1]
    BY <2>1, SubSeqProperties
  <2>3. Len(tail) = Len(queue) - i
    BY <1>1, <2>2
  <2>4. ASSUME NEW j \in 1 .. Len(queue) - i PROVE tail[j] = queue[i + j]
    <3>1. j \in 1 .. Len(queue) - (i + 1) + 1 /\ (i + 1) + j - 1 = i + j
      BY <1>1
    <3>2. QED
      BY <2>2, <3>1
  <2>5. QED
    BY <2>2, <2>3, <2>4
<1>4. rest = first \o tail
  BY DEF RemoveAt
<1> HIDE DEF first, tail
<1>5. /\ rest \in Seq(Admitted) /\ Len(rest) = Len(first) + Len(tail)
      /\ \A j \in 1 .. Len(first) + Len(tail) :
           rest[j] = IF j <= Len(first) THEN first[j] ELSE tail[j - Len(first)]
  BY <1>2, <1>3, <1>4, ConcatProperties
<1>6. DOMAIN rest = 1 .. Len(queue) - 1
  BY <1>1, <1>2, <1>3, <1>5
<1>7. \A j \in 1 .. Len(queue) - 1 : rest[j] = IF j < i THEN queue[j] ELSE queue[j + 1]
  <2>1. TAKE j \in 1 .. Len(queue) - 1
  <2>2. CASE j < i
    BY <1>1, <1>2, <1>3, <1>5, <2>2
  <2>3. CASE ~ j < i
    <3>1. Len(first) = i - 1 /\ j \in 1 .. Len(first) + Len(tail) /\ ~ j <= Len(first)
      BY <1>1, <1>2, <1>3, <2>3
    <3>2. j - (i - 1) \in 1 .. Len(queue) - i /\ i + (j - (i - 1)) = j + 1
      BY <1>1, <2>3
    <3>3. rest[j] = tail[j - (i - 1)]
      BY <1>5, <3>1
    <3>4. tail[j - (i - 1)] = queue[j + 1]
      BY <1>3, <3>2
    <3>5. QED
      BY <2>3, <3>3, <3>4
  <2>4. QED
    BY <2>2, <2>3
<1>8. \A j, k \in 1 .. Len(queue) : queue[j] = queue[k] => j = k
  BY <1>1 DEF IsInjective
<1>9. IsInjective(rest)
  BY <1>1, <1>6, <1>7, <1>8 DEF IsInjective
<1>10. \A r \in ToSet(rest) : r \in ToSet(queue) \ {queue[i]}
  <2>1. \A j \in 1 .. Len(queue) - 1 :
          \E k \in 1 .. Len(queue) : k # i /\ rest[j] = queue[k]
    <3>1. TAKE j \in 1 .. Len(queue) - 1
    <3>2. j \in 1 .. Len(queue) /\ j + 1 \in 1 .. Len(queue) /\ (j < i => j # i)
          /\ (~ j < i => j + 1 # i)
      BY <1>1
    <3>3. QED
      BY <1>7, <3>2
  <2>2. QED
    BY <1>1, <1>6, <1>8, <2>1 DEF ToSet
<1>11. \A r \in ToSet(queue) \ {queue[i]} : r \in ToSet(rest)
  <2>1. ASSUME NEW k \in 1 .. Len(queue), k # i PROVE \E j \in 1 .. Len(queue) - 1 : rest[j] = queue[k]
    <3>1. CASE k < i
      <4>1. k \in 1 .. Len(queue) - 1
        BY <1>1, <3>1
      <4>2. QED
        BY <1>7, <3>1, <4>1
    <3>2. CASE ~ k < i
      <4>1. k - 1 \in 1 .. Len(queue) - 1 /\ ~ k - 1 < i /\ (k - 1) + 1 = k
        BY <1>1, <2>1, <3>2
      <4>2. QED
        BY <1>7, <4>1
    <3>3. QED
      BY <3>1, <3>2
  <2>2. QED
    BY <1>1, <1>6, <2>1 DEF ToSet
<1>12. QED
  BY <1>5, <1>9, <1>10, <1>11

LEMMA AdmitKeeps ==
  ASSUME ConsoleInv, NEW r \in Runs, NEW n \in Nat, Admit(r, n)
  PROVE  ConsoleInv'
<1> USE DEF admission, around, At
<1>1. /\ Shapes /\ Placed /\ ReservedFit /\ server.up /\ rec[r].at = "admit"
      /\ rec \in [Runs -> RunRecords] /\ reserved \subseteq Admitted /\ Resynced(n) \in Nat
      /\ CapVpcs \in Nat
  BY ConsoleAssumption DEF ConsoleInv, Shapes, Admit, Resynced
<1>2. r \in Admitted /\ r \notin InLine /\ r \notin InFlight /\ r \notin reserved
      /\ r \notin ToSet(queue)
  BY <1>1 DEF Placed, InLine, InFlight, ReservedExact
<1>3. /\ baseline' = Base(Resynced(n), reserved')
      /\ UNCHANGED <<disk, op, left, cron, server, foreign>>
  BY DEF Admit
<1>4. baseline' \in Nat
  BY <1>1, <1>3 DEF Base
<1>5. Slots({}) = 0
  BY SlotsFinite, FS_EmptySet DEF SlotsOf
<1>6. CASE Fits(Resynced(n), reserved, r)
  <2>1. /\ reserved' = reserved \cup {r} /\ UNCHANGED <<queue, ticker>>
        /\ rec' = [rec EXCEPT ![r].status = "running", ![r].at = "begin"]
    BY <1>6 DEF Admit
  <2>2. Sets(r, "running", "begin")
    BY <2>1 DEF Sets, Places
  <2>3. PICK q \in RunRecords : Puts(r, q) /\ q.at = "begin"
    BY <1>1, <2>2, BothPut
  <2>4. /\ rec' \in [Runs -> RunRecords] /\ rec'[r].at = "begin"
        /\ \A s \in Runs \ {r} : rec'[s] = rec[s]
    BY <1>1, <2>3 DEF Puts
  <2>5. Shapes'
    BY <1>1, <1>2, <1>3, <1>4, <2>1, <2>4 DEF Shapes
  <2>6. InLine' = InLine /\ InFlight' = InFlight \cup {r}
    BY <1>1, <1>2, <2>4 DEF InLine, InFlight, Runs
  <2>7. Placed'
    <3>1. \A s \in Runs : rec'[s].at \in {"admit", "waiting"} => s \in Admitted
      BY <1>1, <2>4 DEF Placed
    <3>2. QED
      BY <1>1, <1>3, <2>1, <2>6, <3>1 DEF Placed, ReservedExact
  <2>8. ReservedFit'
    <3>1. Slots(reserved') <= Slots(reserved) + Peak[r]
      BY <1>1, <1>2, <2>1, SlotsOfOneMore
    <3>2. Slots(reserved) \in Nat /\ Slots(reserved') \in Nat /\ Peak[r] \in Nat
      BY <1>1, <1>2, <2>1, SlotsFinite, ConsoleAssumption
    <3>3. baseline' = Resynced(n)
      BY <1>3, <2>1 DEF Base
    <3>4. CASE Peak[r] = 0
      <4>1. Slots(reserved') <= Slots(reserved)
        BY <3>1, <3>2, <3>4
      <4>2. CASE reserved = {}
        BY <1>5, <3>2, <4>1, <4>2 DEF ReservedFit, Slots
      <4>3. CASE reserved # {}
        <5>1. baseline' = baseline /\ baseline \in Nat
          BY <1>1, <3>3, <4>3 DEF Resynced, Shapes
        <5>2. Slots(reserved') > 0 => baseline' + Slots(reserved') <= CapVpcs
          BY <1>1, <3>2, <4>1, <5>1 DEF ReservedFit
        <5>3. QED
          BY <5>2 DEF ReservedFit, Slots
      <4>4. QED
        BY <4>2, <4>3
    <3>5. CASE Peak[r] # 0
      <4>1. Resynced(n) + Slots(reserved) + Peak[r] <= CapVpcs
        BY <1>6, <3>5 DEF Fits
      <4>2. baseline' + Slots(reserved') <= CapVpcs
        BY <1>1, <3>1, <3>2, <3>3, <4>1
      <4>3. QED
        BY <4>2 DEF ReservedFit, Slots
    <3>6. QED
      BY <3>4, <3>5
  <2>9. QED
    BY <2>5, <2>7, <2>8 DEF ConsoleInv
<1>7. CASE ~Fits(Resynced(n), reserved, r)
  <2>1. /\ reserved' = reserved /\ queue' = Append(queue, r)
        /\ ticker' = [ticker EXCEPT !.owed = @ \cup {r}]
        /\ rec' = [rec EXCEPT ![r].status = "queued", ![r].at = "waiting"]
    BY <1>7 DEF Admit
  <2>2. Sets(r, "queued", "waiting")
    BY <2>1 DEF Sets, Places
  <2>3. PICK q \in RunRecords : Puts(r, q) /\ q.at = "waiting"
    BY <1>1, <2>2, BothPut
  <2>4. /\ rec' \in [Runs -> RunRecords] /\ rec'[r].at = "waiting"
        /\ \A s \in Runs \ {r} : rec'[s] = rec[s]
    BY <1>1, <2>3 DEF Puts
  <2>5. /\ queue' \in Seq(Admitted) /\ Len(queue') = Len(queue) + 1 /\ queue'[Len(queue) + 1] = r
        /\ \A i \in 1 .. Len(queue) : queue'[i] = queue[i]
    BY <1>1, <1>2, <2>1, AppendProperties DEF Shapes
  <2>6. /\ Len(queue) \in Nat /\ DOMAIN queue = 1 .. Len(queue)
        /\ DOMAIN queue' = 1 .. Len(queue) + 1
    BY <1>1, <2>5 DEF Shapes
  <2>7. IsInjective(queue') /\ ToSet(queue') = ToSet(queue) \cup {r}
    <3>1. \A i \in 1 .. Len(queue) + 1 : i \in 1 .. Len(queue) \/ i = Len(queue) + 1
      BY <2>6
    <3>2. \A i, j \in 1 .. Len(queue) : queue[i] = queue[j] => i = j
      BY <1>1, <2>6 DEF Shapes, IsInjective
    <3>3. \A i \in 1 .. Len(queue) : queue[i] # r
      BY <1>2, <2>6 DEF ToSet
    <3>4. IsInjective(queue')
      BY <2>5, <2>6, <3>1, <3>2, <3>3 DEF IsInjective
    <3>5. ToSet(queue') = ToSet(queue) \cup {r}
      <4>1. \A i \in 1 .. Len(queue) : i \in 1 .. Len(queue) + 1
        BY <2>6
      <4>2. Len(queue) + 1 \in 1 .. Len(queue) + 1
        BY <2>6
      <4>3. QED
        BY <2>5, <2>6, <3>1, <4>1, <4>2 DEF ToSet
    <3>6. QED
      BY <3>4, <3>5
  <2>8. ticker' \in [on : BOOLEAN, owed : SUBSET Runs]
    BY <1>1, <2>1 DEF Shapes
  <2>9. Shapes'
    BY <1>1, <1>3, <1>4, <2>1, <2>4, <2>5, <2>7, <2>8 DEF Shapes
  <2>10. InLine' = InLine \cup {r} /\ InFlight' = InFlight
    BY <1>1, <1>2, <2>4 DEF InLine, InFlight, Runs
  <2>11. Placed'
    <3>1. \A s \in Runs : rec'[s].at \in {"admit", "waiting"} => s \in Admitted
      BY <1>1, <1>2, <2>4 DEF Placed
    <3>2. QED
      BY <1>1, <1>3, <2>1, <2>7, <2>10, <3>1 DEF Placed, ReservedExact
  <2>12. ReservedFit'
    <3>1. CASE reserved = {}
      BY <1>5, <2>1, <3>1 DEF ReservedFit, Slots
    <3>2. CASE reserved # {}
      <4>1. baseline' = baseline
        BY <1>3, <2>1, <3>2 DEF Base, Resynced
      <4>2. QED
        BY <1>1, <2>1, <4>1 DEF ReservedFit, Slots
    <3>3. QED
      BY <3>1, <3>2
  <2>13. QED
    BY <2>9, <2>11, <2>12 DEF ConsoleInv
<1>8. QED
  BY <1>6, <1>7

LEMMA ReleaseKeeps ==
  ASSUME ConsoleInv, NEW r \in Runs, Release(r)
  PROVE  ConsoleInv'
<1> USE DEF admission, around, At
<1>1. /\ Shapes /\ Placed /\ ReservedFit /\ server.up /\ rec[r].at = "release"
      /\ rec \in [Runs -> RunRecords] /\ reserved \subseteq Admitted /\ baseline \in Nat
  BY DEF ConsoleInv, Shapes, Release
<1>2. /\ reserved' = reserved \ {r} /\ baseline' = Base(baseline, reserved') /\ To(r, "readmit")
      /\ UNCHANGED <<disk, queue, ticker, op, left, cron, server, foreign>>
  BY DEF Release
<1>3. PICK q \in RunRecords : Puts(r, q) /\ q.at = "readmit"
  <2>1. "readmit" \in Places
    BY DEF Places
  <2>2. QED
    BY <1>1, <1>2, <2>1, ToPuts
<1>4. /\ rec' \in [Runs -> RunRecords] /\ rec'[r].at = "readmit"
      /\ \A s \in Runs \ {r} : rec'[s] = rec[s]
  BY <1>1, <1>3 DEF Puts
<1>5. baseline' \in Nat
  BY <1>1, <1>2 DEF Base
<1>6. Shapes'
  BY <1>1, <1>2, <1>4, <1>5 DEF Shapes
<1>7. InLine' = InLine /\ InFlight' = InFlight \ {r}
  BY <1>1, <1>4 DEF InLine, InFlight, Runs
<1>8. Placed'
  <2>1. \A s \in Runs : rec'[s].at \in {"admit", "waiting"} => s \in Admitted
    BY <1>1, <1>4 DEF Placed
  <2>2. QED
    BY <1>1, <1>2, <1>7, <2>1 DEF Placed, ReservedExact
<1>9. ReservedFit'
  <2>1. Slots(reserved') <= Slots(reserved)
    BY <1>1, <1>2, SlotsOfFewer
  <2>2. Slots(reserved) \in Nat /\ Slots(reserved') \in Nat /\ CapVpcs \in Nat
    BY <1>1, <1>2, SlotsFinite, ConsoleAssumption
  <2>3. baseline' \in Nat /\ baseline' <= baseline
    BY <1>1, <1>2 DEF Base
  <2>4. Slots(reserved') > 0 => baseline' + Slots(reserved') <= CapVpcs
    BY <1>1, <2>1, <2>2, <2>3 DEF ReservedFit
  <2>5. QED
    BY <2>4 DEF ReservedFit, Slots
<1>10. QED
  BY <1>6, <1>8, <1>9 DEF ConsoleInv

\* The record of a run that is over, in the eyes of the look at the queue.
LEMMA OverFields ==
  ASSUME rec \in [Runs -> RunRecords], NEW r \in Runs,
         NEW R, R = [rec EXCEPT ![r].at = "over"]
  PROVE  /\ R \in [Runs -> RunRecords] /\ R[r].at = "over"
         /\ R[r].status = rec[r].status /\ R[r].abort = rec[r].abort /\ R[r].kill = rec[r].kill
         /\ \A s \in Runs \ {r} : R[s] = rec[s]
BY DEF RunRecords, Places

LEMMA ReadmitKeeps ==
  ASSUME ConsoleInv, NEW r \in Runs, NEW n \in Nat, Readmit(r, n)
  PROVE  ConsoleInv'
<1> DEFINE R == [rec EXCEPT ![r].at = "over"]
<1>1. /\ Shapes /\ Placed /\ ReservedFit /\ server.up /\ rec[r].at = "readmit"
      /\ rec \in [Runs -> RunRecords] /\ server' = server /\ AdmitQueue(n, R)
      /\ UNCHANGED <<disk, ticker, op, left, cron, foreign>>
  BY DEF ConsoleInv, Shapes, Readmit, around, At
<1>2. /\ R \in [Runs -> RunRecords] /\ R[r].at = "over"
      /\ \A s \in Runs \ {r} : R[s] = rec[s]
  BY <1>1, OverFields
<1> HIDE DEF R
<1>3. \A s \in Runs : /\ InFlightAt(R[s].at) <=> InFlightAt(rec[s].at)
                      /\ R[s].at = "waiting" <=> rec[s].at = "waiting"
                      /\ R[s].at = "admit" => rec[s].at = "admit"
  BY <1>1, <1>2 DEF InFlightAt
<1>4. /\ rec' \in [Runs -> RunRecords]
      /\ queue' \in Seq(Admitted) /\ IsInjective(queue')
      /\ reserved' \subseteq Admitted /\ baseline' \in Nat
      /\ Placed' /\ ReservedFit'
  BY <1>1, <1>2, <1>3, AdmitQueueKeeps
<1>5. Shapes'
  BY <1>1, <1>4 DEF Shapes
<1>6. QED
  BY <1>4, <1>5 DEF ConsoleInv

LEMMA LookKeeps ==
  ASSUME ConsoleInv, NEW n \in Nat, AdmitQueue(n, rec), server.up,
         UNCHANGED <<disk, ticker, left, cron, server, foreign>>, op' \in Targets
  PROVE  ConsoleInv'
<1>1. /\ Shapes /\ Placed /\ ReservedFit /\ rec \in [Runs -> RunRecords]
  BY DEF ConsoleInv, Shapes
<1>2. \A s \in Runs : /\ InFlightAt(rec[s].at) <=> InFlightAt(rec[s].at)
                      /\ rec[s].at = "waiting" <=> rec[s].at = "waiting"
                      /\ rec[s].at = "admit" => rec[s].at = "admit"
  OBVIOUS
<1>3. /\ rec' \in [Runs -> RunRecords]
      /\ queue' \in Seq(Admitted) /\ IsInjective(queue')
      /\ reserved' \subseteq Admitted /\ baseline' \in Nat
      /\ Placed' /\ ReservedFit'
  BY <1>1, <1>2, AdmitQueueKeeps
<1>4. Shapes'
  BY <1>1, <1>3 DEF Shapes
<1>5. QED
  BY <1>3, <1>4 DEF ConsoleInv

LEMMA DequeueKeeps ==
  ASSUME ConsoleInv, NEW r \in Runs, Dequeue(r)
  PROVE  ConsoleInv'
<1> USE DEF admission, around
<1>1. /\ Shapes /\ Placed /\ ReservedFit /\ server.up
      /\ rec \in [Runs -> RunRecords] /\ disk \in [Runs -> RunRemains]
      /\ disk' = [disk EXCEPT ![r].log = "abort"]
      /\ op' = [op EXCEPT !.at = "readmit", !.run = {}]
      /\ UNCHANGED <<reserved, baseline, ticker, left, cron, server, foreign>>
  BY DEF ConsoleInv, Shapes, Dequeue
<1>2. disk' \in [Runs -> RunRemains]
  BY <1>1, LogPut
<1>3. op' \in Targets
  BY <1>1 DEF Shapes, Targets
<1>4. PICK q \in RunRecords :
        Puts(r, q) /\ q.at = IF rec[r].at = "waiting" THEN "over" ELSE rec[r].at
  BY <1>1, DequeuePuts
<1>5. /\ rec' \in [Runs -> RunRecords] /\ rec'[r].at = q.at
      /\ \A s \in Runs \ {r} : rec'[s] = rec[s]
  BY <1>1, <1>4 DEF Puts
<1>6. /\ queue' \in Seq(Admitted) /\ IsInjective(queue')
      /\ ToSet(queue') = ToSet(queue) \ {r}
  <2>1. CASE r \notin ToSet(queue) /\ queue' = queue
    BY <1>1, <2>1 DEF Shapes
  <2>2. CASE \E i \in DOMAIN queue : queue[i] = r /\ queue' = RemoveAt(queue, i)
    <3>1. PICK i \in DOMAIN queue : queue[i] = r /\ queue' = RemoveAt(queue, i)
      BY <2>2
    <3>2. queue \in Seq(Admitted) /\ IsInjective(queue)
      BY <1>1 DEF Shapes
    <3>3. QED
      BY <3>1, <3>2, WithoutOne
  <2>3. QED
    BY <2>1, <2>2 DEF Dequeue
<1>7. Shapes'
  BY <1>1, <1>2, <1>3, <1>5, <1>6 DEF Shapes
<1>8. InLine' = InLine \ {r} /\ InFlight' = InFlight
  BY <1>1, <1>4, <1>5 DEF InLine, InFlight, Runs
<1>9. Placed'
  <2>1. \A s \in Runs : rec'[s].at \in {"admit", "waiting"} => s \in Admitted
    BY <1>1, <1>4, <1>5 DEF Placed
  <2>2. QED
    BY <1>1, <1>6, <1>8, <2>1 DEF Placed, ReservedExact
<1>10. ReservedFit'
  BY <1>1 DEF ReservedFit, Slots
<1>11. QED
  BY <1>7, <1>9, <1>10 DEF ConsoleInv

LEMMA ServerDiesKeeps ==
  ASSUME ConsoleInv, ServerDies
  PROVE  ConsoleInv'
<1>1. /\ Shapes /\ Placed
      /\ server' = [up |-> FALSE, died |-> TRUE]
      /\ left' = [left EXCEPT !.restarts = @ - 1] /\ left.restarts > 0
      /\ reserved' = {} /\ queue' = <<>> /\ baseline' = 0
      /\ ticker' = [on |-> FALSE, owed |-> {}]
      /\ op' = NoOne /\ cron' = FALSE
      /\ UNCHANGED <<rec, disk, foreign>>
  BY DEF ConsoleInv, ServerDies
<1>2. left' \in Bounds
  BY <1>1 DEF Shapes, Bounds
<1>3. queue' \in Seq(Admitted) /\ IsInjective(queue')
  BY <1>1 DEF IsInjective
<1>4. Shapes'
  BY <1>1, <1>2, <1>3 DEF Shapes, NoOne, Targets
<1>5. Placed'
  BY <1>1 DEF Placed, ReservedExact
<1>6. Slots({}) = 0
  BY SlotsFinite, FS_EmptySet DEF SlotsOf
<1>7. ReservedFit'
  BY <1>1, <1>6 DEF ReservedFit, Slots
<1>8. QED
  BY <1>4, <1>5, <1>7 DEF ConsoleInv

LEMMA ServerStartsKeeps ==
  ASSUME ConsoleInv, ServerStarts
  PROVE  ConsoleInv'
<1> USE DEF admission
<1>1. /\ Shapes /\ Placed /\ ~server.up
      /\ rec \in [Runs -> RunRecords] /\ disk \in [Runs -> RunRemains]
      /\ server' = [server EXCEPT !.up = TRUE]
      /\ rec' = [r \in Runs |-> Rehydrated(r)]
      /\ UNCHANGED <<disk, reserved, queue, baseline, ticker, op, left, cron, foreign>>
  BY DEF ConsoleInv, Shapes, ServerStarts
<1>2. \A r \in Runs : Rehydrated(r) \in RunRecords /\ Rehydrated(r).at \in {"none", "over"}
  <2>1. TAKE r \in Runs
  <2>2. rec[r] \in RunRecords
    BY <1>1
  <2>3. CASE rec[r].at = "none"
    BY <2>2, <2>3 DEF Rehydrated
  <2>4. CASE rec[r].at # "none"
    <3> DEFINE status == CASE disk[r].log = "none" -> "none"
                           [] r \notin Live -> "done"
                           [] disk[r].log = "abort" -> "aborted"
                           [] disk[r].log = "summary" -> "done"
                           [] OTHER -> "unknown"
    <3>1. Rehydrated(r) = [NewRecord EXCEPT !.at = "over", !.status = status]
      BY <2>4 DEF Rehydrated
    <3>2. status \in {"none", "done", "aborted", "unknown"}
      OBVIOUS
    <3> HIDE DEF status
    <3>3. QED
      BY <3>1, <3>2 DEF NewRecord, RunRecords, Places
  <2>5. QED
    BY <2>3, <2>4
<1>3. rec' \in [Runs -> RunRecords] /\ \A r \in Runs : rec'[r].at \in {"none", "over"}
  BY <1>1, <1>2
<1>4. Shapes'
  BY <1>1, <1>3 DEF Shapes
<1>5. reserved' = {} /\ queue' = <<>> /\ ToSet(queue') = {}
  BY <1>1 DEF Placed, ToSet
<1>6. Placed'
  BY <1>3, <1>5 DEF Placed, InLine, ReservedExact, InFlight, Runs
<1>7. Slots({}) = 0
  BY SlotsFinite, FS_EmptySet DEF SlotsOf
<1>8. ReservedFit'
  BY <1>5, <1>7 DEF ReservedFit, Slots
<1>9. QED
  BY <1>4, <1>6, <1>8 DEF ConsoleInv

\* A launch: the record is running, and the thread is at its first place.
LEMMA LaunchPuts ==
  ASSUME ConsoleInv, NEW r \in Runs, StartRun(r) \/ CronStarts(r) \/ StartCleanup(r)
  PROVE  \E q \in RunRecords :
           /\ Puts(r, q) /\ q.at = IF r \in Forced THEN "force" ELSE "admit"
           /\ q.status = "running" /\ q.abort = rec[r].abort /\ q.kill = rec[r].kill
<1>1. rec \in [Runs -> RunRecords] /\ Forced \cap Admitted = {}
  BY ConsoleAssumption DEF ConsoleInv, Shapes
<1>2. CASE StartRun(r) \/ CronStarts(r)
  <2>1. Sets(r, "running", "admit") /\ r \notin Forced
    BY <1>1, <1>2 DEF StartRun, CronStarts, NewRun, Sets, Places, Admitted
  <2>2. QED
    BY <1>1, <2>1, BothPut
<1>3. CASE StartCleanup(r)
  <2>1. Sets(r, "running", "force") /\ r \in Forced
    BY <1>3 DEF StartCleanup, Sets, Places
  <2>2. QED
    BY <1>1, <2>1, BothPut
<1>4. QED
  BY <1>2, <1>3

LEMMA PutStepsKeep ==
  ASSUME ConsoleInv, NEW r \in Runs,
         \/ StartRun(r) \/ CronStarts(r) \/ StartCleanup(r)
         \/ ForceEnds(r) \/ Killed(r) \/ AbortRunning(r)
  PROVE  ConsoleInv'
<1> USE DEF admission, around
<1>1. /\ rec \in [Runs -> RunRecords] /\ disk \in [Runs -> RunRemains]
      /\ ticker \in [on : BOOLEAN, owed : SUBSET Runs] /\ op \in Targets /\ cron \in BOOLEAN
      /\ left \in Bounds
  BY DEF ConsoleInv, Shapes
<1>2. CASE StartRun(r) \/ CronStarts(r) \/ StartCleanup(r)
  <2>1. PICK q \in RunRecords : Puts(r, q) /\ q.at = IF r \in Forced THEN "force" ELSE "admit"
    BY <1>2, LaunchPuts
  <2>2. /\ rec[r].at = "none" /\ (r \in Admitted \/ r \in Forced)
        /\ UNCHANGED <<reserved, queue, baseline, ticker, op, server, foreign, left>>
        /\ cron' = cron \/ cron' = FALSE
    BY <1>2 DEF StartRun, CronStarts, StartCleanup, Admitted
  <2>3. disk' \in [Runs -> RunRemains]
    <3>1. disk' = disk \/ disk' = [disk EXCEPT ![r].log = "head"]
      BY <1>2 DEF StartRun, CronStarts, StartCleanup
    <3>2. QED
      BY <1>1, <3>1, LogPut
  <2>4. QED
    BY <1>1, <2>1, <2>2, <2>3, PutKeepsAll DEF InFlightAt
<1>3. CASE ForceEnds(r)
  <2>1. Sets(r, "done", "over") /\ rec[r].at = "force"
    BY <1>3 DEF ForceEnds, Sets, Places, At
  <2>2. PICK q \in RunRecords : Puts(r, q) /\ q.at = "over"
    BY <1>1, <2>1, BothPut
  <2>3. UNCHANGED <<disk, reserved, queue, baseline, ticker, op, cron, server, foreign, left>>
    BY <1>3 DEF ForceEnds
  <2>4. QED
    BY <1>1, <2>1, <2>2, <2>3, PutKeepsAll DEF InFlightAt
<1>4. CASE Killed(r)
  <2>1. PICK q \in RunRecords : Puts(r, q) /\ q.at = rec[r].at
    BY <1>1, <1>4, KilledPuts
  <2>2. UNCHANGED <<reserved, queue, baseline, ticker, op, cron, server, foreign, left>>
    BY <1>4 DEF Killed
  <2>3. disk' \in [Runs -> RunRemains]
    <3>1. disk' = [disk EXCEPT ![r].tree = FALSE]
      BY <1>4 DEF Killed
    <3>2. QED
      BY <1>1, <3>1 DEF RunRemains
  <2>4. q.at = "admit" => r \in Admitted
    BY <2>1 DEF ConsoleInv, Placed
  <2>5. QED
    BY <1>1, <2>1, <2>2, <2>3, <2>4, PutKeepsAll
<1>5. CASE AbortRunning(r)
  <2>1. PICK q \in RunRecords : Puts(r, q) /\ q.at = rec[r].at
    BY <1>1, <1>5, AbortRunningPuts
  <2>2. /\ UNCHANGED <<disk, reserved, queue, baseline, ticker, cron, server, foreign, left>>
        /\ op' = [op EXCEPT !.queued = @ \ {r}, !.running = @ \ {r}]
    BY <1>5 DEF AbortRunning, Visited
  <2>3. op' \in Targets
    BY <1>1, <2>2 DEF Targets
  <2>4. q.at = "admit" => r \in Admitted
    BY <2>1 DEF ConsoleInv, Placed
  <2>5. QED
    BY <1>1, <2>1, <2>2, <2>3, <2>4, PutKeepsAll
<1>6. QED
  BY <1>2, <1>3, <1>4, <1>5

\* Steps that leave the records and the admission.
LEMMA QuietStepsKeep ==
  ASSUME ConsoleInv, NEW r,
         \/ TickerEnds \/ CronChecks \/ ForeignGoes \/ AbortAll
         \/ /\ r \in Runs
            /\ \/ EnsureTicker(r) \/ PytestEnds(r) \/ VpcGoes(r)
               \/ AbortOne(r) \/ AbortQueued(r) \/ AbortRefused(r)
  PROVE  ConsoleInv'
<1> USE DEF admission, around
<1>1. /\ rec \in [Runs -> RunRecords] /\ disk \in [Runs -> RunRemains]
      /\ ticker \in [on : BOOLEAN, owed : SUBSET Runs] /\ op \in Targets /\ cron \in BOOLEAN
      /\ left \in Bounds /\ foreign \in Nat
  BY DEF ConsoleInv, Shapes
<1>2. UNCHANGED <<rec, reserved, queue, baseline, server>>
  BY DEF EnsureTicker, TickerEnds, CronChecks, PytestEnds, VpcGoes, ForeignGoes, AbortAll,
         AbortOne, AbortQueued, AbortRefused
<1>3. disk' \in [Runs -> RunRemains]
  <2>1. CASE PytestEnds(r) /\ r \in Runs
    <3>1. PICK x \in {"none", "head", "summary", "missing", "abort"} :
            disk' = [disk EXCEPT ![r].tree = FALSE, ![r].log = x]
      BY <2>1 DEF PytestEnds
    <3>2. FALSE \in BOOLEAN
      OBVIOUS
    <3>3. QED
      BY <1>1, <3>1, <3>2, TreePut
  <2>2. CASE VpcGoes(r) /\ r \in Runs
    <3>1. disk' = [disk EXCEPT ![r].vpc = FALSE]
      BY <2>2 DEF VpcGoes
    <3>2. QED
      BY <1>1, <3>1 DEF RunRemains
  <2>3. CASE disk' = disk
    BY <1>1, <2>3
  <2>4. QED
    BY <2>1, <2>2, <2>3
       DEF EnsureTicker, TickerEnds, CronChecks, ForeignGoes, AbortAll, AbortOne, AbortQueued,
           AbortRefused
<1>4. ticker' \in [on : BOOLEAN, owed : SUBSET Runs]
  <2>1. \/ ticker' = ticker \/ ticker' = [on |-> TRUE, owed |-> ticker.owed \ {r}]
        \/ ticker' = [ticker EXCEPT !.on = FALSE]
    BY DEF EnsureTicker, TickerEnds, CronChecks, PytestEnds, VpcGoes, ForeignGoes, AbortAll,
           AbortOne, AbortQueued, AbortRefused
  <2>2. ticker.on \in BOOLEAN /\ ticker.owed \in SUBSET Runs
    BY <1>1
  <2>3. CASE ticker' = [on |-> TRUE, owed |-> ticker.owed \ {r}]
    <3>1. ticker.owed \ {r} \in SUBSET Runs
      BY <2>2
    <3>2. QED
      BY <2>3, <3>1
  <2>4. CASE ticker' = [ticker EXCEPT !.on = FALSE]
    BY <1>1, <2>4
  <2>5. QED
    BY <1>1, <2>1, <2>3, <2>4
<1>5. cron' \in BOOLEAN
  BY <1>1 DEF EnsureTicker, TickerEnds, CronChecks, PytestEnds, VpcGoes, ForeignGoes, AbortAll,
           AbortOne, AbortQueued, AbortRefused
<1>6. foreign' \in Nat
  <2>1. foreign' = foreign \/ (foreign > 0 /\ foreign' = foreign - 1)
    BY DEF EnsureTicker, TickerEnds, CronChecks, PytestEnds, VpcGoes, ForeignGoes, AbortAll,
           AbortOne, AbortQueued, AbortRefused
  <2>2. QED
    BY <1>1, <2>1
<1>7. left' \in Bounds
  <2>1. left' = left \/ Press
    BY DEF EnsureTicker, TickerEnds, CronChecks, PytestEnds, VpcGoes, ForeignGoes, AbortAll,
           AbortOne, AbortQueued, AbortRefused
  <2>2. QED
    BY <1>1, <2>1 DEF Press, Bounds
<1>8. op' \in Targets
  <2>1. \/ op' = op
        \/ op' = [NoOne EXCEPT !.queued = Queued \cap {r}, !.running = Running \cap {r}]
        \/ op' = [NoOne EXCEPT !.queued = Queued, !.running = Running]
        \/ r \in Runs /\ op' = [Visited(r) EXCEPT !.at = "dequeue", !.run = {r}]
        \/ op' = Visited(r)
    BY DEF EnsureTicker, TickerEnds, CronChecks, PytestEnds, VpcGoes, ForeignGoes, AbortAll,
           AbortOne, AbortQueued, AbortRefused
  <2>2. Queued \subseteq Runs /\ Running \subseteq Runs
    BY DEF Queued, Running
  <2>3. Visited(r) \in Targets
    BY <1>1 DEF Visited, Targets
  <2>4. \A A, B \in SUBSET Runs : [NoOne EXCEPT !.queued = A, !.running = B] \in Targets
    BY DEF NoOne, Targets
  <2>5. Queued \cap {r} \in SUBSET Runs /\ Running \cap {r} \in SUBSET Runs
    BY <2>2
  <2>6. CASE r \in Runs /\ op' = [Visited(r) EXCEPT !.at = "dequeue", !.run = {r}]
    BY <2>3, <2>6 DEF Targets
  <2>7. CASE op' = [NoOne EXCEPT !.queued = Queued \cap {r}, !.running = Running \cap {r}]
    BY <2>4, <2>5, <2>7
  <2>8. CASE op' = [NoOne EXCEPT !.queued = Queued, !.running = Running]
    BY <2>2, <2>4, <2>8
  <2>9. QED
    BY <1>1, <2>1, <2>3, <2>6, <2>7, <2>8
<1>9. QED
  BY <1>2, <1>3, <1>4, <1>5, <1>6, <1>7, <1>8, StillKeepsAll

LEMMA LooksKeep ==
  ASSUME ConsoleInv, NEW n \in Nat, Tick(n) \/ AbortReadmits(n)
  PROVE  ConsoleInv'
<1> USE DEF admission, around
<1>1. op \in Targets
  BY DEF ConsoleInv, Shapes
<1>2. CASE Tick(n)
  <2>1. /\ AdmitQueue(n, rec) /\ server.up /\ op' = op
        /\ UNCHANGED <<disk, ticker, left, cron, server, foreign>>
    BY <1>2 DEF Tick
  <2>2. QED
    BY <1>1, <2>1, LookKeeps
<1>3. CASE AbortReadmits(n)
  <2>1. /\ AdmitQueue(n, rec) /\ server.up /\ op' = [op EXCEPT !.at = "next"]
        /\ UNCHANGED <<disk, ticker, left, cron, server, foreign>>
    BY <1>3 DEF AbortReadmits
  <2>2. op' \in Targets
    BY <1>1, <2>1 DEF Targets
  <2>3. QED
    BY <2>1, <2>2, LookKeeps
<1>4. QED
  BY <1>2, <1>3

LEMMA StutterKeeps ==
  ASSUME ConsoleInv, UNCHANGED consoleVars
  PROVE  ConsoleInv'
<1>1. UNCHANGED <<rec, disk, reserved, queue, baseline, ticker, op, left, cron, server, foreign>>
  BY DEF consoleVars, admission, around
<1>2. QED
  BY <1>1, StillKeepsAll DEF ConsoleInv, Shapes

\* Every step is one of these.
LEMMA StepsSplit ==
  ASSUME ConsoleNext
  PROVE  \/ \E r \in Runs :
              \/ StartRun(r) \/ CronStarts(r) \/ StartCleanup(r)
              \/ ForceEnds(r) \/ Killed(r) \/ AbortRunning(r)
         \/ \E r \in Runs :
              \/ EnsureTicker(r) \/ PytestEnds(r) \/ VpcGoes(r)
              \/ AbortOne(r) \/ AbortQueued(r) \/ AbortRefused(r)
         \/ CronChecks \/ TickerEnds \/ ForeignGoes \/ AbortAll
         \/ \E r \in Runs :
              \/ Provision(r) \/ CheckAbort(r) \/ Spawn(r) \/ HoldProc(r) \/ Waited(r)
              \/ Judge(r) \/ GuardSweep(r) \/ SweepEnds(r) \/ Fails(r) \/ Simulate(r)
         \/ \E r \in Runs : Release(r) \/ Dequeue(r)
         \/ \E r \in Runs : \E n \in Nat : Admit(r, n) \/ Readmit(r, n)
         \/ \E n \in Nat : Tick(n) \/ AbortReadmits(n)
         \/ ServerDies \/ ServerStarts
BY CountsAreNumbers DEF ConsoleNext, Thread, Operator

\* Every step of requests, threads, ticker, operator and server keeps the console's
\* invariant: the queue is the runs that wait, the reservations are the runs in flight,
\* and their peaks fit.
THEOREM ConsoleInduction ==
  ConsoleInv /\ [ConsoleNext]_consoleVars => ConsoleInv'
<1> SUFFICES ASSUME ConsoleInv, [ConsoleNext]_consoleVars PROVE ConsoleInv'
  OBVIOUS
<1>1. CASE UNCHANGED consoleVars
  BY <1>1, StutterKeeps
<1>2. CASE ConsoleNext
  <2>1. ASSUME NEW r \in Runs,
               \/ Provision(r) \/ CheckAbort(r) \/ Spawn(r) \/ HoldProc(r) \/ Waited(r)
               \/ Judge(r) \/ GuardSweep(r) \/ SweepEnds(r) \/ Fails(r) \/ Simulate(r)
        PROVE  ConsoleInv'
    BY <2>1, WorkSteps, WorksKeeps DEF ConsoleInv
  <2>2. ASSUME CronChecks \/ TickerEnds \/ ForeignGoes \/ AbortAll
        PROVE  ConsoleInv'
    BY <2>2, QuietStepsKeep
  <2>3. QED
    BY <1>2, <2>1, <2>2, StepsSplit, PutStepsKeep, QuietStepsKeep, ReleaseKeeps, DequeueKeeps,
       AdmitKeeps, ReadmitKeeps, LooksKeep, ServerDiesKeeps, ServerStartsKeeps
<1>3. QED
  BY <1>1, <1>2

\* The console's types; with them, _QUEUE has each run once, and none that is reserved.
THEOREM ConsoleTypesHold ==
  ConsoleSpec => []ConsoleTypeOK
<1>1. ConsoleInv => ConsoleTypeOK
  <2> SUFFICES ASSUME ConsoleInv PROVE ConsoleTypeOK
    OBVIOUS
  <2>1. reserved \cap ToSet(queue) = {}
    <3>1. CASE server.up
      BY <3>1 DEF ConsoleInv, Placed, InLine, ReservedExact, InFlight
    <3>2. CASE ~server.up
      BY <3>2 DEF ConsoleInv, Placed
    <3>3. QED
      BY <3>1, <3>2
  <2>2. QED
    BY <2>1 DEF ConsoleInv, Shapes, ConsoleTypeOK, RunRecords, RunRemains, Targets
<1>2. QED
  BY <1>1, ConsoleInitKeeps, ConsoleInduction, PTL DEF ConsoleSpec

\* The admission of _admit_or_queue and _try_admit_queue never takes more than the cap
\* leaves beside the VPCs found, and however a thread ends, its slots come back.
THEOREM ReservationsHold ==
  ConsoleSpec => []Reservations
<1>1. ConsoleInv => Reservations
  BY DEF ConsoleInv, Placed, Reservations
<1>2. QED
  BY <1>1, ConsoleInitKeeps, ConsoleInduction, PTL DEF ConsoleSpec

-----------------------------------------------------------------------------
(* The console: the sweep at the end of a run *)

\* What holds of the record q of a LIVE run, with its pytest alive or not: pytest is
\* there only while the thread waits for it, nobody kills it unless the run is to stop,
\* and up to that wait the run is running, or is to stop.
LocalOK(q, tree) ==
  /\ q.at # "force"
  /\ tree => q.at \in {"spawned", "wait"}
  /\ q.status = "queued" <=> q.at = "waiting"
  /\ q.kill => q.abort
  /\ q.at \in {"begin", "check", "spawned", "wait"} => q.status = "running" \/ q.abort

\* Pytest has ended by itself, and the run has still its sweep to come or is in it.
PastBy(q, tree) ==
  \/ q.at \in {"guard", "end sweep"}
  \/ q.at \in {"spawned", "wait", "judge"} /\ ~tree /\ ~q.abort
Past(r) == PastBy(rec[r], disk[r].tree)

Away == {"none", "readmit", "over"}

\* A run that is past its pytest counts as running, so that no other LIVE run is
\* launched; none was being launched when its pytest ended.  When the sweep begins
\* the others are over, or not launched yet.
SweepInv ==
  ~server.died =>
    /\ server.up
    /\ \A r \in Live :
         /\ LocalOK(rec[r], disk[r].tree)
         /\ op.at = "dequeue" /\ op.run = {r} => ~Past(r)
         /\ Past(r) => rec[r].status = "running"
         /\ Past(r) => \A s \in Live : rec[s].at # "admit" /\ (cron => rec[s].at # "none")
         /\ rec[r].at = "end sweep" => \A s \in Live \ {r} : rec[s].at \in Away

LEMMA LiveAreRuns ==
  Live \subseteq Runs /\ Live \subseteq Admitted /\ Live \cap Forced = {} /\ Live \cap Sim = {}
BY ConsoleAssumption DEF Runs, Admitted

LEMMA PastIsActive ==
  ASSUME SweepInv, ~server.died, NEW r \in Live, Past(r)
  PROVE  LiveActive
BY DEF SweepInv, LiveActive

\* A step that puts the record of one run, and makes no run past its pytest.
LEMMA PutAlone ==
  ASSUME rec \in [Runs -> RunRecords], SweepInv, ~server.died, server' = server,
         NEW r \in Runs, NEW q, Puts(r, q),
         \A s \in Live \ {r} : disk'[s].tree = disk[s].tree,
         op' = op \/ op'.at # "dequeue", cron' => cron,
         r \in Live => LocalOK(q, disk'[r].tree),
         r \in Live /\ PastBy(q, disk'[r].tree) => Past(r) /\ q.status = rec[r].status,
         r \in Live /\ (\E s \in Live : Past(s)) =>
           /\ q.at # "admit" /\ (q.at = "none" => rec[r].at = "none")
           /\ rec[r].at \in Away => q.at \in Away,
         r \in Live /\ q.at = "end sweep" =>
           rec[r].at = "end sweep" \/ \A s \in Live \ {r} : rec[s].at \in Away
  PROVE  SweepInv'
<1>1. rec'[r] = q /\ \A s \in Runs \ {r} : rec'[s] = rec[s]
  BY DEF Puts
<1>2. server'.up /\ ~server'.died
  BY DEF SweepInv
<1>3. \A s \in Live \ {r} : rec'[s] = rec[s] /\ disk'[s].tree = disk[s].tree
  BY <1>1, LiveAreRuns
<1>4. ASSUME NEW s \in Live, Past(s)' PROVE Past(s) /\ rec'[s].status = rec[s].status
  BY <1>1, <1>3, <1>4 DEF Past
<1>5. ASSUME NEW s \in Live
      PROVE  /\ LocalOK(rec'[s], disk'[s].tree)
             /\ op'.at = "dequeue" /\ op'.run = {s} => ~Past(s)'
             /\ Past(s)' => rec'[s].status = "running"
  <2>1. LocalOK(rec'[s], disk'[s].tree)
    BY <1>1, <1>3 DEF SweepInv
  <2>2. op'.at = "dequeue" /\ op'.run = {s} => ~Past(s)'
    BY <1>4 DEF SweepInv
  <2>3. Past(s)' => rec'[s].status = "running"
    BY <1>4 DEF SweepInv
  <2>4. QED
    BY <2>1, <2>2, <2>3
<1>6. ASSUME NEW s \in Live, Past(s)', NEW u \in Live
      PROVE  rec'[u].at # "admit" /\ (cron' => rec'[u].at # "none")
  <2>1. Past(s) /\ rec[u].at # "admit" /\ (cron => rec[u].at # "none")
    BY <1>4, <1>6 DEF SweepInv
  <2>2. QED
    BY <1>1, <1>3, <2>1
<1>7. ASSUME NEW s \in Live, rec'[s].at = "end sweep", NEW u \in Live \ {s}
      PROVE  rec'[u].at \in Away
  <2>1. CASE s = r
    BY <1>1, <1>3, <1>7, <2>1 DEF SweepInv
  <2>2. CASE s # r
    <3>1. rec[s].at = "end sweep" /\ Past(s) /\ rec[u].at \in Away
      BY <1>3, <1>7, <2>2 DEF SweepInv, Past, PastBy
    <3>2. QED
      BY <1>1, <1>3, <3>1
  <2>3. QED
    BY <2>1, <2>2
<1>8. QED
  BY <1>2, <1>5, <1>6, <1>7 DEF SweepInv

\* A step that leaves the records and every pytest, and gives the operator no run to
\* take from the queue.
LEMMA StillAlone ==
  ASSUME SweepInv, ~server.died, server' = server, rec' = rec,
         \A s \in Live : disk'[s].tree = disk[s].tree,
         op' = op \/ op'.at # "dequeue", cron' => cron
  PROVE  SweepInv'
<1>1. \A s \in Live : Past(s)' <=> Past(s)
  BY DEF Past
<1>2. QED
  BY <1>1 DEF SweepInv

LEMMA WorksAlone ==
  ASSUME ConsoleInv, SweepInv, ~server.died, NEW r \in Runs, NEW q \in RunRecords, Works(r, q)
  PROVE  SweepInv'
<1>1. /\ rec \in [Runs -> RunRecords] /\ disk \in [Runs -> RunRemains]
      /\ Puts(r, q) /\ q.abort = rec[r].abort /\ q.kill = rec[r].kill
      /\ WorkMoves(r, q) /\ server.up
      /\ \A s \in Live \ {r} : disk'[s].tree = disk[s].tree
      /\ server' = server /\ op' = op /\ cron' = cron
  BY LiveAreRuns DEF Works, ConsoleInv, Shapes
<1>2. r \in Live => LocalOK(rec[r], disk[r].tree)
  BY DEF SweepInv
<1>3. r \in Live => LocalOK(q, disk'[r].tree)
  BY <1>1, <1>2 DEF LocalOK, WorkMoves
<1>4. r \in Live /\ PastBy(q, disk'[r].tree) => Past(r) /\ q.status = rec[r].status
  BY <1>1, <1>2 DEF LocalOK, WorkMoves, Past, PastBy
<1>5. r \in Live => /\ q.at # "admit" /\ q.at # "none" /\ rec[r].at \notin Away
  BY <1>1 DEF WorkMoves, Away
<1>6. ASSUME r \in Live, q.at = "end sweep", rec[r].at # "end sweep", NEW s \in Live \ {r}
      PROVE  rec[s].at \in Away
  <2>1. rec[r].at = "guard" /\ reserved \subseteq {r} /\ queue = <<>>
    BY <1>1, <1>6 DEF WorkMoves
  <2>2. Past(r)
    BY <2>1 DEF Past, PastBy
  <2>3. rec[s].at # "admit" /\ rec[s].at # "force"
    BY <1>6, <2>2 DEF SweepInv, LocalOK
  <2>4. s \notin InFlight /\ s \in Admitted /\ s \in Runs
    BY <1>1, <2>1, LiveAreRuns DEF ConsoleInv, Placed, ReservedExact
  <2>5. rec[s].at # "waiting"
    <3>1. ToSet(queue) = {}
      BY <2>1 DEF ToSet
    <3>2. QED
      BY <1>1, <2>4, <3>1 DEF ConsoleInv, Placed, InLine
  <2>6. QED
    BY <2>3, <2>4, <2>5 DEF InFlight, Away
<1>7. QED
  BY <1>1, <1>3, <1>4, <1>5, <1>6, PutAlone

LEMMA LaunchAlone ==
  ASSUME ConsoleInv, SweepInv, ~server.died, NEW r \in Runs,
         StartRun(r) \/ CronStarts(r) \/ StartCleanup(r)
  PROVE  SweepInv'
<1>1. rec \in [Runs -> RunRecords] /\ disk \in [Runs -> RunRemains]
  BY DEF ConsoleInv, Shapes
<1>2. PICK q \in RunRecords :
           /\ Puts(r, q) /\ q.at = IF r \in Forced THEN "force" ELSE "admit"
           /\ q.status = "running" /\ q.abort = rec[r].abort /\ q.kill = rec[r].kill
  BY LaunchPuts
<1>3. /\ rec[r].at = "none" /\ server' = server /\ op' = op /\ (cron' => cron)
      /\ disk' = disk \/ disk' = [disk EXCEPT ![r].log = "head"]
  BY DEF StartRun, CronStarts, StartCleanup, admission, around
<1>4. \A s \in Live : disk'[s].tree = disk[s].tree
  BY <1>1, <1>3, LogPut, LiveAreRuns
<1>5. r \in Live => LocalOK(q, disk'[r].tree) /\ q.at = "admit"
  BY <1>2, <1>3, <1>4, LiveAreRuns DEF SweepInv, LocalOK
<1>6. r \in Live => ~ \E s \in Live : Past(s)
  <2>1. CASE StartRun(r)
    BY <2>1, PastIsActive DEF StartRun
  <2>2. CASE CronStarts(r)
    BY <2>2 DEF CronStarts, SweepInv
  <2>3. CASE StartCleanup(r)
    BY <2>3, LiveAreRuns DEF StartCleanup
  <2>4. QED
    BY <2>1, <2>2, <2>3
<1>7. QED
  BY <1>1, <1>2, <1>3, <1>4, <1>5, <1>6, PutAlone DEF PastBy

LEMMA ForceEndsAlone ==
  ASSUME ConsoleInv, SweepInv, ~server.died, NEW r \in Runs, ForceEnds(r)
  PROVE  SweepInv'
<1>1. /\ rec \in [Runs -> RunRecords] /\ rec[r].at = "force" /\ Sets(r, "done", "over")
      /\ UNCHANGED <<disk, op, cron, server>>
  BY DEF ConsoleInv, Shapes, ForceEnds, At, Sets, Places, admission, around
<1>2. PICK q \in RunRecords : Puts(r, q)
  BY <1>1, BothPut
<1>3. r \notin Live
  BY <1>1 DEF SweepInv, LocalOK
<1>4. QED
  BY <1>1, <1>2, <1>3, PutAlone

LEMMA KilledAlone ==
  ASSUME ConsoleInv, SweepInv, ~server.died, NEW r \in Runs, Killed(r)
  PROVE  SweepInv'
<1>1. /\ rec \in [Runs -> RunRecords] /\ disk \in [Runs -> RunRemains]
      /\ rec[r].kill /\ disk[r].tree /\ disk' = [disk EXCEPT ![r].tree = FALSE]
      /\ UNCHANGED <<op, cron, server>>
  BY DEF ConsoleInv, Shapes, Killed, admission, around
<1>2. PICK q \in RunRecords :
        /\ Puts(r, q) /\ q.at = rec[r].at /\ q.kill = FALSE
        /\ q.status = rec[r].status /\ q.abort = rec[r].abort
  BY <1>1, KilledPuts
<1>3. disk'[r].tree = FALSE /\ \A s \in Live \ {r} : disk'[s].tree = disk[s].tree
  <2>1. \A s \in Runs : disk'[s].tree = IF s = r THEN FALSE ELSE disk[s].tree
    BY <1>1 DEF RunRemains
  <2>2. QED
    BY <2>1, LiveAreRuns
<1>4. r \in Live => /\ LocalOK(q, disk'[r].tree) /\ ~PastBy(q, disk'[r].tree)
                    /\ rec[r].at \in {"spawned", "wait"}
  BY <1>1, <1>2, <1>3 DEF SweepInv, LocalOK, PastBy
<1>5. QED
  BY <1>1, <1>2, <1>3, <1>4, PutAlone

LEMMA AbortRunningAlone ==
  ASSUME ConsoleInv, SweepInv, ~server.died, NEW r \in Runs, AbortRunning(r)
  PROVE  SweepInv'
<1>1. /\ rec \in [Runs -> RunRecords] /\ op \in Targets
      /\ op.at = "next" /\ op' = [op EXCEPT !.queued = @ \ {r}, !.running = @ \ {r}]
      /\ UNCHANGED <<disk, cron, server>>
  BY DEF ConsoleInv, Shapes, AbortRunning, ToVisit, Visited, admission
<1>2. op'.at # "dequeue"
  BY <1>1 DEF Targets
<1>3. PICK q \in RunRecords :
        Puts(r, q) /\ q.status = rec[r].status /\ q.abort = TRUE /\ q.at = rec[r].at
  BY <1>1, AbortRunningPuts
<1>4. r \in Live => LocalOK(q, disk'[r].tree)
  BY <1>1, <1>3 DEF SweepInv, LocalOK
<1>5. PastBy(q, disk'[r].tree) => Past(r)
  BY <1>3 DEF Past, PastBy
<1>6. r \in Live /\ (\E s \in Live : Past(s)) => rec[r].at # "admit"
  BY DEF SweepInv
<1>7. QED
  BY <1>1, <1>2, <1>3, <1>4, <1>5, <1>6, PutAlone

LEMMA AdmitAlone ==
  ASSUME ConsoleInv, SweepInv, ~server.died, NEW r \in Runs, NEW n, Admit(r, n)
  PROVE  SweepInv'
<1>1. /\ rec \in [Runs -> RunRecords] /\ rec[r].at = "admit"
      /\ UNCHANGED <<disk, op, cron, server>>
  BY DEF ConsoleInv, Shapes, Admit, around
<1>2. PICK q \in RunRecords :
        /\ Puts(r, q) /\ q.abort = rec[r].abort /\ q.kill = rec[r].kill
        /\ \/ q.status = "running" /\ q.at = "begin"
           \/ q.status = "queued" /\ q.at = "waiting"
  <2>1. Sets(r, "running", "begin") \/ Sets(r, "queued", "waiting")
    BY DEF Admit, Sets, Places
  <2>2. QED
    BY <1>1, <2>1, BothPut
<1>3. r \in Live => LocalOK(q, disk'[r].tree)
  BY <1>1, <1>2 DEF SweepInv, LocalOK
<1>4. r \in Live => ~ \E s \in Live : Past(s)
  BY <1>1 DEF SweepInv
<1>5. ~PastBy(q, disk'[r].tree) /\ q.at # "end sweep"
  BY <1>2 DEF PastBy
<1>6. QED
  BY <1>1, <1>2, <1>3, <1>4, <1>5, PutAlone

LEMMA ReleaseAlone ==
  ASSUME ConsoleInv, SweepInv, ~server.died, NEW r \in Runs, Release(r)
  PROVE  SweepInv'
<1>1. /\ rec \in [Runs -> RunRecords] /\ rec[r].at = "release" /\ To(r, "readmit")
      /\ UNCHANGED <<disk, op, cron, server>>
  BY DEF ConsoleInv, Shapes, Release, At, around
<1>2. PICK q \in RunRecords :
        /\ Puts(r, q) /\ q.at = "readmit"
        /\ q.status = rec[r].status /\ q.abort = rec[r].abort /\ q.kill = rec[r].kill
  <2>1. "readmit" \in Places
    BY DEF Places
  <2>2. QED
    BY <1>1, <2>1, ToPuts
<1>3. r \in Live => LocalOK(q, disk'[r].tree)
  BY <1>1, <1>2 DEF SweepInv, LocalOK
<1>4. ~PastBy(q, disk'[r].tree) /\ q.at \in Away
  BY <1>2 DEF PastBy, Away
<1>5. QED
  BY <1>1, <1>2, <1>3, <1>4, PutAlone DEF Away

LEMMA DequeueAlone ==
  ASSUME ConsoleInv, SweepInv, ~server.died, NEW r \in Runs, Dequeue(r)
  PROVE  SweepInv'
<1>1. /\ rec \in [Runs -> RunRecords] /\ disk \in [Runs -> RunRemains] /\ op \in Targets
      /\ op.at = "dequeue" /\ op.run = {r} /\ op' = [op EXCEPT !.at = "readmit", !.run = {}]
      /\ disk' = [disk EXCEPT ![r].log = "abort"]
      /\ UNCHANGED <<cron, server>>
  BY DEF ConsoleInv, Shapes, Dequeue
<1>2. op'.at # "dequeue"
  BY <1>1 DEF Targets
<1>3. \A s \in Runs : disk'[s].tree = disk[s].tree
  BY <1>1, LogPut
<1>4. PICK q \in RunRecords :
        /\ Puts(r, q) /\ q.status = "aborted" /\ q.abort = TRUE /\ q.kill = rec[r].kill
        /\ q.at = IF rec[r].at = "waiting" THEN "over" ELSE rec[r].at
  BY <1>1, DequeuePuts
<1>5. r \in Live => ~Past(r)
  BY <1>1 DEF SweepInv
<1>6. r \in Live => LocalOK(q, disk'[r].tree) /\ ~PastBy(q, disk'[r].tree)
  BY <1>3, <1>4, <1>5 DEF SweepInv, LocalOK, Past, PastBy
<1>7. r \in Live /\ (\E s \in Live : Past(s)) => rec[r].at # "admit"
  BY DEF SweepInv
<1>8. \A s \in Live \ {r} : disk'[s].tree = disk[s].tree
  BY <1>3, LiveAreRuns
<1>9. r \in Live => q.at # "end sweep"
  BY <1>6 DEF PastBy
<1>10. q.at # "admit" \/ rec[r].at = "admit"
  BY <1>4
<1>11. (q.at = "none" => rec[r].at = "none") /\ (rec[r].at \in Away => q.at \in Away)
  BY <1>4 DEF Away
<1>12. QED
  BY <1>1, <1>2, <1>4, <1>6, <1>7, <1>8, <1>9, <1>10, <1>11, PutAlone

\* Pytest ends by itself: by then no launch and no mark of a stop is half done.
LEMMA PytestEndsAlone ==
  ASSUME ConsoleInv, SweepInv, ~server.died, NEW r \in Runs, PytestEnds(r)
  PROVE  SweepInv'
<1>1. /\ disk \in [Runs -> RunRemains] /\ disk[r].tree /\ Quick
      /\ UNCHANGED <<rec, op, cron, server>>
  BY DEF ConsoleInv, Shapes, PytestEnds, around
<1>2. disk'[r].tree = FALSE /\ \A s \in Live \ {r} : disk'[s].tree = disk[s].tree
  <2>1. PICK x \in {"none", "head", "summary", "missing", "abort"} :
          disk' = [disk EXCEPT ![r].tree = FALSE, ![r].log = x]
    BY DEF PytestEnds
  <2>2. FALSE \in BOOLEAN
    OBVIOUS
  <2>3. QED
    BY <1>1, <2>1, <2>2, TreePut, LiveAreRuns
<1>3. \A s \in Live : rec[s].at # "admit" /\ (cron => rec[s].at # "none")
  BY <1>1, LiveAreRuns DEF Quick
<1>4. op.at # "dequeue"
  BY <1>1 DEF Quick
<1>5. ASSUME NEW s \in Live
      PROVE  LocalOK(rec[s], disk'[s].tree) /\ (Past(s)' => rec[s].status = "running")
  <2>1. LocalOK(rec[s], disk[s].tree) /\ (Past(s) => rec[s].status = "running")
    BY DEF SweepInv
  <2>2. CASE s = r
    BY <1>1, <1>2, <2>1, <2>2 DEF LocalOK, Past, PastBy
  <2>3. CASE s # r
    BY <1>1, <1>2, <2>1, <2>3 DEF Past
  <2>4. QED
    BY <2>2, <2>3
<1>6. QED
  BY <1>1, <1>3, <1>4, <1>5 DEF SweepInv

LEMMA AbortQueuedAlone ==
  ASSUME ConsoleInv, SweepInv, ~server.died, NEW r \in Runs, AbortQueued(r)
  PROVE  SweepInv'
<1>1. /\ op \in Targets /\ rec[r].status = "queued"
      /\ op' = [Visited(r) EXCEPT !.at = "dequeue", !.run = {r}]
      /\ UNCHANGED <<rec, disk, cron, server>>
  BY DEF ConsoleInv, Shapes, AbortQueued
<1>2. op'.run = {r}
  BY <1>1 DEF Targets, Visited
<1>3. \A s \in Live : Past(s)' <=> Past(s)
  BY <1>1 DEF Past
<1>4. ASSUME NEW s \in Live, op'.run = {s} PROVE ~Past(s)
  <2>1. s = r
    BY <1>2, <1>4
  <2>2. QED
    BY <1>1, <2>1 DEF SweepInv, LocalOK, Past, PastBy
<1>5. QED
  BY <1>1, <1>3, <1>4 DEF SweepInv

LEMMA CronChecksAlone ==
  ASSUME SweepInv, ~server.died, CronChecks
  PROVE  SweepInv'
<1>1. ~LiveActive /\ UNCHANGED <<rec, disk, op, server>>
  BY DEF CronChecks, admission
<1>2. \A s \in Live : ~Past(s)
  BY <1>1, PastIsActive
<1>3. \A s \in Live : ~Past(s)'
  BY <1>1, <1>2 DEF Past
<1>4. QED
  BY <1>1, <1>3 DEF SweepInv

\* A look at the queue starts runs that wait; a run that is past its pytest and one
\* that is away are none of them.
LEMMA LookAlone ==
  ASSUME ConsoleInv, SweepInv, ~server.died, server' = server, NEW n \in Nat,
         NEW R \in [Runs -> RunRecords], AdmitQueue(n, R),
         \A s \in Runs : /\ R[s].status = rec[s].status
                         /\ R[s].abort = rec[s].abort /\ R[s].kill = rec[s].kill
                         /\ \/ R[s].at = rec[s].at
                            \/ R[s].at = "over" /\ rec[s].at = "readmit",
         UNCHANGED <<disk, cron>>, op' = op \/ op'.at # "dequeue"
  PROVE  SweepInv'
<1>1. Shapes /\ Placed /\ server.up
  BY DEF ConsoleInv, SweepInv
<1>2. PICK ready \in SUBSET InLine :
        /\ \A r \in ready : rec'[r] = Started(R[r])
        /\ \A r \in Runs \ ready : rec'[r] = R[r]
  BY <1>1, AdmitQueueStarts
<1>3. ASSUME NEW s \in Live
      PROVE  /\ rec'[s].abort = rec[s].abort /\ rec'[s].kill = rec[s].kill
             /\ \/ rec'[s].status = rec[s].status /\ rec'[s].at = rec[s].at
                \/ rec'[s].status = rec[s].status /\ rec[s].at = "readmit" /\ rec'[s].at = "over"
                \/ rec'[s].status = "running" /\ rec[s].at = "waiting" /\ rec'[s].at = "begin"
  <2>1. s \in Runs /\ R[s] \in RunRecords
    BY LiveAreRuns
  <2>2. CASE s \in ready
    BY <1>2, <2>1, <2>2, StartedFields DEF InLine
  <2>3. CASE s \notin ready
    BY <1>2, <2>1, <2>3
  <2>4. QED
    BY <2>2, <2>3
<1>4. disk' = disk /\ (cron' <=> cron)
  OBVIOUS
<1>5. ASSUME NEW s \in Live
      PROVE  /\ (Past(s)' <=> Past(s)) /\ LocalOK(rec'[s], disk'[s].tree)
             /\ Past(s)' => rec'[s].status = "running"
             /\ rec'[s].at = "admit" <=> rec[s].at = "admit"
             /\ rec'[s].at = "none" <=> rec[s].at = "none"
             /\ rec'[s].at = "end sweep" <=> rec[s].at = "end sweep"
             /\ rec[s].at \in Away => rec'[s].at \in Away
  <2>1. LocalOK(rec[s], disk[s].tree) /\ (Past(s) => rec[s].status = "running")
    BY DEF SweepInv
  <2>2. /\ rec'[s].abort = rec[s].abort /\ rec'[s].kill = rec[s].kill
        /\ disk'[s].tree = disk[s].tree
    BY <1>3, <1>4
  <2>3. CASE rec'[s].status = rec[s].status /\ rec'[s].at = rec[s].at
    BY <2>1, <2>2, <2>3 DEF LocalOK, Past, PastBy, Away
  <2>4. CASE rec'[s].status = rec[s].status /\ rec[s].at = "readmit" /\ rec'[s].at = "over"
    BY <2>1, <2>2, <2>4 DEF LocalOK, Past, PastBy, Away
  <2>5. CASE rec'[s].status = "running" /\ rec[s].at = "waiting" /\ rec'[s].at = "begin"
    BY <2>1, <2>2, <2>5 DEF LocalOK, Past, PastBy, Away
  <2>6. QED
    BY <1>3, <2>3, <2>4, <2>5
<1>6. ASSUME NEW s \in Live, Past(s)', NEW u \in Live
      PROVE  rec'[u].at # "admit" /\ (cron' => rec'[u].at # "none")
  <2>1. Past(s)
    BY <1>5, <1>6
  <2>2. rec[u].at # "admit" /\ (cron => rec[u].at # "none")
    BY <2>1 DEF SweepInv
  <2>3. QED
    BY <1>4, <1>5, <2>2
<1>7. ASSUME NEW s \in Live, rec'[s].at = "end sweep", NEW u \in Live \ {s}
      PROVE  rec'[u].at \in Away
  <2>1. rec[s].at = "end sweep"
    BY <1>5, <1>7
  <2>2. rec[u].at \in Away
    BY <2>1 DEF SweepInv
  <2>3. QED
    BY <1>5, <2>2
<1>8. ASSUME NEW s \in Live, op'.at = "dequeue", op'.run = {s}
      PROVE  ~Past(s)'
  <2>1. ~Past(s)
    BY <1>8 DEF SweepInv
  <2>2. QED
    BY <1>5, <2>1
<1>9. server'.up /\ ~server'.died
  BY <1>1
<1>10. QED
  BY <1>5, <1>6, <1>7, <1>8, <1>9 DEF SweepInv

LEMMA LooksAlone ==
  ASSUME ConsoleInv, SweepInv, ~server.died, NEW n \in Nat
  PROVE  /\ Tick(n) => SweepInv'
         /\ AbortReadmits(n) => SweepInv'
         /\ \A r \in Runs : Readmit(r, n) => SweepInv'
<1>1. rec \in [Runs -> RunRecords] /\ op \in Targets
  BY DEF ConsoleInv, Shapes
<1>2. ASSUME Tick(n) PROVE SweepInv'
  <2>1. AdmitQueue(n, rec) /\ UNCHANGED <<disk, cron, op, server>>
    BY <1>2 DEF Tick, around
  <2>2. QED
    BY <1>1, <2>1, LookAlone
<1>3. ASSUME AbortReadmits(n) PROVE SweepInv'
  <2>1. /\ AdmitQueue(n, rec) /\ UNCHANGED <<disk, cron, server>>
        /\ op' = [op EXCEPT !.at = "next"]
    BY <1>3 DEF AbortReadmits
  <2>2. op'.at # "dequeue"
    BY <1>1, <2>1 DEF Targets
  <2>3. QED
    BY <1>1, <2>1, <2>2, LookAlone
<1>4. ASSUME NEW r \in Runs, Readmit(r, n) PROVE SweepInv'
  <2> DEFINE R == [rec EXCEPT ![r].at = "over"]
  <2>1. AdmitQueue(n, R) /\ rec[r].at = "readmit" /\ UNCHANGED <<disk, cron, op, server>>
    BY <1>4 DEF Readmit, At, around
  <2>2. /\ R \in [Runs -> RunRecords]
        /\ \A s \in Runs : /\ R[s].status = rec[s].status
                           /\ R[s].abort = rec[s].abort /\ R[s].kill = rec[s].kill
                           /\ \/ R[s].at = rec[s].at
                              \/ R[s].at = "over" /\ rec[s].at = "readmit"
    BY <1>1, <2>1, OverFields
  <2> HIDE DEF R
  <2>3. QED
    BY <2>1, <2>2, LookAlone
<1>5. QED
  BY <1>2, <1>3, <1>4

LEMMA QuietStepsAlone ==
  ASSUME ConsoleInv, SweepInv, ~server.died
  PROVE  /\ \A r \in Runs : EnsureTicker(r) \/ VpcGoes(r) \/ AbortOne(r) \/ AbortRefused(r)
              => SweepInv'
         /\ TickerEnds \/ AbortAll \/ ForeignGoes => SweepInv'
<1>1. disk \in [Runs -> RunRemains] /\ op \in Targets /\ server.up
  BY DEF ConsoleInv, Shapes, SweepInv
<1>2. ASSUME NEW r \in Runs, EnsureTicker(r) PROVE SweepInv'
  BY <1>2, StillAlone DEF EnsureTicker, around
<1>3. ASSUME NEW r \in Runs, VpcGoes(r) PROVE SweepInv'
  <2>1. /\ disk' = [disk EXCEPT ![r].vpc = FALSE]
        /\ UNCHANGED <<rec, op, cron, server>>
    BY <1>3 DEF VpcGoes, around
  <2>2. \A s \in Live : disk'[s].tree = disk[s].tree
    BY <1>1, <2>1, VpcPut, LiveAreRuns
  <2>3. QED
    BY <2>1, <2>2, StillAlone
<1>4. ASSUME NEW r \in Runs, AbortOne(r) PROVE SweepInv'
  <2>1. op'.at # "dequeue" /\ UNCHANGED <<rec, disk, cron, server>>
    BY <1>4 DEF AbortOne, NoOne
  <2>2. QED
    BY <2>1, StillAlone
<1>5. ASSUME NEW r \in Runs, AbortRefused(r) PROVE SweepInv'
  <2>1. op'.at # "dequeue" /\ UNCHANGED <<rec, disk, cron, server>>
    BY <1>1, <1>5 DEF AbortRefused, ToVisit, Visited, Targets
  <2>2. QED
    BY <2>1, StillAlone
<1>6. ASSUME TickerEnds PROVE SweepInv'
  BY <1>6, StillAlone DEF TickerEnds, around
<1>7. ASSUME AbortAll PROVE SweepInv'
  <2>1. op'.at # "dequeue" /\ UNCHANGED <<rec, disk, cron, server>>
    BY <1>7 DEF AbortAll, NoOne
  <2>2. QED
    BY <2>1, StillAlone
<1>8. ASSUME ForeignGoes PROVE SweepInv'
  BY <1>8, StillAlone DEF ForeignGoes
<1>9. QED
  BY <1>2, <1>3, <1>4, <1>5, <1>6, <1>7, <1>8

LEMMA DiedStays ==
  ASSUME Shapes, server.died, [ConsoleNext]_consoleVars
  PROVE  server'.died
<1> USE DEF around
<1>1. server \in [up : BOOLEAN, died : BOOLEAN]
  BY DEF Shapes
<1>2. CASE UNCHANGED consoleVars
  BY <1>2 DEF consoleVars
<1>3. CASE ServerDies \/ ServerStarts
  BY <1>1, <1>3 DEF ServerDies, ServerStarts
<1>4. ASSUME NEW r \in Runs,
             \/ StartRun(r) \/ CronStarts(r) \/ StartCleanup(r)
             \/ ForceEnds(r) \/ Killed(r) \/ AbortRunning(r)
      PROVE  server' = server
  BY <1>4 DEF StartRun, CronStarts, StartCleanup, ForceEnds, Killed, AbortRunning
<1>5. ASSUME NEW r \in Runs,
             \/ EnsureTicker(r) \/ PytestEnds(r) \/ VpcGoes(r)
             \/ AbortOne(r) \/ AbortQueued(r) \/ AbortRefused(r)
      PROVE  server' = server
  BY <1>5 DEF EnsureTicker, PytestEnds, VpcGoes, AbortOne, AbortQueued, AbortRefused
<1>6. ASSUME CronChecks \/ TickerEnds \/ ForeignGoes \/ AbortAll
      PROVE  server' = server
  BY <1>6 DEF CronChecks, TickerEnds, ForeignGoes, AbortAll
<1>7. ASSUME NEW r \in Runs,
             \/ Provision(r) \/ CheckAbort(r) \/ Spawn(r) \/ HoldProc(r) \/ Waited(r)
             \/ Judge(r) \/ GuardSweep(r) \/ SweepEnds(r) \/ Fails(r) \/ Simulate(r)
      PROVE  server' = server
  BY <1>7, WorkSteps DEF Works
<1>8. ASSUME NEW r \in Runs, Release(r) \/ Dequeue(r)
      PROVE  server' = server
  BY <1>8 DEF Release, Dequeue
<1>9. ASSUME NEW r \in Runs, NEW n \in Nat, Admit(r, n) \/ Readmit(r, n)
      PROVE  server' = server
  BY <1>9 DEF Admit, Readmit
<1>10. ASSUME NEW n \in Nat, Tick(n) \/ AbortReadmits(n)
       PROVE  server' = server
  BY <1>10 DEF Tick, AbortReadmits
<1>11. QED
  BY <1>2, <1>3, <1>4, <1>5, <1>6, <1>7, <1>8, <1>9, <1>10, StepsSplit

\* Every step keeps what the sweep at the end of a run relies on, as long as the server
\* has not died: at most one LIVE run is past its pytest, and nobody is launched then.
THEOREM SweepInduction ==
  ConsoleInv /\ SweepInv /\ [ConsoleNext]_consoleVars => SweepInv'
<1> SUFFICES ASSUME ConsoleInv, SweepInv, [ConsoleNext]_consoleVars PROVE SweepInv'
  OBVIOUS
<1>1. CASE server.died
  BY <1>1, DiedStays DEF ConsoleInv, SweepInv
<1>2. CASE ~server.died /\ UNCHANGED consoleVars
  BY <1>2, StillAlone DEF consoleVars, around
<1>3. CASE ~server.died /\ ConsoleNext
  <2>1. ASSUME NEW r \in Runs,
               \/ Provision(r) \/ CheckAbort(r) \/ Spawn(r) \/ HoldProc(r) \/ Waited(r)
               \/ Judge(r) \/ GuardSweep(r) \/ SweepEnds(r) \/ Fails(r) \/ Simulate(r)
        PROVE  SweepInv'
    BY <1>3, <2>1, WorkSteps, WorksAlone DEF ConsoleInv
  <2>2. ASSUME NEW r \in Runs,
               \/ StartRun(r) \/ CronStarts(r) \/ StartCleanup(r)
               \/ ForceEnds(r) \/ Killed(r) \/ AbortRunning(r)
        PROVE  SweepInv'
    BY <1>3, <2>2, LaunchAlone, ForceEndsAlone, KilledAlone, AbortRunningAlone
  <2>3. ASSUME NEW r \in Runs,
               \/ EnsureTicker(r) \/ PytestEnds(r) \/ VpcGoes(r)
               \/ AbortOne(r) \/ AbortQueued(r) \/ AbortRefused(r)
        PROVE  SweepInv'
    BY <1>3, <2>3, PytestEndsAlone, AbortQueuedAlone, QuietStepsAlone
  <2>4. ASSUME CronChecks \/ TickerEnds \/ ForeignGoes \/ AbortAll
        PROVE  SweepInv'
    BY <1>3, <2>4, CronChecksAlone, QuietStepsAlone
  <2>5. ASSUME NEW r \in Runs, Release(r) \/ Dequeue(r)
        PROVE  SweepInv'
    BY <1>3, <2>5, ReleaseAlone, DequeueAlone
  <2>6. ASSUME NEW r \in Runs, NEW n \in Nat, Admit(r, n) \/ Readmit(r, n)
        PROVE  SweepInv'
    BY <1>3, <2>6, AdmitAlone, LooksAlone
  <2>7. ASSUME NEW n \in Nat, Tick(n) \/ AbortReadmits(n)
        PROVE  SweepInv'
    BY <1>3, <2>7, LooksAlone
  <2>8. CASE ServerDies
    BY <2>8 DEF ServerDies, SweepInv
  <2>9. CASE ServerStarts
    BY <1>3, <2>9 DEF ServerStarts, SweepInv
  <2>10. QED
    BY <1>3, <2>1, <2>2, <2>3, <2>4, <2>5, <2>6, <2>7, <2>8, <2>9, StepsSplit
<1>4. QED
  BY <1>1, <1>2, <1>3

LEMMA ConsoleInitAlone ==
  ConsoleInit => SweepInv
<1> SUFFICES ASSUME ConsoleInit PROVE SweepInv
  OBVIOUS
<1>1. \A r \in Live :
        /\ rec[r].at \in {"none", "over"} /\ rec[r].status \in {"none", "done"}
        /\ ~rec[r].abort /\ ~rec[r].kill /\ ~disk[r].tree
  BY LiveAreRuns DEF ConsoleInit, NewRecord, EarlierRecord, NewRemains
<1>2. server.up /\ op.at = "next"
  BY DEF ConsoleInit, NoOne
<1>3. QED
  BY <1>1, <1>2 DEF SweepInv, LocalOK, Past, PastBy, Away

\* The account-wide sweep that _run_worker does at the end of a run meets no pytest of
\* another LIVE run, in any order of launches, queueing and stops without a restart.
THEOREM EndSweepsStayAlone ==
  ConsoleSpec => []EndSweepAlone
<1>1. SweepInv => EndSweepAlone
  BY DEF SweepInv, LocalOK, EndSweepAlone, Away
<1>2. QED
  BY <1>1, ConsoleInitKeeps, ConsoleInitAlone, ConsoleInduction, SweepInduction, PTL
     DEF ConsoleSpec

-----------------------------------------------------------------------------
(* The rescans after a run *)

\* A list of entries, whatever they are of, with a count or None in each.
IsRescans(rescans) ==
  /\ \E S : rescans \in Seq(S)
  /\ \A i \in DOMAIN rescans : rescans[i].total \in Nat \cup {None}

\* `base' is the first of the counts in a list, if it has any.
IsBase(rescans, base) ==
  \/ WithCount(rescans) = {} /\ base = None
  \/ \E i \in WithCount(rescans) : FirstCount(rescans, i) /\ base = rescans[i].total

Alerted(m) ==
  \A i, j \in WithCount(m.rescans) :
    FirstCount(m.rescans, i) /\ m.rescans[j].total > m.rescans[i].total => m.alert

RecordInv(m) ==
  /\ m = [rescans |-> m.rescans, alert |-> m.alert]
  /\ IsRescans(m.rescans) /\ Alerted(m)

\* What the thread compares with is the first count of what the run remembers, which
\* is what the file says or more.
RescanInv ==
  /\ owned \in Nat
  /\ RecordInv(memory) /\ RecordInv(sidecar)
  /\ scanner = [todo |-> scanner.todo, at |-> scanner.at, base |-> scanner.base]
  /\ scanner.at \in {"next", "scan"} => IsBase(memory.rescans, scanner.base)

LEMMA RescansDomain ==
  ASSUME NEW rescans, IsRescans(rescans)
  PROVE  Len(rescans) \in Nat /\ DOMAIN rescans = 1 .. Len(rescans)
<1>1. PICK S : rescans \in Seq(S)
  BY DEF IsRescans
<1> QED BY <1>1

LEMMA BaseTotalIsBase ==
  ASSUME NEW rescans, IsRescans(rescans)
  PROVE  IsBase(rescans, BaseTotal(rescans))
<1>1. CASE WithCount(rescans) = {}
  BY <1>1 DEF IsBase, BaseTotal
<1>2. CASE WithCount(rescans) # {}
  <2>1. WithCount(rescans) \in SUBSET Nat
    BY RescansDomain DEF WithCount
  <2>2. \E i \in WithCount(rescans) : FirstCount(rescans, i)
    BY <1>2, <2>1, LeastNumber DEF FirstCount
  <2>3. PICK i \in WithCount(rescans) :
          FirstCount(rescans, i) /\ i = (CHOOSE k \in WithCount(rescans) : FirstCount(rescans, k))
    BY <2>2
  <2> QED BY <1>2, <2>3 DEF IsBase, BaseTotal
<1> QED BY <1>1, <1>2

\* An entry that is added with its comparison keeps the record and the base.
LEMMA EntryKeeps ==
  ASSUME NEW m, RecordInv(m), NEW base, IsBase(m.rescans, base),
         NEW e, e.total \in Nat \cup {None},
         NEW n, n = [rescans |-> n.rescans, alert |-> n.alert],
         n.rescans = Append(m.rescans, e), m.alert => n.alert,
         e.total # None /\ base # None /\ e.total > base => n.alert
  PROVE  /\ RecordInv(n)
         /\ base = None => IsBase(n.rescans, e.total)
         /\ base # None => IsBase(n.rescans, base)
<1> DEFINE l == Len(m.rescans)
           next == IF base = None THEN e.total ELSE base
<1>1. PICK S : m.rescans \in Seq(S)
  BY DEF RecordInv, IsRescans
<1>2. m.rescans \in Seq(S \cup {e})
  BY <1>1
<1>3. n.rescans \in Seq(S \cup {e})
  BY <1>2, AppendProperties
<1>4. /\ l \in Nat /\ DOMAIN m.rescans = 1 .. l /\ DOMAIN n.rescans = 1 .. l + 1
      /\ n.rescans[l + 1] = e /\ \A i \in 1 .. l : n.rescans[i] = m.rescans[i]
  BY <1>2
<1> HIDE DEF l
<1>5. IsRescans(n.rescans)
  BY <1>3, <1>4 DEF IsRescans, RecordInv
<1>6. WithCount(m.rescans) \subseteq 1 .. l
      /\ WithCount(n.rescans) = WithCount(m.rescans) \cup (IF e.total = None THEN {} ELSE {l + 1})
  BY <1>4 DEF WithCount
<1>7. \A i \in WithCount(m.rescans) : FirstCount(n.rescans, i) <=> FirstCount(m.rescans, i)
  BY <1>4, <1>6 DEF FirstCount
<1>8. FirstCount(n.rescans, l + 1) <=> WithCount(m.rescans) = {} /\ e.total # None
  BY <1>4, <1>6 DEF FirstCount
<1>9. IsBase(n.rescans, next)
  BY <1>4, <1>6, <1>7, <1>8 DEF IsBase, WithCount
<1>10. Alerted(n)
  <2> SUFFICES ASSUME NEW i \in WithCount(n.rescans), NEW j \in WithCount(n.rescans),
                      FirstCount(n.rescans, i), n.rescans[j].total > n.rescans[i].total
               PROVE  n.alert
    BY DEF Alerted
  <2>1. CASE i = l + 1
    <3>1. j = l + 1
      BY <1>6, <1>8, <2>1
    <3> QED BY <1>4, <1>5, <2>1, <3>1 DEF IsRescans, WithCount
  <2>2. CASE i # l + 1
    <3>1. i \in WithCount(m.rescans) /\ FirstCount(m.rescans, i) /\ n.rescans[i] = m.rescans[i]
      BY <1>4, <1>6, <1>7, <2>2
    <3>2. base = m.rescans[i].total /\ base # None
      BY <3>1 DEF IsBase, FirstCount, WithCount, RecordInv
    <3>3. CASE j = l + 1
      BY <1>4, <1>6, <3>1, <3>2, <3>3 DEF WithCount
    <3>4. CASE j # l + 1
      <4>1. j \in WithCount(m.rescans) /\ n.rescans[j] = m.rescans[j]
        BY <1>4, <1>6, <3>4
      <4> QED BY <3>1, <4>1 DEF RecordInv, Alerted
    <3> QED BY <3>3, <3>4
  <2> QED BY <2>1, <2>2
<1> QED BY <1>5, <1>9, <1>10 DEF RecordInv

LEMMA RescanInitInv == RescanInit => RescanInv
<1> SUFFICES ASSUME RescanInit PROVE RescanInv
  OBVIOUS
<1>1. RecordInv(Nothing)
  <2>1. Nothing.rescans \in Seq({}) /\ DOMAIN Nothing.rescans = {}
    BY DEF Nothing
  <2> QED BY <2>1 DEF RecordInv, IsRescans, Alerted, WithCount, Nothing
<1> QED BY <1>1 DEF RescanInit, RescanInv, NoScanner

\* An entry of the thread: kept with the run, and in the file unless the write fails.
LEMMA KeepKeeps ==
  ASSUME RescanInv, NEW m, RecordInv(m), Keep(m)
  PROVE  RecordInv(memory)' /\ RecordInv(sidecar)'
<1>1. memory' = m /\ (sidecar' = m \/ sidecar' = sidecar)
  BY DEF Keep
<1>2. RecordInv(memory')
  BY <1>1
<1>3. RecordInv(sidecar')
  BY <1>1 DEF RescanInv
<1> QED BY <1>2, <1>3 DEF RecordInv, IsRescans, Alerted, WithCount, FirstCount

LEMMA SkipKeeps ==
  ASSUME RescanInv, Skip
  PROVE  RescanInv'
<1> DEFINE e == Entry(None)
           m == [memory EXCEPT !.rescans = Append(@, e)]
<1>1. e.total = None /\ RecordInv(memory) /\ IsBase(memory.rescans, scanner.base)
  BY DEF Entry, RescanInv, Skip
<1> HIDE DEF e
<1>2. /\ m = [rescans |-> m.rescans, alert |-> m.alert] /\ m.alert = memory.alert
      /\ m.rescans = Append(memory.rescans, e)
  BY <1>1 DEF RecordInv
<1>3. RecordInv(m) /\ IsBase(m.rescans, scanner.base)
  <2>1. e.total \in Nat \cup {None} /\ ~(e.total # None)
    BY <1>1
  <2> HIDE DEF m
  <2>2. /\ RecordInv(m)
        /\ scanner.base = None => IsBase(m.rescans, e.total)
        /\ scanner.base # None => IsBase(m.rescans, scanner.base)
    BY <1>1, <1>2, <2>1, EntryKeeps
  <2> QED BY <1>1, <2>2
<1>4. Keep(m) /\ memory' = m
  BY DEF Skip, Keep, e
<1> HIDE DEF m
<1>5. RecordInv(memory)' /\ RecordInv(sidecar)'
  BY <1>3, <1>4, KeepKeeps
<1>6. scanner' = [todo |-> scanner'.todo, at |-> scanner'.at, base |-> scanner.base]
      /\ owned' \in Nat
  BY DEF Skip, Advance, RescanInv
<1>7. IsBase(memory'.rescans, scanner'.base)
  BY <1>3, <1>4, <1>6
<1> QED BY <1>5, <1>6, <1>7 DEF RescanInv, IsBase, WithCount, FirstCount

LEMMA ScanEndsKeeps ==
  ASSUME RescanInv, ScanEnds
  PROVE  RescanInv'
<1>1. RecordInv(memory) /\ IsBase(memory.rescans, scanner.base) /\ owned \in Nat
  BY DEF RescanInv, ScanEnds
<1>2. PICK total \in {owned, None} :
        /\ Keep([rescans |-> Append(memory.rescans, Entry(total)),
                 alert |-> memory.alert \/ (/\ total # None /\ scanner.base # None
                                            /\ total > scanner.base)])
        /\ Advance(IF scanner.base = None THEN total ELSE scanner.base)
  BY DEF ScanEnds
<1> DEFINE late == total # None /\ scanner.base # None /\ total > scanner.base
           e == Entry(total)
           m == [rescans |-> Append(memory.rescans, e), alert |-> memory.alert \/ late]
           next == IF scanner.base = None THEN total ELSE scanner.base
<1>3. e.total = total /\ total \in Nat \cup {None}
  BY <1>1, <1>2 DEF Entry
<1>4. Keep(m) /\ memory' = m /\ Advance(next)
  BY <1>2 DEF Keep
<1>5. /\ m = [rescans |-> m.rescans, alert |-> m.alert]
      /\ m.rescans = Append(memory.rescans, e)
      /\ memory.alert => m.alert
      /\ late => m.alert
  OBVIOUS
<1> HIDE DEF e, m
<1>6. RecordInv(m) /\ IsBase(m.rescans, next)
  <2>1. /\ RecordInv(m)
        /\ scanner.base = None => IsBase(m.rescans, e.total)
        /\ scanner.base # None => IsBase(m.rescans, scanner.base)
    BY <1>1, <1>3, <1>5, EntryKeeps
  <2> QED BY <1>3, <2>1
<1> HIDE DEF m, next
<1>7. RecordInv(memory)' /\ RecordInv(sidecar)'
  BY <1>4, <1>6, KeepKeeps
<1>8. scanner' = [todo |-> scanner'.todo, at |-> scanner'.at, base |-> next] /\ owned' \in Nat
  BY <1>1, <1>4 DEF ScanEnds, Advance
<1>9. IsBase(memory'.rescans, scanner'.base)
  BY <1>4, <1>6, <1>8
<1> QED BY <1>7, <1>8, <1>9 DEF RescanInv, IsBase, WithCount, FirstCount

\* A step that leaves the records alone.
LEMMA RescanElseKeeps ==
  ASSUME RescanInv, UNCHANGED <<memory, sidecar>>, owned' \in Nat,
         scanner' = [todo |-> scanner'.todo, at |-> scanner'.at, base |-> scanner'.base],
         \/ scanner'.at = "next" /\ scanner'.base = BaseTotal(memory.rescans)
         \/ scanner'.base = scanner.base /\ scanner.at = "next"
         \/ UNCHANGED scanner
  PROVE  RescanInv'
<1>1. RecordInv(memory)' /\ RecordInv(sidecar)'
  BY DEF RescanInv, RecordInv, IsRescans, Alerted, WithCount, FirstCount
<1>2. scanner'.at \in {"next", "scan"} => IsBase(memory.rescans, scanner'.base)
  BY BaseTotalIsBase DEF RescanInv, RecordInv
<1> QED BY <1>1, <1>2 DEF RescanInv, IsBase, WithCount, FirstCount

LEMMA ServerGoesKeeps ==
  ASSUME RescanInv, ConsoleDies \/ ConsoleStarts
  PROVE  RescanInv'
<1>1. CASE ConsoleDies
  <2>1. RecordInv(Nothing)
    <3>1. Nothing.rescans \in Seq({}) /\ DOMAIN Nothing.rescans = {}
      BY DEF Nothing
    <3> QED BY <3>1 DEF RecordInv, IsRescans, Alerted, WithCount, Nothing
  <2> QED BY <1>1, <2>1 DEF ConsoleDies, RescanInv, NoScanner, RecordInv, IsRescans, Alerted,
                        WithCount, FirstCount
<1>2. CASE ConsoleStarts
  <2>1. /\ memory' = sidecar /\ sidecar' = sidecar /\ owned' = owned
        /\ RecordInv(sidecar) /\ IsBase(sidecar.rescans, BaseTotal(sidecar.rescans))
    BY <1>2, BaseTotalIsBase DEF ConsoleStarts, RescanInv, RecordInv
  <2>2. \/ scanner' = [todo |-> <<>>, at |-> "none", base |-> None]
        \/ scanner' = [todo |-> Resumed, at |-> "next", base |-> BaseTotal(sidecar.rescans)]
    BY <1>2 DEF ConsoleStarts, NoScanner
  <2>3. RecordInv(memory)' /\ RecordInv(sidecar)'
    BY <2>1 DEF RecordInv, IsRescans, Alerted, WithCount, FirstCount
  <2>4. scanner'.at \in {"next", "scan"} => IsBase(sidecar.rescans, scanner'.base)
    BY <2>1, <2>2
  <2> QED BY <2>1, <2>2, <2>3, <2>4 DEF RescanInv, IsBase, WithCount, FirstCount
<1> QED BY <1>1, <1>2

LEMMA RescanStep == RescanInv /\ [RescanNext]_rescanVars => RescanInv'
<1> SUFFICES ASSUME RescanInv, [RescanNext]_rescanVars PROVE RescanInv'
  OBVIOUS
<1>1. CASE UNCHANGED rescanVars
  BY <1>1, RescanElseKeeps DEF rescanVars, RescanInv
<1>2. CASE Scheduled
  BY <1>2, RescanElseKeeps DEF Scheduled, Begins, RescanInv
<1>3. CASE ScanBegins
  BY <1>3, RescanElseKeeps DEF ScanBegins, RescanInv
<1>4. CASE TimeGoesOn \/ OthersComeAndGo \/ Appears
  BY <1>4, RescanElseKeeps DEF TimeGoesOn, OthersComeAndGo, Appears, RescanInv
<1> QED BY <1>1, <1>2, <1>3, <1>4, SkipKeeps, ScanEndsKeeps, ServerGoesKeeps DEF RescanNext

\* The alert of _post_run_rescans: the file never shows a count above the first one
\* without it, whatever deaths and failed writes lie between the counts.
THEOREM LateAlertsAreKept == RescanSpec => []LateAlertKept
<1>1. RescanInv => LateAlertKept
  BY DEF RescanInv, RecordInv, Alerted, LateAlertKept
<1>2. RescanSpec => []RescanInv
  BY RescanInitInv, RescanStep, PTL DEF RescanSpec
<1> QED BY <1>1, <1>2, PTL

-----------------------------------------------------------------------------
(* The platform *)

\* The records of the console and the rows of the runs table have their types in every
\* state; a run waits in the console's queue once, and no two rows have one id.
THEOREM PlatformTypesHold == ConsoleSpec /\ QueueSpec => []PlatformTypeOK
BY ConsoleTypesHold, QueueTypesHold, PTL DEF PlatformTypeOK
=============================================================================
