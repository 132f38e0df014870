------------------------- MODULE ControlPlane_proofs -------------------------
(***************************************************************************)
(* Proofs about RunQueue, CronScheduler and Authoring, for any number of   *)
(* requests, workers, runs of GitHub, schedules, windows, edits and files, *)
(* and any bound on faults, on mishaps and on the clock: the types of the  *)
(* runs table, that a run has one worker (ClaimedOnce), that a record      *)
(* keeps what it says (RecordsSettle), that a run that got through its     *)
(* stages was swept (SweptInTheEnd), that no window of a schedule is       *)
(* launched twice or caught up (WindowLaunchedOnce), and that an edit      *)
(* leaves nothing behind but what it was accepted for (EditsSound).        *)
(***************************************************************************)
EXTENDS
  RunQueue, CronScheduler, Authoring, FiniteSetTheorems, SequenceTheorems, WellFoundedInduction,
  TLAPS

-----------------------------------------------------------------------------
(* What the code picks as the oldest, the next or the first is there to pick. *)

\* A set of numbers that is not empty has a least one.
LEMMA LeastNumber ==
  ASSUME NEW S \in SUBSET Nat, S # {}
  PROVE  \E x \in S : \A y \in S : x <= y
<1> DEFINE Below == {0 .. n : n \in S}
           Less == StrictSubsetOrdering(Nat)
<1>1. IsWellFoundedOn(Less, FiniteSubsetsOf(Nat))
  BY FS_StrictSubsetOrderingWellFounded
<1>2. Below \subseteq FiniteSubsetsOf(Nat) /\ Below # {}
  <2>1. \A n \in S : 0 .. n \in FiniteSubsetsOf(Nat)
    BY FS_Interval DEF FiniteSubsetsOf
  <2> QED BY <2>1
<1> HIDE DEF Less
<1>3. \E x \in Below : \A y \in Below : <<y, x>> \notin Less
  <2> HIDE DEF Below
  <2> QED BY <1>1, <1>2, WFMin
<1>4. PICK n \in S : \A m \in S : <<0 .. m, 0 .. n>> \notin Less
  BY <1>3
<1>5. ASSUME NEW m \in S, ~ n <= m PROVE FALSE
  <2>1. 0 .. m \in SUBSET (0 .. n) /\ n \in 0 .. n /\ n \notin 0 .. m
    BY <1>5
  <2>2. <<0 .. m, 0 .. n>> \in Less
    BY <2>1 DEF Less, StrictSubsetOrdering
  <2> QED BY <2>2, <1>4
<1> QED BY <1>5

-----------------------------------------------------------------------------
(* The runs table *)

Gh == Requests \cup Outside
Bindings == {<<>>} \cup {<<g>> : g \in Gh} \cup {<<t, k>> : t \in Seconds, k \in Nat}

Rows == [gh : Bindings, status : {"dispatched", "running"} \cup Final,
         request : SUBSET Requests,
         ended : {"not", "early", "stages", "deserted"}, strewn : Fates]

QueueTypes ==
  /\ executor \in {"actions", "worker"}
  /\ asked \in [Requests -> {"new", "dispatched", "recorded"}]
  /\ github \in [Gh -> {"none", "queued", "running", "over"}]
  /\ runs \in Seq(Rows)
  /\ worker \in [Workers -> [at : WorkerPlaces, row : Nat, mutations : BOOLEAN,
                 destructive : BOOLEAN, bad : BOOLEAN]]
  /\ faults \in 0 .. MaxWorkerFaults
  /\ \A q \in Requests : asked[q] = "new" => github[q] = "none"

\* What a row says, by the kind of its id: none yet, a run of GitHub's (a sequence
\* of length 1) or one that a worker took (of length 2).
RowInv(i) ==
  LET row == runs[i]
  IN  /\ row.gh = <<>> => row.status = "dispatched" /\ row.ended = "not" /\ row.strewn # "unswept"
      /\ \A g \in Gh : row.gh = <<g>> =>
           /\ github[g] \in {"running", "over"}
           /\ github[g] = "running" => row.status = "running"
           /\ executor = "worker" => row.request = {}
      /\ \A t \in Seconds, k \in Nat \ {0} : row.gh = <<t, k>> => k = i
      /\ row.ended = "stages" => row.strewn # "unswept"

IdsInv ==
  \A i, j \in DOMAIN runs : runs[i].gh # <<>> /\ runs[i].gh = runs[j].gh => i = j

Active(w) == worker[w].at \notin {"poll", "seen", "dead"}

\* A worker in its stages has a row of its own, which it took; nothing is left behind
\* by it until the first lane and after the sweep.
OwnRow(w) ==
  /\ Mine(w) \in DOMAIN runs
  /\ \E t \in Seconds, k \in Nat : runs[Mine(w)].gh = <<t, k>>
  /\ runs[Mine(w)].status = "running" /\ runs[Mine(w)].ended = "not"
  /\ worker[w].at \in {"resolve", "validate", "smoke", "adopt", "dashboard"} =>
       runs[Mine(w)].strewn # "unswept"

WorkerInv ==
  /\ executor = "actions" => \A w \in Workers : worker[w].at = "poll"
  /\ \A w \in Workers :
       /\ worker[w].row \in 0 .. Len(runs)
       /\ worker[w].at = "seen" => worker[w].row # 0
       /\ Active(w) => OwnRow(w)
  /\ \A v, w \in Workers : Active(v) /\ Active(w) /\ Mine(v) = Mine(w) => v = w

QueueInv == QueueTypes /\ (\A i \in DOMAIN runs : RowInv(i)) /\ IdsInv /\ WorkerInv

LEMMA QueueInitInv == QueueInit => QueueInv
<1> SUFFICES ASSUME QueueInit PROVE QueueInv
  OBVIOUS
<1>1. runs \in Seq(Rows) /\ DOMAIN runs = {} /\ Len(runs) = 0
  BY EmptySeq DEF QueueInit
<1>2. QueueTypes
  BY <1>1, RunQueueAssumption DEF QueueInit, QueueTypes, Idle, WorkerPlaces, Gh
<1>3. WorkerInv
  BY <1>1 DEF QueueInit, WorkerInv, Active, Idle
<1> QED
  BY <1>1, <1>2, <1>3 DEF QueueInv, IdsInv

\* The oldest of the rows that wait is one of them.
LEMMA OldestWaits ==
  ASSUME QueueTypes, Waiting # {}
  PROVE  Oldest(Waiting) \in Waiting
<1>1. Waiting \in SUBSET Nat
  BY LenProperties DEF Waiting, QueueTypes
<1>2. \E i \in Waiting : \A j \in Waiting : i <= j
  BY <1>1, LeastNumber
<1> QED
  BY <1>2 DEF Oldest

LEMMA RunsDomain ==
  ASSUME QueueTypes
  PROVE  /\ Len(runs) \in Nat /\ DOMAIN runs = 1 .. Len(runs)
         /\ \A i \in DOMAIN runs : runs[i] \in Rows
BY LenProperties, ElementOfSeq DEF QueueTypes

LEMMA KindsDiffer ==
  /\ \A g \in Gh : <<g>> # <<>>
  /\ \A t \in Seconds, k \in Nat : <<t, k>> # <<>>
  /\ \A g \in Gh, t \in Seconds, k \in Nat : <<g>> # <<t, k>>
  /\ \A g, h \in Gh : <<g>> = <<h>> => g = h
  /\ \A s, t \in Seconds, k, l \in Nat : <<s, k>> = <<t, l>> => s = t /\ k = l
OBVIOUS

\* What a step may do to the rows: an id and a final status stay.
RowsKept ==
  \A i \in DOMAIN runs :
    /\ runs[i].gh # <<>> => runs'[i].gh = runs[i].gh
    /\ runs[i].status \in Final => runs'[i].status = runs[i].status

WorkerStates == [at : WorkerPlaces, row : Nat, mutations : BOOLEAN,
                 destructive : BOOLEAN, bad : BOOLEAN]

\* A worker in its stages writes its row and goes on in them, or leaves them.
LEMMA WorkerWrites ==
  ASSUME QueueInv, NEW w \in Workers, Active(w),
         NEW R \in Rows, NEW V \in WorkerStates,
         R.gh = runs[Mine(w)].gh, R.request = runs[Mine(w)].request,
         runs' = [runs EXCEPT ![Mine(w)] = R],
         worker' = [worker EXCEPT ![w] = V],
         UNCHANGED <<executor, asked, github>>,
         faults' \in 0 .. MaxWorkerFaults,
         \/ /\ V.at \in {"poll", "dead"} /\ V.row = 0
            /\ R.ended = "stages" => R.strewn # "unswept"
         \/ /\ V.at \notin {"poll", "seen", "dead"} /\ V.row = Mine(w)
            /\ R.status = "running" /\ R.ended = "not"
            /\ V.at \in {"resolve", "validate", "smoke", "adopt", "dashboard"} => R.strewn # "unswept"
  PROVE  QueueInv' /\ RowsKept
<1> DEFINE r == Mine(w)
<1>1. /\ Len(runs) \in Nat /\ DOMAIN runs = 1 .. Len(runs)
      /\ r \in 1 .. Len(runs) /\ runs[r] \in Rows
      /\ runs[r].status = "running" /\ executor = "worker"
  BY RunsDomain DEF QueueInv, WorkerInv, OwnRow, Active, QueueTypes
<1>2. PICK t \in Seconds, k \in Nat : runs[r].gh = <<t, k>>
  BY DEF QueueInv, WorkerInv, OwnRow
<1>3. /\ runs' \in Seq(Rows) /\ Len(runs') = Len(runs) /\ DOMAIN runs' = DOMAIN runs
      /\ runs'[r] = R /\ \A i \in DOMAIN runs \ {r} : runs'[i] = runs[i]
  <2>1. runs \in Seq(Rows)
    BY DEF QueueInv, QueueTypes
  <2> QED BY <1>1, <2>1, ExceptSeq, LenProperties
<1>4. /\ worker'[w] = V /\ \A v \in Workers \ {w} : worker'[v] = worker[v]
  BY DEF QueueInv, QueueTypes
<1>5. QueueTypes'
  BY <1>3 DEF QueueInv, QueueTypes, WorkerStates
<1>6. ASSUME NEW i \in DOMAIN runs PROVE RowInv(i)'
  <2>1. RowInv(i)
    BY DEF QueueInv
  <2>2. CASE i = r
    <3>1. runs'[i] = R /\ R.gh = <<t, k>> /\ R.gh = runs[i].gh
      BY <2>2, <1>2, <1>3
    <3>2. R.gh # <<>> /\ \A g \in Gh : R.gh # <<g>>
      BY <3>1, KindsDiffer
    <3>3. R.ended = "stages" => R.strewn # "unswept"
      OBVIOUS
    <3> QED BY <2>1, <3>1, <3>2, <3>3 DEF RowInv
  <2>3. CASE i # r
    BY <2>1, <2>3, <1>3 DEF RowInv
  <2> QED
    BY <2>2, <2>3
<1>7. IdsInv'
  BY <1>1, <1>3 DEF QueueInv, IdsInv
<1>8. WorkerInv'
  <2>1. ASSUME NEW v \in Workers \ {w}, Active(v) PROVE Mine(v) # r /\ Mine(v) \in DOMAIN runs
    BY <2>1 DEF QueueInv, WorkerInv, OwnRow
  <2>2. ASSUME NEW v \in Workers \ {w}, Active(v)' PROVE OwnRow(v)'
    <3>1. Active(v)
      BY <2>2, <1>4 DEF Active
    <3>2. OwnRow(v) /\ runs'[Mine(v)] = runs[Mine(v)]
      BY <2>1, <3>1, <1>3 DEF QueueInv, WorkerInv
    <3> QED BY <3>2, <1>3, <1>4 DEF OwnRow, Mine
  <2>3. Active(w)' => OwnRow(w)'
    BY <1>1, <1>2, <1>3, <1>4 DEF Active, OwnRow, Mine
  <2>4. \A v \in Workers : worker'[v].row \in 0 .. Len(runs') /\ (worker'[v].at = "seen" => worker'[v].row # 0)
    BY <1>1, <1>3, <1>4 DEF QueueInv, WorkerInv, Mine
  <2>5. \A u, v \in Workers : Active(u)' /\ Active(v)' /\ Mine(u)' = Mine(v)' => u = v
    BY <2>1, <1>4 DEF QueueInv, WorkerInv, Active, Mine
  <2> QED
    BY <1>1, <2>2, <2>3, <2>4, <2>5 DEF WorkerInv
<1>9. RowsKept
  BY <1>1, <1>3 DEF RowsKept, Final
<1> QED
  BY <1>3, <1>5, <1>6, <1>7, <1>8, <1>9 DEF QueueInv

LEMMA OwnTypes ==
  ASSUME QueueInv, NEW w \in Workers, Active(w)
  PROVE  /\ Mine(w) \in DOMAIN runs /\ runs[Mine(w)] \in Rows
         /\ worker[w] \in WorkerStates /\ OwnRow(w)
BY RunsDomain DEF QueueInv, QueueTypes, WorkerInv, WorkerStates, OwnRow

\* A stage ends with what its milestone says, or raises.
LEMMA StageKeeps ==
  ASSUME QueueInv, NEW w \in Workers, Active(w),
         NEW R \in Rows, NEW V \in WorkerStates, Stage(w, R, V),
         R.gh = runs[Mine(w)].gh, R.request = runs[Mine(w)].request,
         \/ V = Idle /\ (R.ended = "stages" => R.strewn # "unswept")
         \/ /\ V.at \notin {"poll", "seen", "dead"} /\ V.row = Mine(w)
            /\ R.status = "running" /\ R.ended = "not"
            /\ V.at \in {"resolve", "validate", "smoke", "adopt", "dashboard"} => R.strewn # "unswept"
  PROVE  QueueInv' /\ RowsKept
<1> DEFINE R2 == [runs[Mine(w)] EXCEPT !.strewn = R.strewn]
           V2 == WorkerAt(w, "raised")
<1>1. CASE /\ runs' = [runs EXCEPT ![Mine(w)] = R]
           /\ worker' = [worker EXCEPT ![w] = V]
           /\ UNCHANGED <<executor, asked, github, faults>>
  <2>1. faults' \in 0 .. MaxWorkerFaults
    BY <1>1 DEF QueueInv, QueueTypes
  <2> QED BY <1>1, <2>1, WorkerWrites DEF Idle
<1>2. CASE /\ faults < MaxWorkerFaults /\ faults' = faults + 1
           /\ runs' = [runs EXCEPT ![Mine(w)] = R2]
           /\ worker' = [worker EXCEPT ![w] = V2]
           /\ UNCHANGED <<executor, asked, github>>
  <2>1. faults' \in 0 .. MaxWorkerFaults
    BY <1>2, RunQueueAssumption DEF QueueInv, QueueTypes
  <2>2. /\ R2 \in Rows /\ R2.gh = runs[Mine(w)].gh /\ R2.request = runs[Mine(w)].request
        /\ R2.status = "running" /\ R2.ended = "not"
    BY OwnTypes DEF Rows, OwnRow
  <2>3. V2 \in WorkerStates /\ V2.at = "raised" /\ V2.row = Mine(w)
    BY OwnTypes DEF WorkerStates, WorkerAt, WorkerPlaces, Mine
  <2> HIDE DEF R2, V2
  <2> QED BY <1>2, <2>1, <2>2, <2>3, WorkerWrites
<1> QED
  BY <1>1, <1>2 DEF Stage, WorkerAt

\* A stage after which the run goes on at the place of V.
LEMMA StageGoesOn ==
  ASSUME QueueInv, NEW w \in Workers, Active(w),
         NEW strewn \in Fates, NEW V \in WorkerStates,
         Stage(w, [runs[Mine(w)] EXCEPT !.strewn = strewn], V),
         V.row = Mine(w), V.at \notin {"poll", "seen", "dead"},
         V.at \in {"resolve", "validate", "smoke", "adopt", "dashboard"} => strewn # "unswept"
  PROVE  QueueInv' /\ RowsKept
<1> DEFINE R == [runs[Mine(w)] EXCEPT !.strewn = strewn]
<1>1. /\ R \in Rows /\ R.gh = runs[Mine(w)].gh /\ R.request = runs[Mine(w)].request
      /\ R.status = "running" /\ R.ended = "not" /\ R.strewn = strewn
  BY OwnTypes DEF Rows, OwnRow
<1>2. Stage(w, R, V)
  OBVIOUS
<1> HIDE DEF R
<1> QED BY <1>1, <1>2, StageKeeps

\* The last stage of a run, whatever it says of it.
LEMMA StageEnds ==
  ASSUME QueueInv, NEW w \in Workers, Active(w),
         NEW status \in Final, NEW ended \in {"early", "stages"},
         Stage(w, [runs[Mine(w)] EXCEPT !.status = status, !.ended = ended], Idle),
         ended = "stages" => runs[Mine(w)].strewn # "unswept"
  PROVE  QueueInv' /\ RowsKept
<1> DEFINE R == [runs[Mine(w)] EXCEPT !.status = status, !.ended = ended]
<1>1. /\ R \in Rows /\ R.gh = runs[Mine(w)].gh /\ R.request = runs[Mine(w)].request
      /\ R.ended = "stages" => R.strewn # "unswept"
  BY OwnTypes DEF Rows
<1>2. Stage(w, R, Idle) /\ Idle \in WorkerStates
  BY DEF Idle, WorkerStates, WorkerPlaces
<1> HIDE DEF R
<1> QED BY <1>1, <1>2, StageKeeps

\* Each stage of process_run, and the ends of it.
LEMMA StagesKeep ==
  ASSUME QueueInv, NEW w \in Workers,
         \/ Resolve(w) \/ Validate(w) \/ Smoke(w) \/ Adopt(w) \/ NoLanes(w)
         \/ VpcCrud(w) \/ Sweep(w) \/ Dashboard(w) \/ Raised(w) \/ Crash(w)
  PROVE  QueueInv' /\ RowsKept
<1>1. Active(w)
  BY DEF Active, Resolve, Validate, Smoke, Adopt, NoLanes, VpcCrud, Sweep, Dashboard, Raised, Crash
<1> DEFINE row == runs[Mine(w)]
<1>2. /\ Mine(w) \in DOMAIN runs /\ row \in Rows /\ worker[w] \in WorkerStates
      /\ worker[w].mutations \in BOOLEAN /\ worker[w].destructive \in BOOLEAN
      /\ worker[w].bad \in BOOLEAN
      /\ row.status = "running" /\ row.ended = "not" /\ worker[w].row = Mine(w)
      /\ worker[w].at \in {"resolve", "validate", "smoke", "adopt", "dashboard"} => row.strewn # "unswept"
  BY <1>1, OwnTypes DEF OwnRow, Mine, WorkerStates
<1>3. row.strewn \in Fates /\ row = [row EXCEPT !.strewn = row.strewn]
  BY <1>2 DEF Rows
<1>4. CASE Resolve(w)
  <2>1. ASSUME NEW q \in row.request, NEW g \in Gates[q],
               Stage(w, row, [WorkerAt(w, "validate") EXCEPT !.mutations = g.mutations,
                                                             !.destructive = g.destructive])
        PROVE  QueueInv' /\ RowsKept
    <3> DEFINE V == [WorkerAt(w, "validate") EXCEPT !.mutations = g.mutations,
                                                    !.destructive = g.destructive]
    <3>0. g.mutations \in BOOLEAN /\ g.destructive \in BOOLEAN
      BY <1>2, RunQueueAssumption DEF Rows
    <3>1. V \in WorkerStates /\ V.row = Mine(w) /\ V.at = "validate"
      BY <3>0, <1>2 DEF WorkerAt, WorkerStates, WorkerPlaces
    <3>2. Stage(w, row, V) /\ row.strewn # "unswept"
      BY <2>1, <1>2, <1>4 DEF Resolve
    <3> HIDE DEF V
    <3> QED BY <3>1, <3>2, <1>1, <1>3, StageGoesOn
  <2>2. CASE Stage(w, [row EXCEPT !.status = "failed", !.ended = "early"], Idle)
    BY <2>2, <1>1, StageEnds DEF Final
  <2> QED BY <1>4, <2>1, <2>2 DEF Resolve
<1>5. CASE Validate(w)
  <2>1. ASSUME NEW V, V \in {WorkerAt(w, "smoke"),
                 [WorkerAt(w, AfterLanes(w)) EXCEPT !.bad = TRUE]},
               Stage(w, row, V)
        PROVE  QueueInv' /\ RowsKept
    <3>1. /\ V \in WorkerStates /\ V.row = Mine(w)
          /\ V.at \in {"smoke", "sweep", "dashboard"}
      BY <2>1, <1>2 DEF WorkerAt, AfterLanes, WorkerStates, WorkerPlaces
    <3>2. row.strewn # "unswept"
      BY <1>2, <1>5 DEF Validate
    <3> QED BY <2>1, <3>1, <3>2, <1>1, <1>3, StageGoesOn
  <2> QED BY <1>5, <2>1 DEF Validate
<1>6. CASE Smoke(w)
  <2>1. PICK rc \in BOOLEAN :
          Stage(w, row, [WorkerAt(w, IF worker[w].mutations THEN "adopt" ELSE AfterLanes(w))
                           EXCEPT !.bad = rc])
    BY <1>6 DEF Smoke
  <2> DEFINE V == [WorkerAt(w, IF worker[w].mutations THEN "adopt" ELSE AfterLanes(w))
                     EXCEPT !.bad = rc]
  <2>2. V \in WorkerStates /\ V.row = Mine(w) /\ V.at \in {"adopt", "sweep", "dashboard"}
    BY <1>2 DEF WorkerAt, AfterLanes, WorkerStates, WorkerPlaces
  <2>3. Stage(w, row, V) /\ row.strewn # "unswept"
    BY <2>1, <1>2, <1>6 DEF Smoke
  <2> HIDE DEF V
  <2> QED BY <2>2, <2>3, <1>1, <1>3, StageGoesOn
<1>7. CASE Adopt(w) \/ VpcCrud(w)
  <2>1. PICK rc \in BOOLEAN, place \in {"vpc-crud", "sweep"} :
          Stage(w, [row EXCEPT !.strewn = "unswept"], [WorkerAt(w, place) EXCEPT !.bad = @ \/ rc])
    BY <1>7 DEF Adopt, VpcCrud
  <2> DEFINE V == [WorkerAt(w, place) EXCEPT !.bad = @ \/ rc]
  <2>2. V \in WorkerStates /\ V.row = Mine(w) /\ V.at = place
    BY <1>2 DEF WorkerAt, WorkerStates, WorkerPlaces
  <2>3. Stage(w, [row EXCEPT !.strewn = "unswept"], V) /\ "unswept" \in Fates
    BY <2>1 DEF Fates
  <2> HIDE DEF V
  <2> QED BY <2>2, <2>3, <1>1, StageGoesOn
<1>9. CASE Sweep(w)
  <2>1. /\ WorkerAt(w, "dashboard") \in WorkerStates
        /\ WorkerAt(w, "dashboard").row = Mine(w) /\ WorkerAt(w, "dashboard").at = "dashboard"
    BY <1>2 DEF WorkerAt, WorkerStates, WorkerPlaces
  <2>2. PICK fate \in Swept(w) :
          Stage(w, [row EXCEPT !.strewn = fate], WorkerAt(w, "dashboard"))
    BY <1>9 DEF Sweep
  <2>3. fate \in Fates /\ fate # "unswept"
    BY <2>2, <1>2 DEF Swept, Fates
  <2> QED BY <2>1, <2>2, <2>3, <1>1, StageGoesOn
<1>10. CASE Dashboard(w)
  <2>1. PICK status \in Final :
          Stage(w, [row EXCEPT !.status = status, !.ended = "stages"], Idle)
    BY <1>10 DEF Dashboard, Final
  <2> QED BY <2>1, <1>1, <1>2, <1>10, StageEnds DEF Dashboard
<1>11. CASE NoLanes(w)
  <2> DEFINE V == [WorkerAt(w, "sweep") EXCEPT !.bad = TRUE]
  <2>1. V \in WorkerStates /\ V.at = "sweep" /\ V.row = Mine(w)
    BY <1>2 DEF WorkerAt, WorkerStates, WorkerPlaces
  <2>2. runs' = [runs EXCEPT ![Mine(w)] = row]
    <3>1. runs = [i \in 1 .. Len(runs) |-> runs[i]]
      BY LenProperties DEF QueueInv, QueueTypes
    <3> QED BY <3>1, <1>2, <1>11 DEF NoLanes
  <2>3. /\ worker' = [worker EXCEPT ![w] = V]
        /\ UNCHANGED <<executor, asked, github>> /\ faults' \in 0 .. MaxWorkerFaults
    BY <1>11 DEF NoLanes, QueueInv, QueueTypes
  <2> HIDE DEF V
  <2> QED BY <2>1, <2>2, <2>3, <1>1, <1>2, WorkerWrites
<1>12. CASE Raised(w) \/ Crash(w)
  <2>1. ASSUME NEW R \in Rows, NEW place \in {"poll", "dead"},
               R.gh = row.gh, R.request = row.request, R.ended \in {"early", "deserted"},
               runs' = [runs EXCEPT ![Mine(w)] = R],
               worker' = [worker EXCEPT ![w] = [Idle EXCEPT !.at = place]],
               UNCHANGED <<executor, asked, github>>,
               faults' = faults \/ (faults < MaxWorkerFaults /\ faults' = faults + 1)
        PROVE  QueueInv' /\ RowsKept
    <3> DEFINE V == [Idle EXCEPT !.at = place]
    <3>1. /\ V \in WorkerStates /\ V.at = place /\ V.row = 0
          /\ worker' = [worker EXCEPT ![w] = V]
      BY <2>1 DEF Idle, WorkerStates, WorkerPlaces
    <3>2. faults' \in 0 .. MaxWorkerFaults
      BY <2>1, RunQueueAssumption DEF QueueInv, QueueTypes
    <3> HIDE DEF V
    <3> QED BY <2>1, <3>1, <3>2, <1>1, WorkerWrites
  <2> DEFINE Failed == [row EXCEPT !.status = "failed", !.ended = "early"]
             Deserted == [row EXCEPT !.ended = "deserted"]
  <2>2. /\ Failed \in Rows /\ Failed.gh = row.gh /\ Failed.request = row.request
        /\ Failed.ended = "early"
        /\ Deserted \in Rows /\ Deserted.gh = row.gh /\ Deserted.request = row.request
        /\ Deserted.ended = "deserted"
    BY <1>2 DEF Rows, Final
  <2>3. Idle = [Idle EXCEPT !.at = "poll"]
    BY DEF Idle
  <2>4. CASE runs' = [runs EXCEPT ![Mine(w)] = Failed] /\ Raised(w)
    <3> HIDE DEF Failed, Deserted
    <3> QED BY <2>1, <2>2, <2>3, <2>4 DEF Raised, Desert
  <2>5. CASE runs' = [runs EXCEPT ![Mine(w)] = Deserted]
    <3>1. \E place \in {"poll", "dead"} : worker' = [worker EXCEPT ![w] = [Idle EXCEPT !.at = place]]
      BY <1>12, <2>3 DEF Raised, Crash
    <3>2. /\ UNCHANGED <<executor, asked, github>>
          /\ faults' = faults \/ (faults < MaxWorkerFaults /\ faults' = faults + 1)
      BY <1>12 DEF Raised, Crash
    <3> HIDE DEF Failed, Deserted
    <3> QED BY <2>1, <2>2, <2>5, <3>1, <3>2
  <2> QED BY <1>12, <2>4, <2>5 DEF Raised, Crash, Desert
<1> QED
  BY <1>4, <1>5, <1>6, <1>7, <1>9, <1>10, <1>11, <1>12

-----------------------------------------------------------------------------
(* The control plane and GitHub *)

\* A row more, for a request or for a run of GitHub that is new to the table.
LEMMA RowAdded ==
  ASSUME QueueInv, NEW R \in Rows, runs' = Append(runs, R)
  PROVE  /\ runs' \in Seq(Rows) /\ Len(runs') = Len(runs) + 1
         /\ DOMAIN runs' = 1 .. Len(runs) + 1
         /\ \A i \in DOMAIN runs : i \in DOMAIN runs' /\ runs'[i] = runs[i]
         /\ runs'[Len(runs) + 1] = R
<1>1. runs \in Seq(Rows)
  BY DEF QueueInv, QueueTypes
<1> QED
  BY <1>1, RunsDomain, AppendProperties, LenProperties DEF QueueInv

\* A worker keeps what it has as long as its row and its own state stay.
LEMMA WorkersKept ==
  ASSUME QueueInv, UNCHANGED <<executor, worker>>,
         Len(runs') \in Nat, Len(runs') >= Len(runs), DOMAIN runs' = 1 .. Len(runs'),
         \A w \in Workers : Active(w) => runs'[Mine(w)] = runs[Mine(w)]
  PROVE  WorkerInv'
<1>1. Len(runs) \in Nat /\ DOMAIN runs = 1 .. Len(runs) /\ DOMAIN runs \subseteq DOMAIN runs'
  BY RunsDomain DEF QueueInv
<1>2. ASSUME NEW w \in Workers, Active(w)' PROVE OwnRow(w)'
  <2>1. Active(w) /\ OwnRow(w)
    BY <1>2 DEF Active, QueueInv, WorkerInv
  <2>2. runs'[Mine(w)] = runs[Mine(w)] /\ Mine(w)' = Mine(w)
    BY <2>1 DEF Mine
  <2> QED BY <2>1, <2>2, <1>1 DEF OwnRow
<1> QED
  BY <1>1, <1>2 DEF QueueInv, WorkerInv, Active, Mine

LEMMA CreateRunKeeps ==
  ASSUME QueueInv, NEW q \in Requests, CreateRun(q)
  PROVE  QueueInv' /\ RowsKept
<1> DEFINE R == Row(<<>>, "dispatched", {q})
<1>1. R \in Rows /\ runs' = Append(runs, R)
  BY DEF CreateRun, Row, Rows, Fates, Bindings
<1>2. R.gh = <<>> /\ R.status = "dispatched" /\ R.ended = "not" /\ R.strewn # "unswept"
  BY DEF Row
<1> HIDE DEF R
<1>3. /\ runs' \in Seq(Rows) /\ Len(runs') = Len(runs) + 1
      /\ DOMAIN runs' = 1 .. Len(runs) + 1
      /\ \A i \in DOMAIN runs : i \in DOMAIN runs' /\ runs'[i] = runs[i]
      /\ runs'[Len(runs) + 1] = R
  BY <1>1, RowAdded
<1>4. Len(runs) \in Nat /\ DOMAIN runs = 1 .. Len(runs)
  BY RunsDomain DEF QueueInv
<1>5. /\ UNCHANGED <<executor, github, worker, faults>>
      /\ asked' \in [Requests -> {"new", "dispatched", "recorded"}]
      /\ \A p \in Requests : asked'[p] = "new" => github[p] = "none"
  BY DEF CreateRun, QueueInv, QueueTypes
<1>6. QueueTypes'
  BY <1>3, <1>5 DEF QueueInv, QueueTypes
<1>7. ASSUME NEW i \in DOMAIN runs' PROVE RowInv(i)'
  <2>1. CASE i \in DOMAIN runs
    BY <2>1, <1>3, <1>5 DEF QueueInv, RowInv
  <2>2. CASE i = Len(runs) + 1
    BY <2>2, <1>2, <1>3, KindsDiffer DEF RowInv
  <2> QED BY <2>1, <2>2, <1>3, <1>4
<1>8. IdsInv'
  BY <1>2, <1>3, <1>4 DEF QueueInv, IdsInv
<1>9. WorkerInv'
  <2>1. \A w \in Workers : Active(w) => runs'[Mine(w)] = runs[Mine(w)]
    BY <1>3 DEF QueueInv, WorkerInv, OwnRow
  <2> QED BY <2>1, <1>3, <1>4, <1>5, WorkersKept
<1>10. RowsKept
  BY <1>3 DEF RowsKept
<1> QED
  BY <1>6, <1>7, <1>8, <1>9, <1>10 DEF QueueInv

\* The row r of T is g's; it was before, or waited, or was not there.
TakenFor(g, T, r) ==
  /\ T \in Seq(Rows) /\ DOMAIN T = 1 .. Len(T) /\ Len(T) \in Nat /\ Len(T) >= Len(runs)
  /\ T[r].gh = <<g>> /\ (T[r].ended = "stages" => T[r].strewn # "unswept")
  /\ \A i \in DOMAIN T : i \in DOMAIN runs \/ i = r
  /\ \A i \in DOMAIN T \ {r} : T[i] = runs[i] /\ T[i].gh # <<g>>
  /\ r \in DOMAIN runs =>
       (runs[r].gh = <<g>> \/ (runs[r].gh = <<>> /\ executor = "actions"))
  /\ executor = "worker" => T[r].request = {}

\* Ingest: the row of a run of GitHub, taken from those that wait, new, or there
\* already, says what the event says, and no other row is changed.
LEMMA IngestKeeps ==
  ASSUME QueueInv, NEW g \in Gh, NEW status \in {"running"} \cup Final, Ingest(g, status),
         github[g] \in {"queued", "running"},
         github' = [github EXCEPT ![g] = IF status = "running" THEN "running" ELSE "over"],
         github[g] = "queued" <=> status = "running",
         UNCHANGED <<executor, asked, worker, faults>>
  PROVE  QueueInv' /\ RowsKept
<1> DEFINE T == Attached(g)
<1>1. Len(runs) \in Nat /\ DOMAIN runs = 1 .. Len(runs) /\ runs \in Seq(Rows)
  BY RunsDomain DEF QueueInv, QueueTypes
<1>2. \A i \in DOMAIN runs : runs[i].gh = <<g>> => runs[i].status = "running" /\ status # "running"
  BY DEF QueueInv, RowInv
<1>3. \E r \in DOMAIN T : TakenFor(g, T, r)
  <2>1. CASE BoundTo(<<g>>) # {}
    <3>1. T = runs
      BY <2>1 DEF Attached
    <3>2. PICK r \in DOMAIN runs : runs[r].gh = <<g>>
      BY <2>1 DEF BoundTo
    <3>3. \A i \in DOMAIN runs \ {r} : runs[i].gh # <<g>>
      BY <3>2, KindsDiffer DEF QueueInv, IdsInv
    <3>4. (runs[r].ended = "stages" => runs[r].strewn # "unswept") /\ (executor = "worker" => runs[r].request = {})
      BY <3>2 DEF QueueInv, RowInv
    <3> QED
      <4>1. TakenFor(g, runs, r)
        BY <1>1, <3>2, <3>3, <3>4 DEF TakenFor
      <4> HIDE DEF T
      <4> QED BY <3>1, <3>2, <4>1
  <2>2. CASE BoundTo(<<g>>) = {} /\ Waiting # {} /\ executor = "actions"
    <3> DEFINE o == Oldest(Waiting)
    <3>1. T = [runs EXCEPT ![o].gh = <<g>>]
      BY <2>2 DEF Attached
    <3>2. o \in DOMAIN runs /\ runs[o].gh = <<>> /\ runs[o].status = "dispatched"
      BY <2>2, OldestWaits DEF Waiting, QueueInv
    <3>3. \A i \in DOMAIN runs : runs[i].gh # <<g>>
      BY <2>2 DEF BoundTo
    <3> DEFINE R == [runs[o] EXCEPT !.gh = <<g>>]
    <3>4. runs[o] \in Rows /\ runs[o].strewn # "unswept"
      BY <1>1, <3>2, RunsDomain DEF QueueInv, RowInv
    <3>5. R \in Rows /\ R.gh = <<g>> /\ R.strewn # "unswept"
      BY <3>4 DEF Rows, Bindings
    <3> HIDE DEF R, o
    <3>6. T = [runs EXCEPT ![o] = R]
      BY <3>1 DEF R
    <3>7. /\ T \in Seq(Rows) /\ Len(T) = Len(runs) /\ DOMAIN T = DOMAIN runs
          /\ T[o] = R /\ \A i \in DOMAIN runs \ {o} : T[i] = runs[i]
      BY <1>1, <3>2, <3>5, <3>6, ExceptSeq, LenProperties
    <3> QED
      <4> HIDE DEF T
      <4>1. TakenFor(g, T, o)
        BY <2>2, <1>1, <3>2, <3>3, <3>5, <3>7 DEF TakenFor
      <4> QED BY <4>1, <3>2, <3>7
  <2>3. CASE BoundTo(<<g>>) = {} /\ ~(Waiting # {} /\ executor = "actions")
    <3> DEFINE R == Row(<<g>>, "running", {})
    <3>1. T = Append(runs, R)
      BY <2>3 DEF Attached
    <3>2. R \in Rows /\ R.gh = <<g>> /\ R.request = {} /\ R.ended = "not"
      BY DEF Row, Rows, Fates, Bindings
    <3> HIDE DEF R
    <3>3. \A i \in DOMAIN runs : runs[i].gh # <<g>>
      BY <2>3 DEF BoundTo
    <3>4. /\ T \in Seq(Rows) /\ Len(T) = Len(runs) + 1 /\ DOMAIN T = 1 .. Len(T)
          /\ \A i \in DOMAIN runs : T[i] = runs[i]
          /\ T[Len(runs) + 1] = R
      <4> HIDE DEF T
      <4> QED BY <1>1, <3>1, <3>2, AppendProperties, LenProperties
    <3>5. Len(runs) + 1 \in DOMAIN T /\ Len(runs) + 1 \notin DOMAIN runs
          /\ \A i \in DOMAIN T : i \in DOMAIN runs \/ i = Len(runs) + 1
      BY <1>1, <3>4
    <3> HIDE DEF T
    <3>6. TakenFor(g, T, Len(runs) + 1)
      BY <1>1, <3>2, <3>3, <3>4, <3>5 DEF TakenFor
    <3> QED BY <3>5, <3>6
  <2> QED BY <2>1, <2>2, <2>3
<1>4. PICK r \in DOMAIN T : TakenFor(g, T, r)
  BY <1>3
<1> DEFINE R == [T[r] EXCEPT !.status = status]
<1>5. runs' = [i \in DOMAIN T |-> IF T[i].gh = <<g>> THEN [T[i] EXCEPT !.status = status] ELSE T[i]]
  BY DEF Ingest
<1> HIDE DEF T
<1>6. T[r] \in Rows
  BY <1>4, ElementOfSeq DEF TakenFor
<1>7. /\ R \in Rows /\ R.gh = <<g>> /\ R.status = status
      /\ R.ended = "stages" => R.strewn # "unswept"
      /\ executor = "worker" => R.request = {}
  BY <1>4, <1>6 DEF Rows, TakenFor
<1>8. runs'[r] = R /\ DOMAIN runs' = DOMAIN T /\ \A i \in DOMAIN T \ {r} : runs'[i] = runs[i]
  BY <1>4, <1>5 DEF TakenFor
<1>9. runs' \in Seq(Rows) /\ Len(runs') = Len(T)
  <2>1. \A i \in 1 .. Len(T) : runs'[i] \in Rows
    BY <1>4, <1>7, <1>8, ElementOfSeq DEF TakenFor
  <2>2. runs' = [i \in 1 .. Len(T) |-> runs'[i]]
    BY <1>4, <1>5 DEF TakenFor
  <2> QED BY <1>4, <2>1, <2>2 DEF TakenFor
<1> HIDE DEF R
<1>10. \A h \in Gh \ {g} : github'[h] = github[h]
  BY DEF QueueInv, QueueTypes
<1>11. github'[g] = IF status = "running" THEN "running" ELSE "over"
  BY DEF QueueInv, QueueTypes
<1>12. QueueTypes'
  BY <1>9 DEF QueueInv, QueueTypes
<1>13. ASSUME NEW i \in DOMAIN runs' PROVE RowInv(i)'
  <2>1. CASE i = r
    <3>1. R.gh # <<>> /\ (\A h \in Gh : R.gh = <<h>> => h = g)
          /\ \A t \in Seconds, k \in Nat : R.gh # <<t, k>>
      BY <1>7, KindsDiffer
    <3> QED BY <2>1, <3>1, <1>7, <1>8, <1>11 DEF RowInv
  <2>2. CASE i # r
    <3>1. RowInv(i) /\ runs'[i] = runs[i] /\ runs[i].gh # <<g>>
      BY <2>2, <1>4, <1>8 DEF QueueInv, TakenFor
    <3> QED BY <3>1, <1>10 DEF RowInv
  <2> QED BY <2>1, <2>2
<1>14. IdsInv'
  BY <1>4, <1>7, <1>8 DEF QueueInv, IdsInv, TakenFor
<1>15. WorkerInv'
  <2>1. ASSUME NEW w \in Workers, Active(w) PROVE runs'[Mine(w)] = runs[Mine(w)]
    <3>1. OwnRow(w) /\ executor = "worker"
      BY <2>1 DEF QueueInv, WorkerInv, Active, QueueTypes
    <3>2. Mine(w) \in DOMAIN runs /\ runs[Mine(w)].gh # <<g>>
      BY <3>1, KindsDiffer DEF OwnRow
    <3>3. Mine(w) # r /\ Mine(w) \in DOMAIN T
      BY <1>1, <1>4, <3>1, <3>2 DEF TakenFor
    <3> QED BY <3>3, <1>8
  <2> QED BY <2>1, <1>4, <1>8, <1>9, <1>1, WorkersKept DEF TakenFor
<1>16. RowsKept
  <2>1. ASSUME NEW i \in DOMAIN runs
        PROVE  /\ runs[i].gh # <<>> => runs'[i].gh = runs[i].gh
               /\ runs[i].status \in Final => runs'[i].status = runs[i].status
    <3>1. CASE i = r
      BY <3>1, <1>2, <1>4, <1>7, <1>8 DEF QueueInv, RowInv, Final, TakenFor
    <3>2. CASE i # r
      BY <3>2, <1>1, <1>4, <1>8 DEF TakenFor
    <3> QED BY <3>1, <3>2
  <2> QED BY <2>1 DEF RowsKept
<1> QED
  BY <1>12, <1>13, <1>14, <1>15, <1>16 DEF QueueInv

\* GitHub goes on and the table does not hear of it.
LEMMA GithubKeeps ==
  ASSUME QueueInv, NEW g \in Gh, NEW place \in {"queued", "running", "over"},
         github' = [github EXCEPT ![g] = place],
         github[g] = "none" \/ github[g] = "queued" \/ (github[g] = "running" /\ place = "over"),
         UNCHANGED <<executor, runs, worker, faults>>,
         asked' \in [Requests -> {"new", "dispatched", "recorded"}],
         \A q \in Requests : asked'[q] = "new" => github'[q] = "none"
  PROVE  QueueInv' /\ RowsKept
<1>1. QueueTypes'
  BY DEF QueueInv, QueueTypes
<1>2. ASSUME NEW i \in DOMAIN runs PROVE RowInv(i)'
  <2>1. RowInv(i)
    BY DEF QueueInv
  <2>2. \A h \in Gh : github'[h] = IF h = g THEN place ELSE github[h]
    BY DEF QueueInv, QueueTypes
  <2> QED BY <2>1, <2>2 DEF RowInv
<1>3. IdsInv' /\ WorkerInv'
  BY DEF QueueInv, IdsInv, WorkerInv, OwnRow, Active, Mine
<1>4. RowsKept
  BY DEF RowsKept
<1> QED
  BY <1>1, <1>2, <1>3, <1>4 DEF QueueInv

LEMMA ControlPlaneKeeps ==
  ASSUME QueueInv,
         \/ \E q \in Requests : Trigger(q) \/ CreateRun(q)
         \/ \E g \in Gh : OutsideQueued(g) \/ GithubStarts(g) \/ GithubEnds(g)
  PROVE  QueueInv' /\ RowsKept
<1>1. ASSUME NEW q \in Requests, Trigger(q) PROVE QueueInv' /\ RowsKept
  <2>1. /\ asked' \in [Requests -> {"new", "dispatched", "recorded"}]
        /\ \A p \in Requests \ {q} : asked'[p] = asked[p]
        /\ asked'[q] = "dispatched" /\ github[q] = "none" /\ q \in Gh
    BY <1>1 DEF Trigger, QueueInv, QueueTypes, Gh
  <2>2. CASE github' = [github EXCEPT ![q] = "queued"]
    <3>1. \A p \in Requests : asked'[p] = "new" => github'[p] = "none"
      BY <2>1, <2>2 DEF QueueInv, QueueTypes, Gh
    <3> QED BY <1>1, <2>1, <2>2, <3>1, GithubKeeps DEF Trigger
  <2>3. CASE UNCHANGED github
    <3>1. QueueTypes'
      BY <1>1, <2>1, <2>3 DEF Trigger, QueueInv, QueueTypes
    <3>2. UNCHANGED <<executor, github, runs, worker>>
      BY <1>1, <2>3 DEF Trigger
    <3>3. \A i \in DOMAIN runs : RowInv(i)'
      BY <3>2 DEF QueueInv, RowInv
    <3>4. IdsInv' /\ WorkerInv' /\ RowsKept
      BY <3>2 DEF QueueInv, IdsInv, WorkerInv, OwnRow, Active, Mine, RowsKept
    <3> QED BY <3>1, <3>2, <3>3, <3>4 DEF QueueInv
  <2> QED BY <1>1, <2>2, <2>3 DEF Trigger
<1>2. ASSUME NEW q \in Requests, CreateRun(q) PROVE QueueInv' /\ RowsKept
  BY <1>2, CreateRunKeeps
<1>3. ASSUME NEW g \in Gh, OutsideQueued(g) PROVE QueueInv' /\ RowsKept
  <2>1. \A q \in Requests : asked'[q] = "new" => github'[q] = "none"
    BY <1>3, RunQueueAssumption DEF OutsideQueued, QueueInv, QueueTypes, Gh
  <2> QED BY <1>3, <2>1, GithubKeeps DEF OutsideQueued, QueueInv, QueueTypes
<1>4. ASSUME NEW g \in Gh, GithubStarts(g) \/ GithubEnds(g) PROVE QueueInv' /\ RowsKept
  <2>1. \A q \in Requests : asked'[q] = "new" => github'[q] = "none"
    BY <1>4 DEF GithubStarts, GithubEnds, QueueInv, QueueTypes, Gh
  <2>2. CASE UNCHANGED runs
    BY <1>4, <2>1, <2>2, GithubKeeps DEF GithubStarts, GithubEnds, QueueInv, QueueTypes
  <2>3. CASE GithubStarts(g) /\ Ingest(g, "running")
    BY <2>3, IngestKeeps DEF GithubStarts
  <2>4. CASE GithubEnds(g) /\ (Ingest(g, "done") \/ Ingest(g, "failed"))
    BY <2>4, IngestKeeps DEF GithubEnds, Final
  <2> QED BY <1>4, <2>2, <2>3, <2>4 DEF GithubStarts, GithubEnds
<1> QED BY <1>1, <1>2, <1>3, <1>4

-----------------------------------------------------------------------------
(* claim_next *)

\* A worker that is not in its stages changes its place, and nothing else changes.
LEMMA WorkerMoves ==
  ASSUME QueueInv, NEW w \in Workers, NEW V \in WorkerStates,
         executor = "worker", ~Active(w), V.at \in {"poll", "seen", "dead"},
         V.row \in 0 .. Len(runs), V.at = "seen" => V.row # 0,
         worker' = [worker EXCEPT ![w] = V],
         UNCHANGED <<executor, asked, github, runs, faults>>
  PROVE  QueueInv' /\ RowsKept
<1>1. /\ worker'[w] = V /\ \A v \in Workers \ {w} : worker'[v] = worker[v]
  BY DEF QueueInv, QueueTypes
<1>2. QueueTypes'
  BY DEF QueueInv, QueueTypes, WorkerStates
<1>3. \A i \in DOMAIN runs : RowInv(i)'
  BY DEF QueueInv, RowInv
<1>4. ASSUME NEW v \in Workers, Active(v)' PROVE v # w /\ Active(v) /\ OwnRow(v)' /\ Mine(v)' = Mine(v)
  <2>1. v # w /\ Active(v) /\ OwnRow(v) /\ Mine(v)' = Mine(v)
    BY <1>1, <1>4 DEF Active, QueueInv, WorkerInv, Mine
  <2> QED BY <2>1, <1>1 DEF OwnRow
<1>5. WorkerInv'
  BY <1>1, <1>4 DEF QueueInv, WorkerInv
<1>6. IdsInv' /\ RowsKept
  BY DEF QueueInv, IdsInv, RowsKept
<1> QED
  BY <1>2, <1>3, <1>5, <1>6 DEF QueueInv

LEMMA LookAndRestartKeep ==
  ASSUME QueueInv, NEW w \in Workers, Look(w) \/ Restart(w)
  PROVE  QueueInv' /\ RowsKept
<1>1. executor = "worker" /\ ~Active(w)
  BY DEF Look, Restart, Active, QueueInv, WorkerInv, QueueTypes
<1>2. CASE Look(w)
  <2>1. PICK o \in DOMAIN runs : o = Oldest(Waiting)
    BY <1>2, OldestWaits DEF Look, QueueInv, Waiting
  <2>2. o \in 1 .. Len(runs) /\ Len(runs) \in Nat
    BY <2>1, RunsDomain DEF QueueInv
  <2> DEFINE V == [Idle EXCEPT !.at = "seen", !.row = o]
  <2>3. worker' = [worker EXCEPT ![w] = V] /\ UNCHANGED <<executor, asked, github, runs, faults>>
    BY <1>2, <2>1 DEF Look
  <2>4. Idle \in WorkerStates
    BY DEF Idle, WorkerStates, WorkerPlaces
  <2>5. o \in Nat /\ o # 0 /\ o \in 0 .. Len(runs)
    BY <2>2
  <2>6. V \in WorkerStates /\ V.at = "seen" /\ V.row \in 0 .. Len(runs) /\ V.row # 0
    BY <2>4, <2>5 DEF WorkerStates, WorkerPlaces
  <2> HIDE DEF V
  <2> QED BY <1>1, <2>3, <2>6, WorkerMoves
<1>3. CASE Restart(w)
  <2>1. Len(runs) \in Nat
    BY RunsDomain DEF QueueInv
  <2>2. Idle \in WorkerStates /\ Idle.at = "poll" /\ Idle.row \in 0 .. Len(runs)
    BY <2>1 DEF Idle, WorkerStates, WorkerPlaces
  <2>3. worker' = [worker EXCEPT ![w] = Idle] /\ UNCHANGED <<executor, asked, github, runs, faults>>
    BY <1>3 DEF Restart
  <2> QED BY <1>1, <2>2, <2>3, WorkerMoves
<1> QED BY <1>2, <1>3

\* The id of a claim is nobody's, and says the row it is for if it has a suffix.
LEMMA LocalIdFree ==
  ASSUME QueueInv, NEW t \in Seconds, NEW i \in DOMAIN runs, runs[i].gh = <<>>
  PROVE  /\ \E k \in Nat : LocalId(t, i) = <<t, k>> /\ (k # 0 => k = i)
         /\ \A j \in DOMAIN runs : runs[j].gh # LocalId(t, i)
<1>1. i \in Nat \ {0}
  BY RunsDomain DEF QueueInv
<1>2. CASE BoundTo(<<t, 0>>) = {}
  BY <1>2 DEF LocalId, BoundTo
<1>3. CASE BoundTo(<<t, 0>>) # {}
  <2>1. LocalId(t, i) = <<t, i>>
    BY <1>3 DEF LocalId
  <2>2. ASSUME NEW j \in DOMAIN runs, runs[j].gh = <<t, i>> PROVE FALSE
    <3>1. j = i
      BY <2>2, <1>1 DEF QueueInv, RowInv
    <3> QED BY <2>2, <3>1, <1>1, KindsDiffer
  <2> QED BY <1>1, <2>1, <2>2
<1> QED BY <1>2, <1>3

\* The UPDATE of a claim finds the row free, and takes it for this worker, or not.
LEMMA ClaimKeeps ==
  ASSUME QueueInv, NEW w \in Workers, Claim(w)
  PROVE  QueueInv' /\ RowsKept
<1>1. executor = "worker" /\ ~Active(w) /\ worker[w].at = "seen"
  BY DEF Claim, Active, QueueInv, WorkerInv, QueueTypes
<1>2. Len(runs) \in Nat /\ DOMAIN runs = 1 .. Len(runs) /\ runs \in Seq(Rows)
  BY RunsDomain DEF QueueInv, QueueTypes
<1> DEFINE r == worker[w].row
<1>3. CASE r \notin Waiting
  <2>1. Idle \in WorkerStates /\ Idle.at = "poll" /\ Idle.row \in 0 .. Len(runs)
    BY <1>2 DEF Idle, WorkerStates, WorkerPlaces
  <2>2. worker' = [worker EXCEPT ![w] = Idle] /\ UNCHANGED <<executor, asked, github, runs, faults>>
    BY <1>3 DEF Claim
  <2> QED BY <1>1, <2>1, <2>2, WorkerMoves
<1>4. CASE r \in Waiting
  <2>1. /\ r \in DOMAIN runs /\ runs[r].gh = <<>> /\ runs[r] \in Rows
        /\ runs[r].status = "dispatched" /\ runs[r].ended = "not" /\ runs[r].strewn # "unswept"
    BY <1>4, RunsDomain DEF Waiting, QueueInv, RowInv
  <2>2. PICK t \in Seconds :
          runs' = [runs EXCEPT ![r].gh = LocalId(t, r), ![r].status = "running"]
    BY <1>4 DEF Claim
  <2>3. PICK k \in Nat : LocalId(t, r) = <<t, k>> /\ (k # 0 => k = r)
    BY <2>1, LocalIdFree
  <2>4. \A j \in DOMAIN runs : runs[j].gh # <<t, k>>
    BY <2>1, <2>3, LocalIdFree
  <2> DEFINE R == [runs[r] EXCEPT !.gh = <<t, k>>, !.status = "running"]
             V == WorkerAt(w, "resolve")
  <2>5. /\ R \in Rows /\ R.gh = <<t, k>> /\ R.status = "running" /\ R.ended = "not" /\ R.strewn # "unswept"
    <3>1. <<t, k>> \in Bindings
      BY DEF Bindings
    <3> QED BY <2>1, <3>1 DEF Rows
  <2>6. runs' = [runs EXCEPT ![r] = R]
    BY <2>2, <2>3
  <2>7. V \in WorkerStates /\ V.at = "resolve" /\ V.row = r
        /\ worker' = [worker EXCEPT ![w] = V]
    BY <1>4 DEF Claim, WorkerAt, QueueInv, QueueTypes, WorkerStates, WorkerPlaces
  <2>8. UNCHANGED <<executor, asked, github, faults>>
    BY DEF Claim
  <2> HIDE DEF R, V, r
  <2>9. /\ runs' \in Seq(Rows) /\ Len(runs') = Len(runs) /\ DOMAIN runs' = DOMAIN runs
        /\ runs'[r] = R /\ \A i \in DOMAIN runs \ {r} : runs'[i] = runs[i]
    BY <1>2, <2>1, <2>5, <2>6, ExceptSeq, LenProperties
  <2>10. worker'[w] = V /\ \A v \in Workers \ {w} : worker'[v] = worker[v]
    BY <2>7 DEF QueueInv, QueueTypes
  <2>11. QueueTypes'
    BY <2>7, <2>8, <2>9 DEF QueueInv, QueueTypes, WorkerStates
  <2>12. ASSUME NEW i \in DOMAIN runs PROVE RowInv(i)'
    <3>1. CASE i = r
      <4>1. runs'[i] = R /\ R.gh # <<>> /\ \A g \in Gh : R.gh # <<g>>
        BY <2>5, <2>9, <3>1, KindsDiffer
      <4>2. \A s \in Seconds, l \in Nat \ {0} : R.gh = <<s, l>> => l = i
        BY <2>3, <2>5, <3>1, KindsDiffer
      <4> QED BY <4>1, <4>2, <2>5 DEF RowInv
    <3>2. CASE i # r
      BY <3>2, <2>8, <2>9 DEF QueueInv, RowInv
    <3> QED BY <3>1, <3>2
  <2>13. IdsInv'
    BY <2>4, <2>5, <2>9 DEF QueueInv, IdsInv
  <2>14. WorkerInv'
    <3>1. ASSUME NEW v \in Workers \ {w}, Active(v)
          PROVE  OwnRow(v)' /\ Mine(v) # r /\ Mine(v)' = Mine(v)
      <4>1. OwnRow(v) /\ Mine(v) # r
        BY <3>1, <2>1 DEF QueueInv, WorkerInv, OwnRow
      <4>2. runs'[Mine(v)] = runs[Mine(v)] /\ Mine(v)' = Mine(v) /\ worker'[v].at = worker[v].at
        BY <4>1, <2>9, <2>10, <3>1 DEF OwnRow, Mine
      <4> QED BY <4>1, <4>2, <2>9 DEF OwnRow
    <3>2. OwnRow(w)' /\ Mine(w)' = r
      BY <2>1, <2>5, <2>7, <2>9, <2>10 DEF OwnRow, Mine
    <3>3. \A v \in Workers \ {w} : Active(v)' => Active(v)
      BY <2>10 DEF Active
    <3>4. \A v \in Workers : worker'[v].row \in 0 .. Len(runs') /\ (worker'[v].at = "seen" => worker'[v].row # 0)
      BY <1>2, <2>1, <2>7, <2>9, <2>10 DEF QueueInv, WorkerInv
    <3>5. executor' # "actions"
      BY <1>1, <2>8
    <3>6. \A u, v \in Workers : Active(u)' /\ Active(v)' /\ Mine(u)' = Mine(v)' => u = v
      BY <3>1, <3>2, <3>3 DEF QueueInv, WorkerInv
    <3> QED BY <3>1, <3>2, <3>3, <3>4, <3>5, <3>6 DEF WorkerInv
  <2>15. RowsKept
    BY <2>1, <2>9 DEF RowsKept, Final
  <2> QED BY <2>9, <2>11, <2>12, <2>13, <2>14, <2>15 DEF QueueInv
<1> QED BY <1>3, <1>4

LEMMA QueueStep == QueueInv /\ [QueueNext]_queueVars => QueueInv' /\ (RowsKept \/ UNCHANGED queueVars)
<1> SUFFICES ASSUME QueueInv, [QueueNext]_queueVars
             PROVE  QueueInv' /\ (RowsKept \/ UNCHANGED queueVars)
  OBVIOUS
<1>1. ASSUME NEW w \in Workers, Work(w) \/ Crash(w) PROVE QueueInv' /\ RowsKept
  BY <1>1, LookAndRestartKeep, ClaimKeeps, StagesKeep DEF Work
<1>2. CASE UNCHANGED queueVars
  <2>1. UNCHANGED <<executor, asked, github, runs, worker, faults>>
    BY <1>2 DEF queueVars
  <2>2. QueueTypes'
    BY <2>1 DEF QueueInv, QueueTypes
  <2>3. \A i \in DOMAIN runs : RowInv(i)'
    BY <2>1 DEF QueueInv, RowInv
  <2>4. IdsInv' /\ WorkerInv'
    BY <2>1 DEF QueueInv, IdsInv, WorkerInv, OwnRow, Active, Mine
  <2> QED BY <1>2, <2>1, <2>2, <2>3, <2>4 DEF QueueInv
<1> QED
  BY <1>1, <1>2, ControlPlaneKeeps DEF QueueNext, Gh

-----------------------------------------------------------------------------
(* The theorems *)

\* Every row of the table has its types, and no two have one id, whatever events are
\* lost and wherever workers crash.
THEOREM QueueTypesHold == QueueSpec => []RunQueueTypeOK
<1>1. QueueSpec => []QueueInv
  BY QueueInitInv, QueueStep, PTL DEF QueueSpec
<1>2. QueueInv => RunQueueTypeOK
  <2> SUFFICES ASSUME QueueInv PROVE RunQueueTypeOK
    OBVIOUS
  <2>1. ASSUME NEW i \in DOMAIN runs
        PROVE  /\ runs[i].status \in {"dispatched", "running"} \cup Final
               /\ runs[i].request \subseteq Requests
               /\ runs[i].ended \in {"not", "early", "stages", "deserted"}
               /\ runs[i].strewn \in Fates
               /\ runs[i].gh # <<>> => BoundTo(runs[i].gh) = {i}
    <3>1. runs[i] \in Rows
      BY RunsDomain DEF QueueInv
    <3>2. runs[i].gh # <<>> => BoundTo(runs[i].gh) = {i}
      BY DEF BoundTo, QueueInv, IdsInv
    <3> QED BY <3>1, <3>2 DEF Rows
  <2>2. worker \in [Workers -> [at : WorkerPlaces, row : 0 .. Len(runs), mutations : BOOLEAN,
                 destructive : BOOLEAN, bad : BOOLEAN]]
    BY DEF QueueInv, QueueTypes, WorkerInv
  <2> QED
    BY <2>1, <2>2 DEF QueueInv, QueueTypes, RunQueueTypeOK, Gh
<1> QED BY <1>1, <1>2, PTL

\* A row is executed by one worker at a time, which finds it "running" as it left it,
\* and a run of GitHub that nobody requested takes no request from the workers.
THEOREM ClaimsExclude == QueueSpec => []ClaimedOnce
<1>1. QueueSpec => []QueueInv
  BY QueueInitInv, QueueStep, PTL DEF QueueSpec
<1>2. QueueInv => ClaimedOnce
  <2> SUFFICES ASSUME QueueInv PROVE ClaimedOnce
    OBVIOUS
  <2>1. \A w \in Workers : Active(w) =>
          /\ runs[Mine(w)].status = "running"
          /\ \A v \in Workers \ {w} : Active(v) => Mine(v) # Mine(w)
    BY DEF QueueInv, WorkerInv, OwnRow
  <2>2. executor = "worker" =>
          \A g \in Outside : \A i \in BoundTo(<<g>>) : runs[i].request = {}
    BY DEF QueueInv, RowInv, BoundTo, Gh
  <2> QED BY <2>1, <2>2 DEF ClaimedOnce, Active
<1> QED BY <1>1, <1>2, PTL

\* What a record says of its run is settled once: a binding stays, and a status that
\* is final too, through later events, claims and errors of the worker.
THEOREM RecordsStaySettled == QueueSpec => RecordsSettle
<1>1. QueueSpec => []QueueInv
  BY QueueInitInv, QueueStep, PTL DEF QueueSpec
<1>2. QueueInv /\ [QueueNext]_queueVars => [RowsKept]_queueVars
  BY QueueStep
<1>3. [RowsKept]_queueVars <=>
        [\A i \in DOMAIN runs :
           /\ runs[i].gh # <<>> => runs'[i].gh = runs[i].gh
           /\ runs[i].status \in Final => runs'[i].status = runs[i].status]_queueVars
  BY DEF RowsKept
<1> QED BY <1>1, <1>2, <1>3, PTL DEF QueueSpec, RecordsSettle

\* A run that comes to the end of its stages has left nothing that no sweep has been over:
\* every path to the last milestone leads through the sweep, or made nothing before.
\* What the sweep fails to delete, or is not allowed to, is left nevertheless.
THEOREM RunsAreSwept == QueueSpec => []SweptInTheEnd
<1>1. QueueSpec => []QueueInv
  BY QueueInitInv, QueueStep, PTL DEF QueueSpec
<1>2. QueueInv => SweptInTheEnd
  BY DEF QueueInv, RowInv, SweptInTheEnd
<1> QED BY <1>1, <1>2, PTL

-----------------------------------------------------------------------------
(* The schedules *)

Rota == ToSet(Schedules)

PassPlaces == {"next", "record", "mark", "mark refused"}
Passes == [todo : Seq(Rota), now : Nat, at : PassPlaces]
PassInv ==
  /\ pass \in Passes /\ pass.now <= clock
  /\ pass.at # "next" => alive /\ pass.todo # <<>>

CronTypes ==
  /\ clock \in Nat /\ start \in 0 .. clock /\ alive \in BOOLEAN
  /\ lastFired \in [Rota -> 0 .. clock]
  /\ PassInv
  /\ launched \in [Rota -> Seq(Nat)]
  /\ missed \in [Rota -> SUBSET Nat] /\ unmarked \in [Rota -> SUBSET Nat]

\* The run of s that the pass has launched and not marked yet is the last one.
AtMark(s) == pass.at = "mark" /\ Head(pass.todo) = s

\* A launched window is behind the baseline of its schedule, is about to be, or will be
\* when the server is up again, unless its mark was lost; a missed one is behind the start.
ScheduleInv(s) ==
  /\ AtMark(s) => launched[s] # <<>>
  /\ \A w \in missed[s] : w <= clock /\ (alive => w <= start)
  /\ \A i \in DOMAIN launched[s] :
       /\ launched[s][i] <= clock /\ launched[s][i] \notin missed[s]
       /\ \/ ~alive \/ launched[s][i] <= Baseline(s) \/ launched[s][i] \in unmarked[s]
          \/ AtMark(s) /\ i = Len(launched[s])
  /\ \A i, j \in DOMAIN launched[s] :
       i # j /\ launched[s][i] = launched[s][j] => launched[s][i] \in unmarked[s]

CronInv == CronTypes /\ \A s \in Rota : ScheduleInv(s)

LEMMA PassEnds ==
  ASSUME clock' \in Nat, pass' = Asleep
  PROVE  PassInv' /\ pass'.at = "next"
<1>1. Asleep = [todo |-> <<>>, now |-> 0, at |-> "next"]
  BY DEF Asleep
<1> QED BY <1>1 DEF PassInv, Passes, PassPlaces

LEMMA PassGoes ==
  ASSUME PassInv, alive, pass.todo # <<>>, UNCHANGED <<clock, alive>>,
         NEW a \in PassPlaces, pass' = [pass EXCEPT !.at = a]
  PROVE  PassInv' /\ pass'.at = a /\ pass'.todo = pass.todo
BY DEF PassInv, Passes

LEMMA PassOnwards ==
  ASSUME PassInv, clock \in Nat, pass.todo # <<>>, UNCHANGED <<clock, alive>>, Onwards
  PROVE  PassInv' /\ pass'.at = "next"
<1>1. CASE pass' = Asleep
  BY <1>1, PassEnds
<1>2. CASE pass' = [pass EXCEPT !.todo = Tail(pass.todo), !.at = "next"]
  <2>1. pass.todo \in Seq(Rota) /\ "next" \in PassPlaces
    BY DEF PassInv, Passes, PassPlaces
  <2>2. Tail(pass.todo) \in Seq(Rota)
    BY <2>1
  <2> QED BY <1>2, <2>1, <2>2 DEF PassInv, Passes
<1> QED BY <1>1, <1>2 DEF Onwards

\* The invariant holds at first and is kept by every step.
LEMMA CronInitInv == CronInit => CronInv
<1> SUFFICES ASSUME CronInit PROVE CronInv
  OBVIOUS
<1>1. clock = 0 /\ pass = Asleep /\ lastFired = Each(0) /\ launched = Each(<<>>)
      /\ missed = Each({}) /\ unmarked = Each({}) /\ start = 0 /\ alive = TRUE
  BY DEF CronInit
<1>2. PassInv
  <2>1. pass = [todo |-> <<>>, now |-> 0, at |-> "next"]
    BY <1>1 DEF Asleep
  <2> QED BY <1>1, <2>1 DEF PassInv, Passes, PassPlaces
<1>3. CronTypes
  BY <1>1, <1>2 DEF CronTypes, Each, Rota
<1>4. \A s \in Rota : ScheduleInv(s)
  BY <1>1 DEF ScheduleInv, AtMark, Asleep, Each, Rota
<1> QED BY <1>3, <1>4 DEF CronInv

\* A step that only moves the pass, and neither to the mark of a launch nor from it.
LEMMA PassMoves ==
  ASSUME CronInv, pass.at # "mark", pass'.at # "mark", PassInv',
         UNCHANGED <<clock, start, alive, lastFired, launched, missed, unmarked>>
  PROVE  CronInv'
<1>1. CronTypes'
  BY DEF CronInv, CronTypes
<1>2. ASSUME NEW s \in Rota PROVE ScheduleInv(s)'
  BY DEF CronInv, ScheduleInv, AtMark, Baseline
<1> QED BY <1>1, <1>2 DEF CronInv

\* The window that is launched: the first after the baseline, and not in the future.
LEMMA WindowIsDue ==
  ASSUME CronInv, NEW s \in Rota, Due(s, pass.now) # {}
  PROVE  /\ Window(s, pass.now) \in Nat
         /\ Window(s, pass.now) > Baseline(s) /\ Window(s, pass.now) <= clock
<1>1. Windows[s] \subseteq Nat
  BY CronAssumption DEF Rota
<1>2. Due(s, pass.now) \in SUBSET Nat
  BY <1>1 DEF Due
<1>3. Window(s, pass.now) \in Due(s, pass.now)
  BY <1>2, LeastNumber DEF Window, Min
<1>4. pass.now <= clock /\ pass.now \in Nat /\ clock \in Nat
  BY DEF CronInv, CronTypes, PassInv, Passes
<1> QED BY <1>1, <1>3, <1>4 DEF Due

LEMMA LaunchKeeps ==
  ASSUME CronInv, NEW s \in Rota, Launch(s)
  PROVE  CronInv'
<1>1. alive /\ pass.todo # <<>> /\ Head(pass.todo) = s /\ pass.at = "next"
  BY DEF Launch, Turn
<1>2. UNCHANGED <<clock, start, alive, lastFired, missed, unmarked>>
  BY DEF Launch
<1>3. CASE /\ launched' = [launched EXCEPT ![s] = Append(@, Window(s, pass.now))]
           /\ pass' = [pass EXCEPT !.at = "mark"]
  <2> DEFINE w == Window(s, pass.now)
             n == Len(launched[s])
  <2>1. w \in Nat /\ w > Baseline(s) /\ w <= clock
    BY WindowIsDue DEF Launch
  <2>2. launched[s] \in Seq(Nat) /\ n \in Nat /\ DOMAIN launched[s] = 1 .. n
    BY DEF CronInv, CronTypes
  <2> HIDE DEF w
  <2>3. /\ launched'[s] = Append(launched[s], w)
        /\ \A r \in Rota \ {s} : launched'[r] = launched[r]
        /\ launched' \in [Rota -> Seq(Nat)]
    BY <1>3, <2>1, <2>2 DEF CronInv, CronTypes, w
  <2>4. PassInv' /\ pass'.at = "mark" /\ pass'.todo = pass.todo
    BY <1>1, <1>2, <1>3, PassGoes DEF CronInv, CronTypes, PassPlaces
  <2>5. CronTypes'
    BY <1>2, <2>3, <2>4 DEF CronInv, CronTypes
  <2>6. ScheduleInv(s)'
    <3>1. w \notin missed[s] /\ Baseline(s) \in Nat /\ start <= Baseline(s) /\ clock \in Nat
      BY <1>1, <2>1 DEF CronInv, CronTypes, ScheduleInv, Baseline
    <3>2. AtMark(s)' /\ Baseline(s)' = Baseline(s)
      BY <1>1, <1>2, <2>4 DEF AtMark, Baseline
    <3>3. Len(launched[s])' = n + 1 /\ DOMAIN launched'[s] = 1 .. n + 1
          /\ launched'[s][n + 1] = w /\ \A i \in 1 .. n : launched'[s][i] = launched[s][i]
      BY <2>1, <2>2, <2>3
    <3>4. \A i \in 1 .. n : launched[s][i] \in Nat
                            /\ (launched[s][i] <= Baseline(s) \/ launched[s][i] \in unmarked[s])
      BY <1>1, <2>2 DEF CronInv, ScheduleInv, AtMark
    <3> HIDE DEF n
    <3>5. \A i \in DOMAIN launched'[s] :
             /\ launched'[s][i] <= clock /\ launched'[s][i] \notin missed[s]
             /\ \/ launched'[s][i] <= Baseline(s) \/ launched'[s][i] \in unmarked[s]
                \/ i = n + 1
      <4>1. \A i \in 1 .. n : launched[s][i] <= clock /\ launched[s][i] \notin missed[s]
        BY <2>2 DEF CronInv, ScheduleInv, n
      <4>2. ASSUME NEW i \in 1 .. n
            PROVE  /\ launched'[s][i] <= clock /\ launched'[s][i] \notin missed[s]
                   /\ launched'[s][i] <= Baseline(s) \/ launched'[s][i] \in unmarked[s]
        BY <3>3, <3>4, <4>1
      <4>3. launched'[s][n + 1] <= clock /\ launched'[s][n + 1] \notin missed[s]
        BY <2>1, <3>1, <3>3
      <4> QED BY <2>2, <3>3, <4>2, <4>3
    <3>6. \A i, j \in DOMAIN launched'[s] :
             i # j /\ launched'[s][i] = launched'[s][j] => launched'[s][i] \in unmarked[s]
      <4>1. ASSUME NEW i \in 1 .. n, launched[s][i] = w PROVE w \in unmarked[s]
        BY <2>1, <3>1, <3>4, <4>1
      <4>2. \A i, j \in 1 .. n :
              i # j /\ launched[s][i] = launched[s][j] => launched[s][i] \in unmarked[s]
        BY <2>2 DEF CronInv, ScheduleInv, n
      <4> SUFFICES ASSUME NEW i \in 1 .. n + 1, NEW j \in 1 .. n + 1, i # j,
                          launched'[s][i] = launched'[s][j]
                   PROVE  launched'[s][i] \in unmarked[s]
        BY <3>3
      <4>3. i = n + 1 \/ i \in 1 .. n
        BY <2>2
      <4>4. j = n + 1 \/ j \in 1 .. n
        BY <2>2
      <4>5. CASE i \in 1 .. n /\ j \in 1 .. n
        <5>1. launched'[s][i] = launched[s][i] /\ launched'[s][j] = launched[s][j]
          BY <3>3, <4>5
        <5> QED BY <4>2, <4>5, <5>1
      <4>6. CASE i = n + 1 /\ j \in 1 .. n
        BY <3>3, <4>1, <4>6
      <4>7. CASE j = n + 1 /\ i \in 1 .. n
        BY <3>3, <4>1, <4>7
      <4> QED BY <4>3, <4>4, <4>5, <4>6, <4>7
    <3>7. launched'[s] # <<>>
      BY <2>2, <2>3
    <3> QED BY <1>2, <3>2, <3>3, <3>5, <3>6, <3>7 DEF CronInv, ScheduleInv
  <2>7. ASSUME NEW r \in Rota \ {s} PROVE ScheduleInv(r)'
    BY <1>1, <1>2, <2>3, <2>4 DEF CronInv, ScheduleInv, AtMark, Baseline
  <2> QED BY <2>6, <2>7, <2>5 DEF CronInv
<1>4. CASE pass' = [pass EXCEPT !.at = "record"] /\ UNCHANGED launched
  <2>1. PassInv' /\ pass'.at = "record"
    BY <1>1, <1>2, <1>4, PassGoes DEF CronInv, CronTypes, PassPlaces
  <2> QED BY <1>1, <1>2, <1>4, <2>1, PassMoves
<1>5. CASE Raises /\ UNCHANGED launched
  <2>1. PassInv' /\ pass'.at = "next"
    BY <1>2, <1>5, PassEnds DEF Raises, CronInv, CronTypes
  <2> QED BY <1>1, <1>2, <1>5, <2>1, PassMoves
<1> QED BY <1>3, <1>4, <1>5 DEF Launch

LEMMA MarkKeeps ==
  ASSUME CronInv, NEW s \in Rota, MarkFired(s)
  PROVE  CronInv'
<1>1. /\ alive /\ pass.todo # <<>> /\ Head(pass.todo) = s /\ pass.at \in {"mark", "mark refused"}
      /\ UNCHANGED <<clock, start, alive, launched, missed>>
  BY DEF MarkFired, Turn
<1>2. CASE lastFired' = [lastFired EXCEPT ![s] = clock] /\ Onwards /\ UNCHANGED unmarked
  <2>1. PassInv' /\ pass'.at = "next"
    BY <1>1, <1>2, PassOnwards DEF CronInv, CronTypes
  <2>2. lastFired' \in [Rota -> 0 .. clock]
    <3>1. lastFired \in [Rota -> 0 .. clock] /\ clock \in 0 .. clock
      BY DEF CronInv, CronTypes
    <3> QED BY <1>2, <3>1
  <2>3. CronTypes'
    BY <1>1, <1>2, <2>1, <2>2 DEF CronInv, CronTypes
  <2>4. clock \in Nat /\ start \in 0 .. clock /\ launched[s] \in Seq(Nat)
        /\ lastFired \in [Rota -> 0 .. clock]
    BY DEF CronInv, CronTypes
  <2>5. lastFired'[s] = clock /\ \A r \in Rota \ {s} : lastFired'[r] = lastFired[r]
    BY <1>2, <2>4
  <2>6. Baseline(s)' = clock /\ \A r \in Rota \ {s} : Baseline(r)' = Baseline(r)
    <3>1. start' = start
      BY <1>1
    <3>2. start \in Nat /\ start <= clock
      BY DEF CronInv, CronTypes
    <3> QED BY <2>4, <2>5, <3>1, <3>2 DEF Baseline
  <2>7. ScheduleInv(s)'
    BY <1>1, <1>2, <2>6, <2>4, <2>1 DEF CronInv, ScheduleInv, AtMark
  <2>8. ASSUME NEW r \in Rota \ {s} PROVE ScheduleInv(r)'
    BY <1>1, <1>2, <2>6, <2>1 DEF CronInv, ScheduleInv, AtMark
  <2> QED BY <2>3, <2>7, <2>8 DEF CronInv
<1>3. CASE /\ Raises /\ UNCHANGED lastFired
           /\ unmarked' = IF pass.at = "mark"
                          THEN [unmarked EXCEPT ![s] = @ \cup {Last(launched[s])}] ELSE unmarked
  <2>1. PassInv' /\ pass'.at = "next"
    BY <1>1, <1>3, PassEnds DEF Raises, CronInv, CronTypes
  <2>2. CASE pass.at = "mark"
    <3>1. launched[s] \in Seq(Nat) /\ launched[s] # <<>>
      BY <1>1, <2>2 DEF CronInv, CronTypes, ScheduleInv, AtMark
    <3>2. Last(launched[s]) = launched[s][Len(launched[s])] /\ Last(launched[s]) \in Nat
      BY <3>1 DEF Last
    <3>3. /\ unmarked' \in [Rota -> SUBSET Nat]
          /\ unmarked'[s] = unmarked[s] \cup {Last(launched[s])}
          /\ \A r \in Rota \ {s} : unmarked'[r] = unmarked[r]
      BY <1>3, <2>2, <3>2 DEF CronInv, CronTypes
    <3>4. CronTypes'
      BY <1>1, <1>3, <2>1, <3>3 DEF CronInv, CronTypes
    <3>5. ScheduleInv(s)'
      <4>1. ~AtMark(s)' /\ Baseline(s)' = Baseline(s)
        BY <1>1, <1>3, <2>1 DEF AtMark, Baseline
      <4> QED BY <1>1, <3>2, <3>3, <4>1 DEF CronInv, ScheduleInv
    <3>6. ASSUME NEW r \in Rota \ {s} PROVE ScheduleInv(r)'
      BY <1>1, <1>3, <2>1, <3>3 DEF CronInv, ScheduleInv, AtMark, Baseline
    <3> QED BY <3>4, <3>5, <3>6 DEF CronInv
  <2>3. CASE pass.at # "mark"
    BY <1>1, <1>3, <2>3, <2>1, PassMoves
  <2> QED BY <2>2, <2>3
<1> QED BY <1>2, <1>3 DEF MarkFired

LEMMA ClockKeeps ==
  ASSUME CronInv, TimePasses
  PROVE  CronInv'
<1>1. /\ clock' = clock + 1 /\ clock \in Nat
      /\ UNCHANGED <<start, alive, lastFired, pass, launched, unmarked>>
  BY DEF TimePasses, CronInv, CronTypes
<1>2. \A s \in Rota : missed'[s] = IF alive THEN missed[s] ELSE missed[s] \cup (Windows[s] \cap {clock'})
  BY DEF TimePasses, Rota
<1>3. missed' \in [Rota -> SUBSET Nat]
  BY <1>1, <1>2 DEF TimePasses, Rota, CronInv, CronTypes
<1>4. start \in 0 .. clock' /\ lastFired \in [Rota -> 0 .. clock']
  BY <1>1 DEF CronInv, CronTypes
<1>5. PassInv'
  BY <1>1 DEF CronInv, CronTypes, PassInv, Passes
<1>6. CronTypes'
  BY <1>1, <1>3, <1>4, <1>5 DEF CronInv, CronTypes
<1>7. ASSUME NEW s \in Rota PROVE ScheduleInv(s)'
  <2>1. launched[s] \in Seq(Nat) /\ missed[s] \subseteq Nat
    BY DEF CronInv, CronTypes
  <2>2. AtMark(s)' = AtMark(s) /\ Baseline(s)' = Baseline(s)
    BY <1>1 DEF AtMark, Baseline
  <2>3. \A w \in missed'[s] : w \in Nat /\ (w \in missed[s] \/ (w = clock + 1 /\ ~alive))
    <3>1. CASE alive
      BY <1>2, <2>1, <3>1
    <3>2. CASE ~alive
      BY <1>1, <1>2, <2>1, <3>2
    <3> QED BY <3>1, <3>2
  <2>4. \A i \in DOMAIN launched[s] : launched[s][i] \in Nat
    BY <2>1
  <2>5. start \in Nat
    BY <1>1 DEF CronInv, CronTypes
  <2> QED BY <1>1, <2>2, <2>3, <2>4, <2>5 DEF CronInv, ScheduleInv
<1> QED BY <1>6, <1>7 DEF CronInv

LEMMA ServerKeeps ==
  ASSUME CronInv, SchedulerDies \/ SchedulerStarts
  PROVE  CronInv'
<1>1. CASE SchedulerDies
  <2>1. PassInv'
    BY <1>1, PassEnds DEF SchedulerDies, CronInv, CronTypes
  <2>2. CronTypes'
    BY <1>1, <2>1 DEF SchedulerDies, CronInv, CronTypes
  <2>3. ASSUME NEW s \in Rota PROVE ScheduleInv(s)'
    BY <1>1 DEF SchedulerDies, CronInv, ScheduleInv, AtMark, Asleep
  <2> QED BY <2>2, <2>3 DEF CronInv
<1>2. CASE SchedulerStarts
  <2>1. CronTypes'
    BY <1>2 DEF SchedulerStarts, CronInv, CronTypes, PassInv
  <2>2. ASSUME NEW s \in Rota PROVE ScheduleInv(s)'
    <3>1. Baseline(s)' >= clock /\ Baseline(s)' \in Nat /\ clock \in Nat
          /\ launched[s] \in Seq(Nat)
      BY <1>2 DEF SchedulerStarts, Baseline, CronInv, CronTypes
    <3>2. ~AtMark(s)
      BY <1>2 DEF SchedulerStarts, AtMark, CronInv, CronTypes, PassInv
    <3> QED BY <1>2, <3>1, <3>2 DEF SchedulerStarts, CronInv, ScheduleInv, AtMark
  <2> QED BY <2>1, <2>2 DEF CronInv
<1> QED BY <1>1, <1>2

LEMMA PassKeeps ==
  ASSUME CronInv, TickBegins \/ \E s \in Rota : NotDue(s) \/ RecordRefused(s)
  PROVE  CronInv'
<1>1. CASE TickBegins
  <2>1. pass' = [todo |-> Schedules, now |-> clock, at |-> "next"] /\ pass.at = "next"
    BY <1>1 DEF TickBegins, Asleep
  <2>2. Schedules \in Seq(Rota) /\ clock \in Nat /\ clock' = clock
    BY <1>1, CronAssumption DEF TickBegins, Rota, CronInv, CronTypes
  <2>3. PassInv' /\ pass'.at = "next"
    BY <2>1, <2>2 DEF PassInv, Passes, PassPlaces
  <2> QED BY <1>1, <2>1, <2>3, PassMoves DEF TickBegins
<1>2. ASSUME NEW s \in Rota, NotDue(s) PROVE CronInv'
  <2>1. PassInv' /\ pass'.at = "next"
    BY <1>2, PassOnwards DEF NotDue, Turn, CronInv, CronTypes
  <2> QED BY <1>2, <2>1, PassMoves DEF NotDue
<1>3. ASSUME NEW s \in Rota, RecordRefused(s) PROVE CronInv'
  <2>1. CASE Raises
    <3>1. PassInv' /\ pass'.at = "next"
      BY <1>3, <2>1, PassEnds DEF RecordRefused, Raises, CronInv, CronTypes
    <3> QED BY <1>3, <3>1, PassMoves DEF RecordRefused
  <2>2. CASE pass' = [pass EXCEPT !.at = "mark refused"]
    <3>1. PassInv' /\ pass'.at = "mark refused"
      BY <1>3, <2>2, PassGoes DEF RecordRefused, Turn, CronInv, CronTypes, PassPlaces
    <3> QED BY <1>3, <3>1, PassMoves DEF RecordRefused
  <2> QED BY <1>3, <2>1, <2>2 DEF RecordRefused
<1> QED BY <1>1, <1>2, <1>3

LEMMA CronStep ==
  ASSUME CronInv, [CronNext]_cronVars
  PROVE  CronInv'
<1>1. CASE UNCHANGED cronVars
  BY <1>1 DEF cronVars, CronInv, CronTypes, PassInv, ScheduleInv, AtMark, Baseline
<1>2. CASE CronNext
  BY <1>2, LaunchKeeps, MarkKeeps, ClockKeeps, ServerKeeps, PassKeeps DEF CronNext, Rota
<1> QED BY <1>1, <1>2

LEMMA CronInvImplies == CronInv => WindowLaunchedOnce
BY DEF CronInv, ScheduleInv, WindowLaunchedOnce, NoCatchUp, FiredOnce, ToSet, Rota

\* scheduler.py's promise: a window is launched at most once, through restarts and errors
\* between the launch and its mark, and not at all if it passed while no server was up.
THEOREM NoWindowTwice == CronSpec => []WindowLaunchedOnce
<1>1. CronSpec => []CronInv
  BY CronInitInv, CronStep, PTL DEF CronSpec
<1> QED BY <1>1, CronInvImplies, PTL

-----------------------------------------------------------------------------
(* The edit routes *)
Texts == [by : Edits \cup {"repository", "nobody"}, valid : BOOLEAN, over : BOOLEAN]

EditRecords ==
  [at : {"new", "read", "write", "validate", "settle", "toggle", "truncate", "rewrite",
         "done", "died"},
   kind : {"save", "check", "node", "toggle"}, file : Files, text : Texts, original : Texts,
   refused : BOOLEAN, dirty : BOOLEAN, broken : BOOLEAN]

EditTypes ==
  /\ copy \in [Files -> Texts] /\ head \in [Files -> Texts] /\ accepted \in [Files -> Texts]
  /\ edit \in [Edits -> EditRecords]
  /\ mishaps \in 0 .. MaxMishaps
  /\ met \subseteq Files

Open(r) == r.at \notin {"new", "done", "died"}
Holds(r, f) == Open(r) /\ r.at # "toggle" /\ r.file = f
Applied(r) == r.at \in {"validate", "settle", "rewrite"}

\* What a request says by its place.
PlaceInv(r) ==
  /\ r.broken => r.at \in {"done", "died"}
  /\ r.at = "new" => ~r.dirty
  /\ r.at \in {"toggle", "truncate", "rewrite"} => r.kind = "toggle" /\ r.file = Fragment
  /\ r.at \in {"read", "write", "validate", "settle"} => r.kind # "toggle"

\* A file that is not met has one holder, and the event loop one request.
AloneInv ==
  /\ \A f \in Files \ met, d, e \in Edits :
       Holds(edit[d], f) /\ Holds(edit[e], f) => d = e

\* What a holder knows of a file that nobody else touched.
Known(f) ==
  /\ (\A e \in Edits : ~(Holds(edit[e], f) /\ Applied(edit[e]))) => copy[f] = accepted[f]
  /\ \A e \in Edits : Holds(edit[e], f) =>
       /\ edit[e].at \in {"write", "validate", "settle"} => edit[e].original = accepted[f]
       /\ edit[e].at \in {"validate", "settle"} => copy[f] = edit[e].text

KnownInv == \A f \in Files \ met : Interrupted(f) \/ Known(f)

\* What explains a text that its validator refuses, for good.
Excused(f) ==
  \/ Interrupted(f)
  \/ \E e \in Edits : edit[e].at \in {"done", "died"} /\ edit[e].dirty /\ edit[e].file = f

\* ... and while a request is busy with it.
Pending(r, f) ==
  /\ Holds(r, f)
  /\ \/ r.at = "rewrite" /\ copy[f] = Torn
     \/ r.at = "validate" /\ copy[f] = r.text
     \/ r.at = "settle" /\ copy[f] = r.text /\ (r.refused \/ r.kind = "check")

Explained(f) == Excused(f) \/ \E e \in Edits : Pending(edit[e], f)

InvalidInv ==
  /\ \A f \in Files : copy[f].valid \/ Explained(f)
  /\ \A e \in Edits :
       LET r == edit[e]
       IN  /\ r.at \in {"write", "validate", "settle"} =>
                r.original.valid \/ r.dirty \/ Excused(r.file)
           /\ r.at \in {"truncate", "rewrite"} => r.text.valid \/ r.dirty \/ Excused(r.file)

HeadInv ==
  /\ \A f \in Files : head[f].valid \/ f \in met
  /\ \A e \in Edits : edit[e].at = "settle" /\ ~edit[e].refused =>
       copy[edit[e].file].valid \/ edit[e].file \in met

AuthoringInv ==
  EditTypes /\ (\A e \in Edits : PlaceInv(edit[e])) /\ AloneInv /\ KnownInv /\ InvalidInv /\ HeadInv

-----------------------------------------------------------------------------
\* The frame of a step of one request.
OnlyMoves(e) == \A d \in Edits \ {e} : edit'[d] = edit[d]

LEMMA GoesMoves ==
  ASSUME EditTypes, NEW e \in Edits, NEW r \in EditRecords, Goes(e, r)
  PROVE  edit' \in [Edits -> EditRecords] /\ edit'[e] = r /\ OnlyMoves(e)
<1> QED BY DEF EditTypes, Goes, OnlyMoves

\* How a request ends: done with its file, or on its way to the toggle of its
\* lifecycle, with nothing held.
LEMMA EndedMoves ==
  ASSUME EditTypes, AuthoringAssumption, NEW e \in Edits, NEW refused \in BOOLEAN,
         Ended(e, refused)
  PROVE  /\ edit' \in [Edits -> EditRecords] /\ OnlyMoves(e)
         /\ edit'[e].dirty = edit[e].dirty /\ edit'[e].broken = edit[e].broken
         /\ \/ edit'[e].at = "done" /\ edit'[e].file = edit[e].file
            \/ /\ edit'[e].at = "toggle" /\ edit'[e].kind = "toggle"
               /\ edit'[e].file = Fragment /\ ~refused /\ edit[e].kind = "node"
<1> DEFINE done == [edit[e] EXCEPT !.at = "done", !.refused = refused]
<1> DEFINE on == [done EXCEPT !.at = "toggle", !.kind = "toggle", !.file = Fragment]
<1>1. edit[e] \in EditRecords /\ Fragment \in Files
  BY DEF EditTypes, AuthoringAssumption
<1>2. /\ done \in EditRecords /\ done.at = "done" /\ done.file = edit[e].file
      /\ done.dirty = edit[e].dirty /\ done.broken = edit[e].broken
  BY <1>1 DEF EditRecords
<1>3. /\ on \in EditRecords /\ on.at = "toggle" /\ on.kind = "toggle"
      /\ on.file = Fragment /\ on.dirty = edit[e].dirty /\ on.broken = edit[e].broken
  BY <1>1 DEF EditRecords
<1>4. \/ Goes(e, done)
      \/ edit[e].kind = "node" /\ ~refused /\ Goes(e, on)
  BY DEF Ended
<1> HIDE DEF done, on
<1>5. CASE Goes(e, done)
  <2>1. edit' \in [Edits -> EditRecords] /\ edit'[e] = done /\ OnlyMoves(e)
    BY <1>2, <1>5, GoesMoves
  <2> QED BY <1>2, <2>1
<1>6. CASE edit[e].kind = "node" /\ ~refused /\ Goes(e, on)
  <2>1. edit' \in [Edits -> EditRecords] /\ edit'[e] = on /\ OnlyMoves(e)
    BY <1>3, <1>6, GoesMoves
  <2> QED BY <1>3, <1>6, <2>1
<1> QED BY <1>4, <1>5, <1>6

-----------------------------------------------------------------------------
\* What every step of a request keeps, whatever it does.

\* What explains a refused text for good stays.
LEMMA ExcusesStay ==
  ASSUME EditTypes, NEW e \in Edits, NEW f \in Files, OnlyMoves(e), PlaceInv(edit[e]),
         edit[e].at \notin {"done", "died"}
  PROVE  /\ Interrupted(f) => Interrupted(f)'
         /\ Excused(f) => Excused(f)'
<1>1. Interrupted(f) => Interrupted(f)'
  <2> SUFFICES ASSUME NEW d \in Edits, edit[d].file = f, edit[d].broken
               PROVE  Interrupted(f)'
    BY DEF Interrupted
  <2>1. d # e
    BY DEF PlaceInv
  <2> QED BY <2>1 DEF Interrupted, OnlyMoves
<1>2. ASSUME NEW d \in Edits, edit[d].at \in {"done", "died"}, edit[d].dirty,
             edit[d].file = f
      PROVE  Excused(f)'
  <2>1. d # e
    BY <1>2
  <2> QED BY <1>2, <2>1 DEF Excused, OnlyMoves
<1> QED BY <1>1, <1>2 DEF Excused

\* A file has one holder still, where the request that moves comes to no file that
\* another holds.
LEMMA AloneStays ==
  ASSUME EditTypes, AloneInv, NEW e \in Edits, OnlyMoves(e), met \subseteq met',
         \A f \in Files \ met' : Holds(edit'[e], f) =>
           \/ Holds(edit[e], f)
           \/ \A d \in Edits \ {e} : ~Holds(edit[d], f)
  PROVE  AloneInv'
<1> SUFFICES ASSUME NEW f \in Files \ met', NEW d1 \in Edits, NEW d2 \in Edits,
                    Holds(edit'[d1], f), Holds(edit'[d2], f), d1 # d2
             PROVE  FALSE
  BY DEF AloneInv, Holds, Open
<1>1. f \in Files \ met
  OBVIOUS
<1>2. CASE d1 = e
  BY <1>1, <1>2 DEF AloneInv, OnlyMoves
<1>3. CASE d2 = e
  BY <1>1, <1>3 DEF AloneInv, OnlyMoves
<1>4. CASE d1 # e /\ d2 # e
  BY <1>1, <1>4 DEF AloneInv, OnlyMoves
<1> QED BY <1>2, <1>3, <1>4

\* What the only holder of a file knows of it.
KnownBy(e, f) ==
  /\ \A d \in Edits \ {e} : ~Holds(edit[d], f)
  /\ ~(Holds(edit[e], f) /\ Applied(edit[e])) => copy[f] = accepted[f]
  /\ Holds(edit[e], f) =>
       /\ edit[e].at \in {"write", "validate", "settle"} => edit[e].original = accepted[f]
       /\ edit[e].at \in {"validate", "settle"} => copy[f] = edit[e].text

LEMMA KnownOfHolder ==
  ASSUME EditTypes, AloneInv, KnownInv, NEW e \in Edits, NEW f \in Files \ met,
         Holds(edit[e], f), ~Interrupted(f)
  PROVE  KnownBy(e, f)
<1>1. \A d \in Edits \ {e} : ~Holds(edit[d], f)
  BY DEF AloneInv
<1>2. Known(f)
  BY DEF KnownInv
<1> QED BY <1>1, <1>2 DEF Known, KnownBy

LEMMA KnownOfComer ==
  ASSUME EditTypes, KnownInv, NEW e \in Edits, NEW f \in Files \ met,
         \A d \in Edits : ~Holds(edit[d], f), ~Interrupted(f)
  PROVE  copy[f] = accepted[f]
<1>1. Known(f)
  BY DEF KnownInv
<1> QED BY <1>1 DEF Known

LEMMA KnownStays ==
  ASSUME EditTypes, KnownInv, NEW e \in Edits, OnlyMoves(e), met \subseteq met',
         PlaceInv(edit[e]), edit[e].at \notin {"done", "died"},
         \A f \in Files \ met' :
           \/ Interrupted(f)'
           \/ /\ ~Holds(edit[e], f) /\ ~Holds(edit'[e], f)
              /\ copy'[f] = copy[f] /\ accepted'[f] = accepted[f]
           \/ KnownBy(e, f)'
  PROVE  KnownInv'
<1> SUFFICES ASSUME NEW f \in Files \ met', ~(Interrupted(f)')
             PROVE  Known(f)'
  BY DEF KnownInv
<1>1. Known(f)
  BY ExcusesStay DEF KnownInv
<1>2. CASE KnownBy(e, f)'
  BY <1>2 DEF Known, KnownBy
<1>3. CASE /\ ~Holds(edit[e], f) /\ ~Holds(edit'[e], f)
           /\ copy'[f] = copy[f] /\ accepted'[f] = accepted[f]
  <2>1. \A d \in Edits : \/ edit'[d] = edit[d]
                         \/ ~Holds(edit[d], f) /\ ~Holds(edit'[d], f)
    BY <1>3 DEF OnlyMoves
  <2>2. (\A d \in Edits : ~(Holds(edit'[d], f) /\ Applied(edit'[d])))
           => copy'[f] = accepted'[f]
    BY <1>1, <1>3, <2>1 DEF Known
  <2>3. \A d \in Edits : Holds(edit'[d], f) =>
          /\ edit'[d].at \in {"write", "validate", "settle"} => edit'[d].original = accepted'[f]
          /\ edit'[d].at \in {"validate", "settle"} => copy'[f] = edit'[d].text
    BY <1>1, <1>3, <2>1 DEF Known
  <2> QED BY <2>2, <2>3 DEF Known, Holds, Applied, Open
<1> QED BY <1>2, <1>3

\* A refused text stays explained: by a place of another request that did not move,
\* by one that the request that moved keeps, or for good.
LEMMA ExplainedStays ==
  ASSUME EditTypes, NEW e \in Edits, NEW f \in Files, OnlyMoves(e), PlaceInv(edit[e]),
         edit[e].at \notin {"done", "died"}, copy'[f] = copy[f], Explained(f),
         Pending(edit[e], f) => Pending(edit[e], f)' \/ Excused(f)'
  PROVE  Explained(f)'
<1>1. CASE Excused(f)
  BY <1>1, ExcusesStay DEF Explained
<1>2. ASSUME NEW d \in Edits, Pending(edit[d], f)
      PROVE  Explained(f)'
  <2>1. CASE d = e
    BY <1>2, <2>1 DEF Explained
  <2>2. CASE d # e
    <3>1. edit'[d] = edit[d]
      BY <2>2 DEF OnlyMoves
    <3>2. Pending(edit[d], f)'
      BY <1>2, <3>1 DEF Pending, Holds, Open
    <3> QED BY <3>2 DEF Explained
  <2> QED BY <2>1, <2>2
<1> QED BY <1>1, <1>2 DEF Explained

\* What the places of the requests say of texts they read.
ReadInv(e) ==
  /\ edit[e].at \in {"write", "validate", "settle"} =>
       edit[e].original.valid \/ edit[e].dirty \/ Excused(edit[e].file)
  /\ edit[e].at \in {"truncate", "rewrite"} =>
       edit[e].text.valid \/ edit[e].dirty \/ Excused(edit[e].file)

LEMMA InvalidStays ==
  ASSUME EditTypes, InvalidInv, NEW e \in Edits, OnlyMoves(e), PlaceInv(edit[e]),
         edit[e].at \notin {"done", "died"},
         \A f \in Files : copy'[f].valid \/ Explained(f)',
         ReadInv(e)'
  PROVE  InvalidInv'
<1> SUFFICES ASSUME NEW d \in Edits PROVE ReadInv(d)'
  BY DEF InvalidInv, ReadInv
<1>1. CASE d = e
  BY <1>1
<1>2. CASE d # e
  <2>1. edit'[d] = edit[d] /\ edit[d].file \in Files
    BY <1>2 DEF OnlyMoves, EditTypes, EditRecords
  <2>2. Excused(edit[d].file) => Excused(edit[d].file)'
    BY <2>1, ExcusesStay
  <2>3. ReadInv(d)
    BY DEF InvalidInv, ReadInv
  <2> QED BY <2>1, <2>2, <2>3 DEF ReadInv
<1> QED BY <1>1, <1>2

\* The head, where neither it nor the copy changes, or the copy only of a file that
\* the request that moves holds.
LEMMA HeadStays ==
  ASSUME EditTypes, AloneInv, HeadInv, NEW e \in Edits, OnlyMoves(e), met \subseteq met',
         \A f \in Files : copy'[f] = copy[f] \/ Holds(edit[e], f),
         \A f \in Files : head'[f].valid \/ f \in met',
         edit'[e].at = "settle" /\ ~edit'[e].refused =>
            copy'[edit'[e].file].valid \/ edit'[e].file \in met'
  PROVE  HeadInv'
<1> SUFFICES ASSUME NEW d \in Edits, d # e, edit'[d].at = "settle", ~edit'[d].refused
             PROVE  copy'[edit'[d].file].valid \/ edit'[d].file \in met'
  BY DEF HeadInv
<1>1. edit'[d] = edit[d] /\ edit[d].file \in Files
  BY DEF OnlyMoves, EditTypes, EditRecords
<1>2. copy[edit[d].file].valid \/ edit[d].file \in met
  BY <1>1 DEF HeadInv
<1>3. Holds(edit[d], edit[d].file)
  BY <1>1 DEF Holds, Open
<1>4. CASE copy'[edit[d].file] = copy[edit[d].file]
  BY <1>1, <1>2, <1>4
<1>5. CASE Holds(edit[e], edit[d].file)
  BY <1>1, <1>3, <1>5 DEF AloneInv
<1> QED BY <1>1, <1>4, <1>5

-----------------------------------------------------------------------------
\* The invariant, action by action.

\* A request comes to a file, or ends at once with nothing read.
LEMMA StartKeeps ==
  ASSUME AuthoringAssumption, AuthoringInv, NEW e \in Edits, Stands(e, "new"),
         NEW r \in EditRecords, r.at \in {"read", "done"}, r.kind # "toggle",
         ~r.dirty, ~r.broken, Goes(e, r), Comes(e, r.file),
         UNCHANGED <<copy, head, mishaps, accepted>>
  PROVE  AuthoringInv'
<1> USE DEF Stands
<1>1. /\ EditTypes /\ AloneInv /\ KnownInv /\ InvalidInv /\ HeadInv
      /\ \A d \in Edits : PlaceInv(edit[d])
  BY DEF AuthoringInv
<1>2. edit' \in [Edits -> EditRecords] /\ edit'[e] = r /\ OnlyMoves(e)
  BY <1>1, GoesMoves
<1>3. r.file \in Files /\ met \subseteq met' /\ met' \subseteq Files
  BY <1>1 DEF Comes, EditTypes, EditRecords
<1>4. r.file \in met' \/ \A d \in Edits \ {e} : ~Holds(edit[d], r.file)
  BY DEF Comes, Busy, Settled, Holds, Open
<1>5. EditTypes'
  BY <1>1, <1>2, <1>3 DEF EditTypes
<1>6. (\A d \in Edits : PlaceInv(edit[d]))'
  BY <1>1, <1>2 DEF PlaceInv, OnlyMoves
<1>7. AloneInv'
  BY <1>1, <1>2, <1>3, <1>4, AloneStays DEF Holds
<1>8. KnownInv'
  <2>1. ASSUME NEW f \in Files \ met', f = r.file, ~(Interrupted(f)')
        PROVE  KnownBy(e, f)'
    <3>1. ~Interrupted(f)
      BY <1>1, <1>2, <2>1, ExcusesStay
    <3>2. \A d \in Edits : ~Holds(edit[d], f)
      BY <1>4, <2>1 DEF Holds, Open
    <3>3. copy[f] = accepted[f]
      BY <1>1, <1>3, <2>1, <3>1, <3>2, KnownOfComer
    <3> QED BY <1>2, <3>2, <3>3 DEF KnownBy, OnlyMoves, Holds, Open
  <2>2. \A f \in Files \ met' : f # r.file => ~Holds(edit[e], f) /\ ~Holds(edit'[e], f)
    BY <1>2 DEF Holds, Open
  <2> QED BY <1>1, <1>2, <1>3, <2>1, <2>2, KnownStays
<1>9. InvalidInv'
  <2>1. ASSUME NEW f \in Files, ~copy'[f].valid
        PROVE  Explained(f)'
    BY <1>1, <1>2, <2>1, ExplainedStays DEF InvalidInv, Pending, Holds, Open
  <2> QED BY <1>1, <1>2, <2>1, InvalidStays DEF ReadInv
<1>10. HeadInv'
  BY <1>1, <1>2, <1>3, HeadStays DEF HeadInv
<1> QED BY <1>5, <1>6, <1>7, <1>8, <1>9, <1>10 DEF AuthoringInv

LEMMA StartEditKeeps ==
  ASSUME AuthoringAssumption, AuthoringInv, NEW e \in Edits, StartEdit(e)
  PROVE  AuthoringInv'
<1>1. PICK kind \in {"save", "check"}, f \in Files, valid \in BOOLEAN :
        /\ Goes(e, [NewEdit EXCEPT !.at = "read", !.kind = kind, !.file = f,
                                   !.text = Written(e, valid, FALSE)])
        /\ Comes(e, f)
  BY DEF StartEdit
<1> DEFINE r == [NewEdit EXCEPT !.at = "read", !.kind = kind, !.file = f,
                                !.text = Written(e, valid, FALSE)]
<1>2. Written(e, valid, FALSE) \in Texts
  BY DEF Written, Texts
<1>3. NewEdit \in EditRecords /\ ~NewEdit.dirty /\ ~NewEdit.broken
  BY DEF AuthoringAssumption, NewEdit, EditRecords, Texts, Initial, Absent, Written
<1>4. r \in EditRecords /\ r.at = "read" /\ r.kind = kind /\ r.file = f /\ ~r.dirty /\ ~r.broken
  BY <1>2, <1>3 DEF EditRecords
<1>5. Goes(e, r) /\ Comes(e, r.file)
  BY <1>1, <1>4
<1> HIDE DEF r
<1>6. Stands(e, "new") /\ UNCHANGED <<copy, head, mishaps, accepted>>
  BY DEF StartEdit
<1> QED BY <1>4, <1>5, <1>6, StartKeeps

LEMMA StartNodeKeeps ==
  ASSUME AuthoringAssumption, AuthoringInv, NEW e \in Edits, StartNode(e)
  PROVE  AuthoringInv'
<1> DEFINE place == IF copy[Model] = Torn THEN "done" ELSE "read"
<1> DEFINE refused == copy[Model] = Torn
<1> DEFINE text == [copy[Model] EXCEPT !.over = TRUE]
<1> DEFINE r == [NewEdit EXCEPT !.at = place, !.kind = "node", !.refused = refused,
                                !.text = text]
<1>1. NewEdit \in EditRecords /\ ~NewEdit.dirty /\ ~NewEdit.broken /\ NewEdit.file = Model
  BY DEF AuthoringAssumption, NewEdit, EditRecords, Texts, Initial, Absent, Written
<1>2. place \in {"done", "read"} /\ refused \in BOOLEAN
  OBVIOUS
<1>3. text \in Texts
  <2>1. copy[Model] \in Texts
    BY DEF AuthoringAssumption, AuthoringInv, EditTypes
  <2> QED BY <2>1 DEF Texts
<1>4. Goes(e, r) /\ Comes(e, Model)
  BY DEF StartNode
<1> HIDE DEF place, refused, text
<1>5. /\ r \in EditRecords /\ r.at = place /\ r.kind = "node" /\ r.file = Model
      /\ ~r.dirty /\ ~r.broken
  BY <1>1, <1>2, <1>3 DEF EditRecords
<1> HIDE DEF r
<1>6. Stands(e, "new") /\ UNCHANGED <<copy, head, mishaps, accepted>>
  BY DEF StartNode
<1> QED BY <1>2, <1>4, <1>5, <1>6, StartKeeps

\* Where the working copy and the commits stay as they are, and nobody comes: the
\* places of one request move.
LEMMA PlaceMoves ==
  ASSUME AuthoringAssumption, AuthoringInv, NEW e \in Edits, OnlyMoves(e),
         edit' \in [Edits -> EditRecords], mishaps' \in 0 .. MaxMishaps,
         UNCHANGED <<copy, head, accepted, met>>,
         edit[e].at \notin {"done", "died"}, PlaceInv(edit[e])',
         \A f \in Files : Holds(edit'[e], f) => Holds(edit[e], f),
         \A f \in Files \ met : Holds(edit[e], f) /\ KnownBy(e, f) =>
            KnownBy(e, f)' \/ Interrupted(f)',
         \A f \in Files : Pending(edit[e], f) /\ ~copy[f].valid =>
            Pending(edit[e], f)' \/ Excused(f)',
         ReadInv(e)',
         edit'[e].at = "settle" /\ ~edit'[e].refused =>
            copy[edit'[e].file].valid \/ edit'[e].file \in met
  PROVE  AuthoringInv'
<1>1. /\ EditTypes /\ AloneInv /\ KnownInv /\ InvalidInv /\ HeadInv
      /\ \A d \in Edits : PlaceInv(edit[d])
  BY DEF AuthoringInv
<1>2. EditTypes'
  BY <1>1 DEF EditTypes
<1>3. (\A d \in Edits : PlaceInv(edit[d]))'
  BY <1>1 DEF PlaceInv, OnlyMoves
<1>4. AloneInv'
  BY <1>1, AloneStays
<1>5. KnownInv'
  <2>1. ASSUME NEW f \in Files \ met, Holds(edit[e], f), ~(Interrupted(f)')
        PROVE  KnownBy(e, f)'
    <3>1. ~Interrupted(f)
      BY <1>1, <2>1, ExcusesStay
    <3>2. KnownBy(e, f)
      BY <1>1, <2>1, <3>1, KnownOfHolder
    <3> QED BY <2>1, <3>2
  <2> QED BY <1>1, <2>1, KnownStays
<1>6. InvalidInv'
  <2>1. ASSUME NEW f \in Files, ~copy'[f].valid
        PROVE  Explained(f)'
    BY <1>1, <2>1, ExplainedStays DEF InvalidInv
  <2> QED BY <1>1, <2>1, InvalidStays
<1>7. HeadInv'
  BY <1>1, HeadStays DEF HeadInv
<1> QED BY <1>2, <1>3, <1>4, <1>5, <1>6, <1>7 DEF AuthoringInv

LEMMA ReadOriginalKeeps ==
  ASSUME AuthoringAssumption, AuthoringInv, NEW e \in Edits, ReadOriginal(e)
  PROVE  AuthoringInv'
<1> PICK f \in Files : f = edit[e].file
  BY DEF AuthoringInv, EditTypes, EditRecords
<1>1. /\ EditTypes /\ AloneInv /\ KnownInv /\ InvalidInv /\ HeadInv
      /\ PlaceInv(edit[e]) /\ edit[e] \in EditRecords /\ copy[f] \in Texts
  BY DEF AuthoringInv, EditTypes
<1>2. edit[e].at = "read" /\ UNCHANGED <<copy, head, mishaps, accepted, met>>
  BY DEF ReadOriginal, Stands
<1>3. CASE copy[f] = edit[e].text
  <2>1. Ended(e, FALSE)
    BY <1>3 DEF ReadOriginal
  <2>2. /\ edit' \in [Edits -> EditRecords] /\ OnlyMoves(e)
        /\ edit'[e].dirty = edit[e].dirty /\ edit'[e].broken = edit[e].broken
        /\ \/ edit'[e].at = "done" /\ edit'[e].file = edit[e].file
           \/ /\ edit'[e].at = "toggle" /\ edit'[e].kind = "toggle"
              /\ edit'[e].file = Fragment
    BY <1>1, <2>1, EndedMoves
  <2>3. PlaceInv(edit[e])'
    BY <1>1, <1>2, <2>2 DEF PlaceInv
  <2>4. \A g \in Files : ~Holds(edit'[e], g) /\ ~Pending(edit[e], g)
    BY <1>2, <2>2 DEF Holds, Open, Pending
  <2>5. ASSUME NEW g \in Files \ met, Holds(edit[e], g), KnownBy(e, g)
        PROVE  KnownBy(e, g)'
    BY <1>2, <2>2, <2>4, <2>5 DEF KnownBy, Applied, OnlyMoves, Holds, Open
  <2>6. ReadInv(e)'
    BY <2>2 DEF ReadInv
  <2> QED BY <1>1, <1>2, <2>2, <2>3, <2>4, <2>5, <2>6, PlaceMoves DEF EditTypes
<1>4. CASE copy[f] # edit[e].text
  <2> DEFINE stale == Provisional(f)
  <2> DEFINE r == [edit[e] EXCEPT !.at = "write", !.original = copy[f], !.dirty = stale]
  <2>1. Goes(e, r)
    BY <1>4 DEF ReadOriginal
  <2>2. stale \in BOOLEAN
    BY DEF Provisional
  <2> HIDE DEF stale
  <2>3. /\ r \in EditRecords /\ r.at = "write" /\ r.original = copy[f] /\ r.dirty = stale
        /\ r.file = f /\ r.broken = edit[e].broken /\ r.kind = edit[e].kind
    BY <1>1, <2>2 DEF EditRecords
  <2> HIDE DEF r
  <2>4. edit' \in [Edits -> EditRecords] /\ edit'[e] = r /\ OnlyMoves(e)
    BY <1>1, <2>1, <2>3, GoesMoves
  <2>5. PlaceInv(edit[e])'
    BY <1>1, <1>2, <2>3, <2>4 DEF PlaceInv
  <2>6. \A g \in Files : /\ Holds(edit'[e], g) => Holds(edit[e], g)
                         /\ ~Pending(edit[e], g)
    BY <1>2, <2>3, <2>4 DEF Holds, Open, Pending
  <2>7. ASSUME NEW g \in Files \ met, Holds(edit[e], g), KnownBy(e, g)
        PROVE  KnownBy(e, g)'
    <3>1. g = f /\ copy[g] = accepted[g]
      BY <1>2, <2>7 DEF KnownBy, Holds, Applied
    <3> QED BY <1>2, <2>3, <2>4, <2>7, <3>1 DEF KnownBy, Applied, OnlyMoves, Holds, Open
  <2>8. ReadInv(e)'
    <3>1. SUFFICES ASSUME ~copy[f].valid, ~stale PROVE Excused(f)'
      BY <1>2, <2>3, <2>4 DEF ReadInv
    <3>2. Explained(f)
      BY <1>1, <3>1 DEF InvalidInv
    <3>3. ASSUME NEW d \in Edits, Pending(edit[d], f)
          PROVE  FALSE
      BY <3>1, <3>3 DEF Pending, Holds, Open, stale, Provisional, Busy, Settled
    <3> QED BY <1>1, <1>2, <2>4, <3>2, <3>3, ExcusesStay DEF Explained
  <2>9. edit'[e].at # "settle"
    BY <2>3, <2>4
  <2> QED BY <1>1, <1>2, <2>4, <2>5, <2>6, <2>7, <2>8, <2>9, PlaceMoves DEF EditTypes
<1> QED BY <1>3, <1>4

\* A write that fails ends the request with the file as it was.
LEMMA WriteFailsKeeps ==
  ASSUME AuthoringAssumption, AuthoringInv, NEW e \in Edits, Stands(e, "write"), Mishap,
         Ended(e, TRUE), UNCHANGED <<copy, head, accepted, met>>
  PROVE  AuthoringInv'
<1>1. /\ EditTypes /\ PlaceInv(edit[e]) /\ edit[e].at = "write"
  BY DEF AuthoringInv, Stands
<1>2. /\ edit' \in [Edits -> EditRecords] /\ OnlyMoves(e)
      /\ edit'[e].dirty = edit[e].dirty /\ edit'[e].broken = edit[e].broken
      /\ edit'[e].at = "done" /\ edit'[e].file = edit[e].file
  BY <1>1, EndedMoves
<1>3. PlaceInv(edit[e])'
  BY <1>1, <1>2 DEF PlaceInv
<1>4. \A g \in Files : ~Holds(edit'[e], g) /\ ~Pending(edit[e], g)
  BY <1>1, <1>2 DEF Holds, Open, Pending
<1>5. ASSUME NEW g \in Files \ met, Holds(edit[e], g), KnownBy(e, g)
      PROVE  KnownBy(e, g)'
  BY <1>1, <1>2, <1>4, <1>5 DEF KnownBy, Applied, OnlyMoves, Holds, Open
<1>6. ReadInv(e)'
  BY <1>2 DEF ReadInv
<1>7. mishaps' \in 0 .. MaxMishaps
  BY <1>1 DEF Mishap, EditTypes, AuthoringAssumption
<1> QED BY <1>1, <1>2, <1>3, <1>4, <1>5, <1>6, <1>7, PlaceMoves

\* A text that the validators refuse, or that they could not look at, is one to undo; a
\* text that they do not refuse is valid.
LEMMA RunValidatorsKeeps ==
  ASSUME AuthoringAssumption, AuthoringInv, NEW e \in Edits, RunValidators(e)
  PROVE  AuthoringInv'
<1> PICK f \in Files : f = edit[e].file
  BY DEF AuthoringInv, EditTypes, EditRecords
<1>1. /\ EditTypes /\ AloneInv /\ KnownInv /\ InvalidInv /\ HeadInv
      /\ PlaceInv(edit[e]) /\ edit[e] \in EditRecords
  BY DEF AuthoringInv, EditTypes
<1>2. edit[e].at = "validate" /\ UNCHANGED <<copy, head, accepted, met>>
  BY DEF RunValidators, Stands
<1>3. PICK works \in BOOLEAN :
        /\ IF works THEN UNCHANGED mishaps ELSE Mishap
        /\ Goes(e, [edit[e] EXCEPT !.at = "settle", !.refused = ~works \/ ~Verdict(e)])
  BY DEF RunValidators
<1> DEFINE refused == ~works \/ ~Verdict(e)
<1> DEFINE r == [edit[e] EXCEPT !.at = "settle", !.refused = refused]
<1>4. Goes(e, r) /\ refused \in BOOLEAN /\ mishaps' \in 0 .. MaxMishaps
  BY <1>1, <1>3 DEF Mishap, EditTypes, AuthoringAssumption
<1>5. refused \/ copy[f].valid
  BY <1>1 DEF Verdict, AuthoringAssumption
<1> HIDE DEF refused
<1>6. /\ r \in EditRecords /\ r.at = "settle" /\ r.refused = refused
      /\ r.file = f /\ r.broken = edit[e].broken /\ r.kind = edit[e].kind
      /\ r.text = edit[e].text /\ r.original = edit[e].original /\ r.dirty = edit[e].dirty
  BY <1>1, <1>4 DEF EditRecords
<1> HIDE DEF r
<1>7. edit' \in [Edits -> EditRecords] /\ edit'[e] = r /\ OnlyMoves(e)
  BY <1>1, <1>4, <1>6, GoesMoves
<1>8. PlaceInv(edit[e])'
  BY <1>1, <1>2, <1>6, <1>7 DEF PlaceInv
<1>9. \A g \in Files : Holds(edit'[e], g) => Holds(edit[e], g)
  BY <1>2, <1>6, <1>7 DEF Holds, Open
<1>10. ASSUME NEW g \in Files \ met, Holds(edit[e], g), KnownBy(e, g)
       PROVE  KnownBy(e, g)'
  BY <1>2, <1>6, <1>7, <1>10 DEF KnownBy, Applied, OnlyMoves, Holds, Open
<1>11. \A g \in Files : Excused(g) => Excused(g)'
  BY <1>1, <1>2, <1>7, ExcusesStay
<1>12. ReadInv(e)'
  BY <1>1, <1>2, <1>6, <1>7, <1>11 DEF ReadInv, InvalidInv
<1>13. \A g \in Files : ~copy[g].valid /\ Pending(edit[e], g) => Pending(edit[e], g)'
  BY <1>2, <1>5, <1>6, <1>7 DEF Pending, Holds, Open
<1> QED BY <1>1, <1>2, <1>4, <1>5, <1>6, <1>7, <1>8, <1>9, <1>10, <1>12, <1>13, PlaceMoves

\* Where the holder of a file changes it, in the working copy or in the commits.
LEMMA HolderMoves ==
  ASSUME AuthoringAssumption, AuthoringInv, NEW e \in Edits, NEW f \in Files,
         Holds(edit[e], f), OnlyMoves(e),
         edit' \in [Edits -> EditRecords], mishaps' \in 0 .. MaxMishaps, met' = met,
         copy' \in [Files -> Texts], head' \in [Files -> Texts],
         accepted' \in [Files -> Texts],
         \A g \in Files \ {f} : copy'[g] = copy[g] /\ accepted'[g] = accepted[g],
         PlaceInv(edit[e])',
         \A g \in Files : Holds(edit'[e], g) => g = f,
         f \notin met /\ KnownBy(e, f) => KnownBy(e, f)' \/ Interrupted(f)',
         copy'[f].valid \/ Explained(f)',
         \A g \in Files : head'[g].valid \/ g \in met,
         ReadInv(e)',
         edit'[e].at # "settle"
  PROVE  AuthoringInv'
<1>1. /\ EditTypes /\ AloneInv /\ KnownInv /\ InvalidInv /\ HeadInv
      /\ \A d \in Edits : PlaceInv(edit[d])
  BY DEF AuthoringInv
<1>2. edit[e].at \notin {"done", "died"} /\ \A g \in Files : Holds(edit[e], g) => g = f
  BY DEF Holds, Open
<1>3. EditTypes'
  BY <1>1 DEF EditTypes
<1>4. (\A d \in Edits : PlaceInv(edit[d]))'
  BY <1>1 DEF PlaceInv, OnlyMoves
<1>5. AloneInv'
  BY <1>1, AloneStays
<1>6. KnownInv'
  <2>1. ASSUME f \notin met, ~(Interrupted(f)')
        PROVE  KnownBy(e, f)'
    <3>1. ~Interrupted(f)
      BY <1>1, <1>2, <2>1, ExcusesStay
    <3> QED BY <1>1, <2>1, <3>1, KnownOfHolder
  <2>2. \A g \in Files \ {f} : ~Holds(edit[e], g) /\ ~Holds(edit'[e], g)
    BY <1>2
  <2> QED BY <1>1, <1>2, <2>1, <2>2, KnownStays
<1>7. InvalidInv'
  <2>1. ASSUME NEW g \in Files \ {f}, ~copy'[g].valid
        PROVE  Explained(g)'
    <3>1. Explained(g) /\ ~Pending(edit[e], g)
      BY <1>1, <1>2, <2>1 DEF InvalidInv, Pending
    <3> QED BY <1>1, <1>2, <3>1, ExplainedStays
  <2> QED BY <1>1, <1>2, <2>1, InvalidStays
<1>8. HeadInv'
  BY <1>1, HeadStays
<1> QED BY <1>3, <1>4, <1>5, <1>6, <1>7, <1>8 DEF AuthoringInv

LEMMA WriteKeeps ==
  ASSUME AuthoringAssumption, AuthoringInv, NEW e \in Edits, Write(e)
  PROVE  AuthoringInv'
<1> PICK f \in Files : f = edit[e].file
  BY DEF AuthoringInv, EditTypes, EditRecords
<1>1. /\ EditTypes /\ InvalidInv /\ HeadInv
      /\ PlaceInv(edit[e]) /\ edit[e] \in EditRecords /\ edit[e].text \in Texts
  BY DEF AuthoringInv, EditTypes, EditRecords
<1>2. /\ Stands(e, "write") /\ edit[e].at = "write" /\ UNCHANGED <<head, accepted, met>>
      /\ Holds(edit[e], f)
  BY DEF Write, Stands, Holds, Open
<1>3. CASE Mishap /\ Ended(e, TRUE) /\ UNCHANGED copy
  BY <1>2, <1>3, WriteFailsKeeps
<1>4. CASE /\ copy' = [copy EXCEPT ![edit[e].file] = edit[e].text]
           /\ Goes(e, [edit[e] EXCEPT !.at = "validate"])
           /\ UNCHANGED mishaps
  <2> DEFINE r == [edit[e] EXCEPT !.at = "validate"]
  <2>1. /\ r \in EditRecords /\ r.at = "validate" /\ r.file = f /\ r.text = edit[e].text
        /\ r.original = edit[e].original /\ r.dirty = edit[e].dirty
        /\ r.broken = edit[e].broken /\ r.kind = edit[e].kind /\ Goes(e, r)
    BY <1>1, <1>4 DEF EditRecords
  <2> HIDE DEF r
  <2>2. edit' \in [Edits -> EditRecords] /\ edit'[e] = r /\ OnlyMoves(e)
    BY <1>1, <2>1, GoesMoves
  <2>3. /\ copy' \in [Files -> Texts] /\ copy'[f] = edit[e].text
        /\ \A g \in Files \ {f} : copy'[g] = copy[g]
    BY <1>1, <1>4 DEF EditTypes
  <2>4. PlaceInv(edit[e])'
    BY <1>1, <1>2, <2>1, <2>2 DEF PlaceInv
  <2>5. Holds(edit'[e], f) /\ \A g \in Files : Holds(edit'[e], g) => g = f
    BY <2>1, <2>2 DEF Holds, Open
  <2>6. KnownBy(e, f) => KnownBy(e, f)'
    BY <1>2, <2>1, <2>2, <2>3, <2>5 DEF KnownBy, Applied, OnlyMoves, Holds, Open
  <2>7. Explained(f)'
    BY <2>1, <2>2, <2>3, <2>5 DEF Explained, Pending, Holds, Open
  <2>8. ReadInv(e)'
    BY <1>1, <1>2, <2>1, <2>2, ExcusesStay DEF ReadInv, InvalidInv
  <2>9. /\ mishaps' \in 0 .. MaxMishaps /\ edit'[e].at # "settle"
        /\ head' \in [Files -> Texts] /\ accepted' \in [Files -> Texts]
        /\ \A g \in Files : head'[g].valid \/ g \in met
    BY <1>1, <1>2, <1>4, <2>1, <2>2 DEF EditTypes, HeadInv
  <2> QED BY <1>2, <2>2, <2>3, <2>4, <2>5, <2>6, <2>7, <2>8, <2>9, HolderMoves
<1> QED BY <1>3, <1>4 DEF Write

\* The original comes back, and with it what made it refused; or it does not, and the
\* request is broken.
LEMMA RestoreKeeps ==
  ASSUME AuthoringAssumption, AuthoringInv, NEW e \in Edits, Restore(e)
  PROVE  AuthoringInv'
<1> PICK f \in Files : f = edit[e].file
  BY DEF AuthoringInv, EditTypes, EditRecords
<1>1. /\ EditTypes /\ InvalidInv /\ HeadInv
      /\ PlaceInv(edit[e]) /\ edit[e] \in EditRecords /\ edit[e].original \in Texts
  BY DEF AuthoringInv, EditTypes, EditRecords
<1>2. /\ edit[e].at = "settle" /\ UNCHANGED <<head, accepted, met>> /\ Undone(e)
      /\ Holds(edit[e], f)
  BY DEF Restore, Stands, Holds, Open
<1>3. CASE /\ copy' = [copy EXCEPT ![edit[e].file] = edit[e].original]
           /\ Ended(e, edit[e].refused)
           /\ UNCHANGED mishaps
  <2>1. edit[e].refused \in BOOLEAN /\ (edit[e].refused \/ edit[e].kind # "node")
    BY <1>1, <1>2 DEF Undone, EditRecords
  <2>2. /\ edit' \in [Edits -> EditRecords] /\ OnlyMoves(e)
        /\ edit'[e].dirty = edit[e].dirty /\ edit'[e].broken = edit[e].broken
        /\ edit'[e].at = "done" /\ edit'[e].file = f
    BY <1>1, <1>3, <2>1, EndedMoves
  <2>3. /\ copy' \in [Files -> Texts] /\ copy'[f] = edit[e].original
        /\ \A g \in Files \ {f} : copy'[g] = copy[g]
    BY <1>1, <1>3 DEF EditTypes
  <2>4. PlaceInv(edit[e])'
    BY <1>1, <2>2 DEF PlaceInv
  <2>5. \A g \in Files : ~Holds(edit'[e], g)
    BY <2>2 DEF Holds, Open
  <2>6. KnownBy(e, f) => KnownBy(e, f)'
    BY <1>2, <2>2, <2>3, <2>5 DEF KnownBy, Applied, OnlyMoves, Holds, Open
  <2>7. copy'[f].valid \/ Explained(f)'
    <3>1. edit[e].original.valid \/ edit[e].dirty \/ Excused(f)
      BY <1>1, <1>2 DEF InvalidInv
    <3>2. edit[e].dirty \/ Excused(f) => Excused(f)'
      BY <1>1, <1>2, <2>2, ExcusesStay DEF Excused
    <3> QED BY <2>3, <3>1, <3>2 DEF Explained
  <2>8. ReadInv(e)'
    BY <2>2 DEF ReadInv
  <2>9. /\ mishaps' \in 0 .. MaxMishaps /\ edit'[e].at # "settle"
        /\ head' \in [Files -> Texts] /\ accepted' \in [Files -> Texts]
        /\ \A g \in Files : head'[g].valid \/ g \in met
    BY <1>1, <1>2, <1>3, <2>2 DEF EditTypes, HeadInv
  <2> QED BY <1>2, <2>2, <2>3, <2>4, <2>5, <2>6, <2>7, <2>8, <2>9, HolderMoves
<1>4. CASE /\ Mishap
           /\ Goes(e, [edit[e] EXCEPT !.at = "done", !.refused = TRUE, !.broken = TRUE])
           /\ UNCHANGED copy
  <2> DEFINE r == [edit[e] EXCEPT !.at = "done", !.refused = TRUE, !.broken = TRUE]
  <2>1. /\ r \in EditRecords /\ r.at = "done" /\ r.file = f /\ r.broken
        /\ Goes(e, r)
    BY <1>1, <1>4 DEF EditRecords
  <2> HIDE DEF r
  <2>2. edit' \in [Edits -> EditRecords] /\ edit'[e] = r /\ OnlyMoves(e)
    BY <1>1, <2>1, GoesMoves
  <2>3. PlaceInv(edit[e])'
    BY <2>1, <2>2 DEF PlaceInv
  <2>4. Interrupted(f)' /\ \A g \in Files : Holds(edit[e], g) => g = f
    BY <2>1, <2>2 DEF Interrupted, Holds
  <2>5. \A g \in Files : ~Holds(edit'[e], g)
    BY <2>1, <2>2 DEF Holds, Open
  <2>6. \A g \in Files : Pending(edit[e], g) => Excused(g)'
    BY <2>4 DEF Pending, Excused
  <2>7. ReadInv(e)' /\ edit'[e].at # "settle"
    BY <2>1, <2>2 DEF ReadInv
  <2>8. mishaps' \in 0 .. MaxMishaps
    BY <1>1, <1>4 DEF Mishap, EditTypes, AuthoringAssumption
  <2>9. \A g \in Files : Holds(edit[e], g) => Interrupted(g)'
    BY <2>4
  <2> QED BY <1>2, <1>4, <2>2, <2>3, <2>5, <2>6, <2>7, <2>8, <2>9, PlaceMoves
<1> QED BY <1>3, <1>4 DEF Restore

\* What is committed is what the file holds, which the validators saw, or the file was
\* met.
LEMMA CommitKeeps ==
  ASSUME AuthoringAssumption, AuthoringInv, NEW e \in Edits, Commit(e)
  PROVE  AuthoringInv'
<1> PICK f \in Files : f = edit[e].file
  BY DEF AuthoringInv, EditTypes, EditRecords
<1>1. /\ EditTypes /\ InvalidInv /\ HeadInv
      /\ PlaceInv(edit[e]) /\ edit[e] \in EditRecords /\ edit[e].text \in Texts
  BY DEF AuthoringInv, EditTypes, EditRecords
<1>2. /\ edit[e].at = "settle" /\ UNCHANGED <<copy, met>> /\ ~Undone(e)
      /\ Holds(edit[e], f) /\ Ended(e, FALSE)
      /\ accepted' = [accepted EXCEPT ![f] = edit[e].text]
      /\ \/ head' = [head EXCEPT ![f] = copy[f]] /\ UNCHANGED mishaps
         \/ Mishap /\ UNCHANGED head
  BY DEF Commit, Stands, Holds, Open
<1>3. /\ edit' \in [Edits -> EditRecords] /\ OnlyMoves(e)
      /\ edit'[e].dirty = edit[e].dirty /\ edit'[e].broken = edit[e].broken
      /\ \/ edit'[e].at = "done" /\ edit'[e].file = edit[e].file
         \/ /\ edit'[e].at = "toggle" /\ edit'[e].kind = "toggle"
            /\ edit'[e].file = Fragment
  BY <1>1, <1>2, EndedMoves
<1>4. PlaceInv(edit[e])'
  BY <1>1, <1>2, <1>3 DEF PlaceInv
<1>5. \A g \in Files : ~Holds(edit'[e], g) /\ ~Pending(edit[e], g)
  BY <1>2, <1>3 DEF Holds, Open, Pending, Undone
<1>6. /\ accepted' \in [Files -> Texts] /\ accepted'[f] = edit[e].text
      /\ \A g \in Files \ {f} : accepted'[g] = accepted[g]
  BY <1>1, <1>2 DEF EditTypes
<1>7. KnownBy(e, f) => KnownBy(e, f)'
  BY <1>2, <1>3, <1>5, <1>6 DEF KnownBy, OnlyMoves, Holds, Open
<1>8. copy'[f].valid \/ Explained(f)'
  BY <1>1, <1>2, <1>3, <1>5, ExplainedStays DEF InvalidInv
<1>9. head' \in [Files -> Texts] /\ \A g \in Files : head'[g].valid \/ g \in met
  <2>1. copy[f] \in Texts /\ (copy[f].valid \/ f \in met)
    BY <1>1, <1>2 DEF HeadInv, Undone, EditTypes
  <2> QED BY <1>1, <1>2, <2>1 DEF HeadInv, EditTypes
<1>10. ReadInv(e)' /\ edit'[e].at # "settle"
  BY <1>3 DEF ReadInv
<1>11. mishaps' \in 0 .. MaxMishaps
  BY <1>1, <1>2 DEF Mishap, EditTypes, AuthoringAssumption
<1>12. copy' \in [Files -> Texts] /\ \A g \in Files : copy'[g] = copy[g]
  BY <1>1, <1>2 DEF EditTypes
<1> QED
  BY <1>2, <1>3, <1>4, <1>5, <1>6, <1>7, <1>8, <1>9, <1>10, <1>11, <1>12, HolderMoves

\* The toggle comes to the fragment with what it read there.
LEMMA ReadFragmentKeeps ==
  ASSUME AuthoringAssumption, AuthoringInv, NEW e \in Edits, ReadFragment(e)
  PROVE  AuthoringInv'
<1> PICK f \in Files : f = Fragment
  BY DEF AuthoringAssumption
<1>1. /\ EditTypes /\ AloneInv /\ KnownInv /\ InvalidInv /\ HeadInv
      /\ edit[e] \in EditRecords /\ copy[f] \in Texts
      /\ \A d \in Edits : PlaceInv(edit[d])
  BY DEF AuthoringInv, EditTypes
<1>2. /\ edit[e].at = "toggle" /\ edit[e].file = f /\ edit[e].kind = "toggle"
      /\ Comes(e, f) /\ UNCHANGED <<copy, head, mishaps, accepted>>
  BY <1>1 DEF ReadFragment, Stands, PlaceInv
<1> DEFINE place == IF copy[f] = Torn THEN "done" ELSE "truncate"
<1> DEFINE text == [copy[f] EXCEPT !.over = TRUE]
<1> DEFINE stale == edit[e].dirty \/ Provisional(f)
<1> DEFINE r == [edit[e] EXCEPT !.at = place, !.text = text, !.dirty = stale]
<1>3. Goes(e, r)
  BY DEF ReadFragment
<1>4. /\ place \in {"done", "truncate"} /\ stale \in BOOLEAN
      /\ copy[f] = Torn => place = "done"
      /\ Provisional(f) => stale
  BY <1>1 DEF Provisional, EditRecords
<1>5. text \in Texts /\ text.valid = copy[f].valid
  BY <1>1 DEF Texts
<1> HIDE DEF place, text, stale
<1>6. /\ r \in EditRecords /\ r.at = place /\ r.text = text /\ r.dirty = stale
      /\ r.file = f /\ r.kind = "toggle" /\ r.broken = edit[e].broken
  BY <1>1, <1>2, <1>4, <1>5 DEF EditRecords
<1> HIDE DEF r
<1>7. edit' \in [Edits -> EditRecords] /\ edit'[e] = r /\ OnlyMoves(e)
  BY <1>1, <1>3, <1>6, GoesMoves
<1>8. met \subseteq met' /\ met' \subseteq Files
  BY <1>1, <1>2 DEF Comes, EditTypes
<1>9. f \in met' \/ \A d \in Edits \ {e} : ~Holds(edit[d], f)
  BY <1>2 DEF Comes, Busy, Settled, Holds, Open
<1>10. EditTypes'
  BY <1>1, <1>2, <1>7, <1>8 DEF EditTypes
<1>11. (\A d \in Edits : PlaceInv(edit[d]))'
  BY <1>1, <1>2, <1>4, <1>6, <1>7 DEF PlaceInv, OnlyMoves
<1>12. AloneInv'
  BY <1>1, <1>6, <1>7, <1>8, <1>9, AloneStays DEF Holds
<1>13. KnownInv'
  <2>1. ASSUME f \notin met', ~(Interrupted(f)')
        PROVE  KnownBy(e, f)'
    <3>1. ~Interrupted(f)
      BY <1>1, <1>2, <1>7, <2>1, ExcusesStay
    <3>2. \A d \in Edits : ~Holds(edit[d], f)
      BY <1>2, <1>9, <2>1 DEF Holds, Open
    <3>3. copy[f] = accepted[f]
      BY <1>1, <1>8, <2>1, <3>1, <3>2, KnownOfComer
    <3> QED BY <1>2, <1>4, <1>6, <1>7, <3>2, <3>3 DEF KnownBy, OnlyMoves, Holds, Open
  <2>2. \A g \in Files \ {f} : ~Holds(edit[e], g) /\ ~Holds(edit'[e], g)
    BY <1>2, <1>6, <1>7 DEF Holds, Open
  <2> QED BY <1>1, <1>2, <1>7, <1>8, <2>1, <2>2, KnownStays
<1>14. InvalidInv'
  <2>1. ASSUME NEW g \in Files, ~copy'[g].valid
        PROVE  Explained(g)'
    BY <1>1, <1>2, <1>7, <2>1, ExplainedStays DEF InvalidInv, Pending, Holds, Open
  <2>2. ASSUME place = "truncate", ~copy[f].valid, ~stale
        PROVE  Excused(f)'
    <3>1. ASSUME NEW d \in Edits, Pending(edit[d], f)
          PROVE  FALSE
      BY <1>4, <2>2, <3>1 DEF Pending, Holds, Open, Provisional, Busy, Settled
    <3>2. Excused(f)
      BY <1>1, <2>2, <3>1 DEF InvalidInv, Explained
    <3> QED BY <1>1, <1>2, <1>7, <3>2, ExcusesStay
  <2>3. ReadInv(e)'
    BY <1>4, <1>5, <1>6, <1>7, <2>2 DEF ReadInv
  <2> QED BY <1>1, <1>2, <1>7, <2>1, <2>3, InvalidStays
<1>15. HeadInv'
  BY <1>1, <1>2, <1>4, <1>6, <1>7, <1>8, HeadStays DEF HeadInv
<1> QED BY <1>10, <1>11, <1>12, <1>13, <1>14, <1>15 DEF AuthoringInv

LEMMA TruncateFragmentKeeps ==
  ASSUME AuthoringAssumption, AuthoringInv, NEW e \in Edits, TruncateFragment(e)
  PROVE  AuthoringInv'
<1> PICK f \in Files : f = Fragment
  BY DEF AuthoringAssumption
<1>1. /\ EditTypes /\ InvalidInv /\ HeadInv
      /\ PlaceInv(edit[e]) /\ edit[e] \in EditRecords
  BY DEF AuthoringInv, EditTypes
<1>2. /\ edit[e].at = "truncate" /\ edit[e].file = f /\ edit[e].kind = "toggle"
      /\ UNCHANGED <<head, mishaps, accepted, met>> /\ Holds(edit[e], f)
      /\ copy' = [copy EXCEPT ![f] = Torn]
  BY <1>1 DEF TruncateFragment, Stands, PlaceInv, Holds, Open
<1> DEFINE r == [edit[e] EXCEPT !.at = "rewrite"]
<1>3. /\ r \in EditRecords /\ r.at = "rewrite" /\ r.file = f /\ r.text = edit[e].text
      /\ r.dirty = edit[e].dirty /\ r.broken = edit[e].broken /\ r.kind = "toggle"
      /\ Goes(e, r)
  BY <1>1, <1>2 DEF EditRecords, TruncateFragment
<1> HIDE DEF r
<1>4. edit' \in [Edits -> EditRecords] /\ edit'[e] = r /\ OnlyMoves(e)
  BY <1>1, <1>3, GoesMoves
<1>5. /\ copy' \in [Files -> Texts] /\ copy'[f] = Torn
      /\ \A g \in Files \ {f} : copy'[g] = copy[g]
  <2>1. Torn \in Texts
    BY DEF Torn, Written, Texts
  <2> QED BY <1>1, <1>2, <2>1 DEF EditTypes
<1>6. PlaceInv(edit[e])'
  BY <1>1, <1>2, <1>3, <1>4 DEF PlaceInv
<1>7. Holds(edit'[e], f) /\ \A g \in Files : Holds(edit'[e], g) => g = f
  BY <1>3, <1>4 DEF Holds, Open
<1>8. KnownBy(e, f) => KnownBy(e, f)'
  BY <1>3, <1>4, <1>7 DEF KnownBy, Applied, OnlyMoves, Holds, Open
<1>9. Explained(f)'
  BY <1>3, <1>4, <1>5, <1>7 DEF Explained, Pending, Holds, Open
<1>10. ReadInv(e)'
  BY <1>1, <1>2, <1>3, <1>4, ExcusesStay DEF ReadInv, InvalidInv
<1>11. /\ mishaps' \in 0 .. MaxMishaps /\ edit'[e].at # "settle"
       /\ head' \in [Files -> Texts] /\ accepted' \in [Files -> Texts]
       /\ \A g \in Files : head'[g].valid \/ g \in met
  BY <1>1, <1>2, <1>3, <1>4 DEF EditTypes, HeadInv
<1> QED BY <1>2, <1>4, <1>5, <1>6, <1>7, <1>8, <1>9, <1>10, <1>11, HolderMoves

\* The fragment is whole again, or the request that tore it is broken.
LEMMA WriteFragmentKeeps ==
  ASSUME AuthoringAssumption, AuthoringInv, NEW e \in Edits, WriteFragment(e)
  PROVE  AuthoringInv'
<1> PICK f \in Files : f = Fragment
  BY DEF AuthoringAssumption
<1>1. /\ EditTypes /\ InvalidInv /\ HeadInv
      /\ PlaceInv(edit[e]) /\ edit[e] \in EditRecords /\ edit[e].text \in Texts
  BY DEF AuthoringInv, EditTypes, EditRecords
<1>2. /\ edit[e].at = "rewrite" /\ edit[e].file = f /\ edit[e].kind = "toggle"
      /\ UNCHANGED <<head, met>> /\ Holds(edit[e], f)
  BY <1>1 DEF WriteFragment, Stands, PlaceInv, Holds, Open
<1>3. CASE /\ copy' = [copy EXCEPT ![Fragment] = edit[e].text]
           /\ accepted' = [accepted EXCEPT ![Fragment] = edit[e].text]
           /\ Goes(e, [edit[e] EXCEPT !.at = "done"])
           /\ UNCHANGED mishaps
  <2> DEFINE r == [edit[e] EXCEPT !.at = "done"]
  <2>1. /\ r \in EditRecords /\ r.at = "done" /\ r.file = f /\ r.dirty = edit[e].dirty
        /\ Goes(e, r)
    BY <1>1, <1>2, <1>3 DEF EditRecords
  <2> HIDE DEF r
  <2>2. edit' \in [Edits -> EditRecords] /\ edit'[e] = r /\ OnlyMoves(e)
    BY <1>1, <2>1, GoesMoves
  <2>3. /\ copy' \in [Files -> Texts] /\ copy'[f] = edit[e].text
        /\ accepted' \in [Files -> Texts] /\ accepted'[f] = edit[e].text
        /\ \A g \in Files \ {f} : copy'[g] = copy[g] /\ accepted'[g] = accepted[g]
    BY <1>1, <1>3 DEF EditTypes
  <2>4. PlaceInv(edit[e])' /\ \A g \in Files : ~Holds(edit'[e], g)
    BY <2>1, <2>2 DEF PlaceInv, Holds, Open
  <2>5. KnownBy(e, f) => KnownBy(e, f)'
    BY <2>2, <2>3, <2>4 DEF KnownBy, OnlyMoves, Holds, Open
  <2>6. copy'[f].valid \/ Explained(f)'
    <3>1. edit[e].text.valid \/ edit[e].dirty \/ Excused(f)
      BY <1>1, <1>2 DEF InvalidInv
    <3>2. edit[e].dirty \/ Excused(f) => Excused(f)'
      BY <1>1, <1>2, <2>1, <2>2, ExcusesStay DEF Excused
    <3> QED BY <2>3, <3>1, <3>2 DEF Explained
  <2>7. ReadInv(e)' /\ edit'[e].at # "settle"
    BY <2>1, <2>2 DEF ReadInv
  <2>8. /\ mishaps' \in 0 .. MaxMishaps /\ head' \in [Files -> Texts]
        /\ \A g \in Files : head'[g].valid \/ g \in met
    BY <1>1, <1>2, <1>3 DEF EditTypes, HeadInv
  <2> QED BY <1>2, <2>2, <2>3, <2>4, <2>5, <2>6, <2>7, <2>8, HolderMoves
<1>4. CASE /\ Mishap
           /\ Goes(e, [edit[e] EXCEPT !.at = "done", !.broken = TRUE])
           /\ UNCHANGED <<copy, accepted>>
  <2> DEFINE r == [edit[e] EXCEPT !.at = "done", !.broken = TRUE]
  <2>1. /\ r \in EditRecords /\ r.at = "done" /\ r.file = f /\ r.broken
        /\ Goes(e, r)
    BY <1>1, <1>2, <1>4 DEF EditRecords
  <2> HIDE DEF r
  <2>2. edit' \in [Edits -> EditRecords] /\ edit'[e] = r /\ OnlyMoves(e)
    BY <1>1, <2>1, GoesMoves
  <2>3. PlaceInv(edit[e])'
    BY <2>1, <2>2 DEF PlaceInv
  <2>4. \A g \in Files : Holds(edit[e], g) => Interrupted(g)'
    BY <1>2, <2>1, <2>2 DEF Interrupted, Holds
  <2>5. \A g \in Files : ~Holds(edit'[e], g)
    BY <2>1, <2>2 DEF Holds, Open
  <2>6. \A g \in Files : Pending(edit[e], g) => Excused(g)'
    BY <2>4 DEF Pending, Excused
  <2>7. ReadInv(e)' /\ edit'[e].at # "settle"
    BY <2>1, <2>2 DEF ReadInv
  <2>8. mishaps' \in 0 .. MaxMishaps
    BY <1>1, <1>4 DEF Mishap, EditTypes, AuthoringAssumption
  <2> QED BY <1>2, <1>4, <2>2, <2>3, <2>4, <2>5, <2>6, <2>7, <2>8, PlaceMoves
<1> QED BY <1>3, <1>4 DEF WriteFragment

\* A death breaks whoever had applied a text; nobody is left busy.
LEMMA DiesKeeps ==
  ASSUME AuthoringAssumption, AuthoringInv, Dies
  PROVE  AuthoringInv'
<1>1. /\ EditTypes /\ KnownInv /\ InvalidInv /\ HeadInv
      /\ \A d \in Edits : PlaceInv(edit[d])
      /\ UNCHANGED <<copy, head, accepted, met>>
  BY DEF AuthoringInv, Dies
<1> DEFINE broken(d) == Stands(d, "validate") \/ Stands(d, "settle") \/ Stands(d, "rewrite")
<1> DEFINE died(d) == [edit[d] EXCEPT !.at = "died", !.broken = broken(d)]
<1>2. edit' = [d \in Edits |-> IF Settled(d) THEN edit[d] ELSE died(d)]
  BY DEF Dies
<1>3. ASSUME NEW d \in Edits
      PROVE  /\ died(d) \in EditRecords /\ died(d).at = "died" /\ died(d).file = edit[d].file
             /\ died(d).broken = Applied(edit[d])
  <2>1. edit[d] \in EditRecords /\ broken(d) \in BOOLEAN /\ broken(d) = Applied(edit[d])
    BY <1>1 DEF EditTypes, Applied, Stands
  <2> HIDE DEF broken
  <2> QED BY <2>1 DEF EditRecords
<1> HIDE DEF died
<1>4. ASSUME NEW d \in Edits
      PROVE  /\ Settled(d) => edit'[d] = edit[d]
             /\ ~Settled(d) => edit'[d] = died(d)
             /\ Settled(d) = ~Open(edit[d])
             /\ edit'[d] \in EditRecords /\ ~Open(edit'[d])
  BY <1>1, <1>2, <1>3 DEF Settled, Open, EditTypes
<1>5. EditTypes'
  <2>1. mishaps' \in 0 .. MaxMishaps
    <3>1. mishaps < MaxMishaps /\ mishaps' = mishaps + 1
      BY DEF Dies, Mishap
    <3> QED BY <1>1, <3>1 DEF EditTypes, AuthoringAssumption
  <2>2. edit' \in [Edits -> EditRecords]
    BY <1>2, <1>4
  <2> QED BY <1>1, <2>1, <2>2 DEF EditTypes
<1>6. (\A d \in Edits : PlaceInv(edit[d]))'
  BY <1>1, <1>3, <1>4 DEF PlaceInv
<1>7. AloneInv'
  BY <1>4 DEF AloneInv, Holds, Open
<1>8. ASSUME NEW f \in Files
      PROVE  /\ Interrupted(f) => Interrupted(f)'
             /\ \A d \in Edits : Holds(edit[d], f) /\ Applied(edit[d]) => Interrupted(f)'
             /\ Excused(f) => Excused(f)'
  <2>1. ASSUME NEW d \in Edits, edit[d].file = f, edit[d].broken
        PROVE  Interrupted(f)'
    <3>1. edit'[d] = edit[d]
      BY <1>1, <1>4, <2>1 DEF PlaceInv, Open
    <3> QED BY <2>1, <3>1 DEF Interrupted
  <2>2. ASSUME NEW d \in Edits, Holds(edit[d], f), Applied(edit[d])
        PROVE  Interrupted(f)'
    BY <1>3, <1>4, <2>2 DEF Holds, Interrupted
  <2>3. ASSUME NEW d \in Edits, edit[d].at \in {"done", "died"}, edit[d].dirty,
               edit[d].file = f
        PROVE  Excused(f)'
    <3>1. edit'[d] = edit[d]
      BY <1>4, <2>3 DEF Open
    <3> QED BY <2>3, <3>1 DEF Excused
  <2> QED BY <2>1, <2>2, <2>3 DEF Excused, Interrupted
<1>9. KnownInv'
  <2> SUFFICES ASSUME NEW f \in Files \ met, ~(Interrupted(f)')
               PROVE  copy[f] = accepted[f]
    BY <1>1, <1>4 DEF KnownInv, Known, Holds, Open
  <2> QED BY <1>1, <1>8 DEF KnownInv, Known
<1>10. InvalidInv'
  <2>1. ASSUME NEW f \in Files, ~copy[f].valid
        PROVE  Excused(f)'
    <3>1. ASSUME NEW d \in Edits, Pending(edit[d], f)
          PROVE  Interrupted(f)'
      BY <1>8, <3>1 DEF Pending, Applied
    <3> QED BY <1>1, <1>8, <2>1, <3>1 DEF InvalidInv, Explained, Excused
  <2>2. \A d \in Edits : edit'[d].at \in {"new", "done", "died"}
    BY <1>4 DEF Open
  <2> QED BY <1>1, <2>1, <2>2 DEF InvalidInv, Explained
<1>11. HeadInv'
  BY <1>1, <1>4 DEF HeadInv, Open
<1> QED BY <1>5, <1>6, <1>7, <1>9, <1>10, <1>11 DEF AuthoringInv

-----------------------------------------------------------------------------
LEMMA AuthoringInitially == ASSUME AuthoringAssumption, AuthoringInit PROVE AuthoringInv
<1>1. /\ NewEdit \in EditRecords /\ NewEdit.at = "new" /\ ~NewEdit.dirty /\ ~NewEdit.broken
  BY DEF AuthoringAssumption, NewEdit, EditRecords, Texts, Initial, Absent, Written
<1>2. Initial \in Texts /\ Initial.valid
  BY DEF Initial, Written, Texts
<1>3. \A d \in Edits : edit[d] = NewEdit
  BY DEF AuthoringInit
<1>4. EditTypes
  BY <1>1, <1>2 DEF AuthoringInit, EditTypes, AuthoringAssumption
<1>5. \A d \in Edits : PlaceInv(edit[d])
  BY <1>1, <1>3 DEF PlaceInv
<1>6. AloneInv /\ KnownInv
  BY <1>1, <1>3 DEF AuthoringInit, AloneInv, KnownInv, Known, Holds, Open
<1>7. InvalidInv /\ HeadInv
  BY <1>1, <1>2, <1>3 DEF AuthoringInit, InvalidInv, HeadInv
<1> QED BY <1>4, <1>5, <1>6, <1>7 DEF AuthoringInv

\* The invariant of the edit routes: what every file holds is what its last accepted
\* change left, or somebody is on the way there, or a death, a failed restoration or
\* two requests that met on it explain it.
THEOREM AuthoringInduction == AuthoringSpec => []AuthoringInv
<1>1. AuthoringInit => AuthoringInv
  BY AuthoringAssumption, AuthoringInitially
<1>2. AuthoringInv /\ [AuthoringNext]_authoringVars => AuthoringInv'
  <2> SUFFICES ASSUME AuthoringInv, [AuthoringNext]_authoringVars PROVE AuthoringInv'
    OBVIOUS
  <2> USE AuthoringAssumption
  <2>1. ASSUME NEW e \in Edits, StartEdit(e) PROVE AuthoringInv'
    BY <2>1, StartEditKeeps
  <2>2. ASSUME NEW e \in Edits, StartNode(e) PROVE AuthoringInv'
    BY <2>2, StartNodeKeeps
  <2>3. ASSUME NEW e \in Edits, ReadOriginal(e) PROVE AuthoringInv'
    BY <2>3, ReadOriginalKeeps
  <2>4. ASSUME NEW e \in Edits, Write(e) PROVE AuthoringInv'
    BY <2>4, WriteKeeps
  <2>5. ASSUME NEW e \in Edits, RunValidators(e) PROVE AuthoringInv'
    BY <2>5, RunValidatorsKeeps
  <2>6. ASSUME NEW e \in Edits, Restore(e) PROVE AuthoringInv'
    BY <2>6, RestoreKeeps
  <2>7. ASSUME NEW e \in Edits, Commit(e) PROVE AuthoringInv'
    BY <2>7, CommitKeeps
  <2>8. ASSUME NEW e \in Edits, ReadFragment(e) PROVE AuthoringInv'
    BY <2>8, ReadFragmentKeeps
  <2>9. ASSUME NEW e \in Edits, TruncateFragment(e) PROVE AuthoringInv'
    BY <2>9, TruncateFragmentKeeps
  <2>10. ASSUME NEW e \in Edits, WriteFragment(e) PROVE AuthoringInv'
    BY <2>10, WriteFragmentKeeps
  <2>11. CASE Dies
    BY <2>11, DiesKeeps
  <2>12. CASE UNCHANGED authoringVars
    BY <2>12 DEF authoringVars, AuthoringInv, EditTypes, PlaceInv, AloneInv, KnownInv,
                 Known, InvalidInv, HeadInv, Explained, Excused, Interrupted, Pending,
                 Holds, Open, Applied
  <2> QED
    BY <2>1, <2>2, <2>3, <2>4, <2>5, <2>6, <2>7, <2>8, <2>9, <2>10, <2>11, <2>12
    DEF AuthoringNext
<1> QED BY <1>1, <1>2, PTL DEF AuthoringSpec

\* EditsSound: once the requests are over, whatever order they came in and whoever of
\* them failed or died, a file holds its last accepted text unless two requests met on
\* it or one was interrupted; a refused text is left by nothing else; and the last
\* commit holds one only of a file that was met.
THEOREM EditsAreSound == AuthoringSpec => []EditsSound
<1>1. AuthoringInv => EditsSound
  <2> SUFFICES ASSUME AuthoringInv, AtRest, NEW f \in Files
               PROVE  /\ copy[f] # accepted[f] => f \in met \/ Interrupted(f)
                      /\ ~copy[f].valid =>
                           \/ Interrupted(f)
                           \/ \E e \in Edits : edit[e].file = f /\ edit[e].dirty
                      /\ ~head[f].valid => f \in met
    BY DEF EditsSound
  <2>1. \A e \in Edits : ~Holds(edit[e], f)
    BY DEF AtRest, Settled, Holds, Open
  <2>2. copy[f] # accepted[f] => f \in met \/ Interrupted(f)
    BY <2>1 DEF AuthoringInv, KnownInv, Known
  <2>3. ~copy[f].valid => Excused(f)
    BY <2>1 DEF AuthoringInv, InvalidInv, Explained, Pending
  <2>4. ~head[f].valid => f \in met
    BY DEF AuthoringInv, HeadInv
  <2> QED BY <2>2, <2>3, <2>4 DEF Excused
<1> QED BY <1>1, AuthoringInduction, PTL
=============================================================================
