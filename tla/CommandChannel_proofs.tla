------------------------ MODULE CommandChannel_proofs -------------------------
(***************************************************************************)
(* Proofs about CommandChannel, for any number of workers and lifecycles   *)
(* and any length of the table: its types, that no process acts twice on a *)
(* command, and that an acknowledged skip has skipped its lifecycle.       *)
(***************************************************************************)
EXTENDS CommandChannel, FiniteSetTheorems, SequenceTheorems, WellFoundedInduction, TLAPS

-----------------------------------------------------------------------------
(* The inductive invariant *)

\* What a worker has acted on is what it remembers, and it is not in its cache.
EffectInv ==
  \A w \in Workers :
    /\ cache[w] \cap consumed[w] = {}
    /\ \A i \in Ids : effects[w][i] = IF i \in consumed[w] THEN 1 ELSE 0

\* A skip names a lifecycle.
TargetInv ==
  \A i \in DOMAIN rows : rows[i].action = "skip_scenario" => rows[i].target \in Lifecycles

IInv == TypeOK /\ EffectInv /\ TargetInv /\ AckMeansSkipped

\* A nonempty set of naturals has its minimum: the intervals below its members are
\* finite sets, and strict inclusion of those is well founded.
LEMMA MinIsIn ==
  ASSUME NEW S \in SUBSET Nat, S # {}
  PROVE  Min(S) \in S
<1> DEFINE Below == {1..m : m \in S}
<1>1. Below \subseteq FiniteSubsetsOf(Nat) /\ Below # {}
  <2>1. ASSUME NEW m \in S PROVE IsFiniteSet(1..m) /\ 1..m \subseteq Nat
    BY FS_Interval
  <2> QED BY <2>1 DEF FiniteSubsetsOf
<1>2. PICK b \in Below : \A c \in Below : <<c, b>> \notin StrictSubsetOrdering(Nat)
  BY <1>1, FS_StrictSubsetOrderingWellFounded, WFMin
<1>3. PICK m \in S : b = 1..m
  OBVIOUS
<1>4. ASSUME NEW y \in S PROVE m =< y
  <2>1. SUFFICES ASSUME y < m PROVE FALSE
    OBVIOUS
  <2>2. 1..y \subseteq 1..m /\ 1..y # 1..m /\ 1..y \subseteq Nat /\ 1..m \subseteq Nat
    BY <2>1
  <2>3. <<1..y, 1..m>> \in StrictSubsetOrdering(Nat)
    BY <2>2 DEF StrictSubsetOrdering
  <2> QED BY <1>2, <1>3, <2>3
<1> QED BY <1>3, <1>4 DEF Min
Places == Ended \cup {"boundary", "boundary2", "call", "wait", "ladder"}

USE NobodyAssumption, StoresAssumption

LEMMA Initially == Init => IInv
<1> SUFFICES ASSUME Init PROVE IInv
  OBVIOUS
<1>1. TypeOK
  BY DEF Init, TypeOK, OneWorkerEach, Ended, Ids
<1>2. EffectInv /\ TargetInv /\ AckMeansSkipped
  BY DEF Init, EffectInv, TargetInv, AckMeansSkipped
<1> QED BY <1>1, <1>2 DEF IInv

-----------------------------------------------------------------------------
(* What the pieces of the actions keep *)

\* A view holds ids of the table that the worker has not acted on.
LEMMA ViewIds ==
  ASSUME IInv, NEW w \in Workers, NEW v \in Views(w)
  PROVE  /\ v \in SUBSET DOMAIN rows /\ v \cap consumed[w] = {}
         /\ DOMAIN rows \subseteq Ids /\ Ids \subseteq Nat
<1>1. DOMAIN rows \subseteq Ids /\ Ids \subseteq Nat
  BY DEF IInv, TypeOK, Ids
<1>2. v \in SUBSET DOMAIN rows
  BY DEF IInv, TypeOK, Views, Polled, Pending, Unacked, Aborts
<1>3. v \cap consumed[w] = {}
  BY DEF IInv, EffectInv, Views, Polled
<1> QED BY <1>1, <1>2, <1>3

LEMMA FoundId ==
  ASSUME IInv, NEW w \in Workers, NEW v \in Views(w), NEW a, NEW T,
         Matching(v, a, T) # {}
  PROVE  LET i == Min(Matching(v, a, T))
         IN  i \in v /\ rows[i].action = a /\ rows[i].target \in T
<1>1. Matching(v, a, T) \in SUBSET Nat
  BY ViewIds DEF Matching
<1>2. Min(Matching(v, a, T)) \in Matching(v, a, T)
  BY <1>1, MinIsIn
<1> QED BY <1>2 DEF Matching

ClientTypes ==
  /\ rows \in Seq(Commands) /\ Len(rows) <= MaxRows
  /\ cache \in [Workers -> SUBSET DOMAIN rows]
  /\ consumed \in [Workers -> SUBSET DOMAIN rows]
  /\ effects \in [Workers -> [Ids -> 0..2]]

LEMMA ConsumeKeeps ==
  ASSUME IInv, NEW w \in Workers, NEW v \in Views(w), NEW i \in v, Consume(w, v, i)
  PROVE  /\ ClientTypes' /\ EffectInv'
         /\ DOMAIN rows' = DOMAIN rows
         /\ \A j \in DOMAIN rows : /\ rows'[j].action = rows[j].action
                                   /\ rows'[j].target = rows[j].target
                                   /\ rows'[j].acked => rows[j].acked \/ j = i
<1>1. i \in DOMAIN rows /\ i \notin consumed[w] /\ i \in Ids /\ v \subseteq DOMAIN rows
      /\ v \cap consumed[w] = {}
  BY ViewIds
<1>2. rows \in Seq(Commands) /\ DOMAIN rows = 1..Len(rows)
  BY DEF IInv, TypeOK
<1>3. [rows[i] EXCEPT !.acked = TRUE] \in Commands
  <2>1. rows[i] \in Commands
    BY <1>1, <1>2
  <2>2. ASSUME NEW c \in Commands PROVE [c EXCEPT !.acked = TRUE] \in Commands
    BY DEF Commands
  <2> QED BY <2>1, <2>2
<1>4. /\ rows' \in Seq(Commands) /\ Len(rows') = Len(rows) /\ DOMAIN rows' = DOMAIN rows
      /\ \A j \in DOMAIN rows :
           rows'[j] = rows[j] \/ (j = i /\ rows'[j] = [rows[i] EXCEPT !.acked = TRUE])
  <2>1. CASE rows' = rows
    BY <1>2, <2>1
  <2>2. CASE rows' = [rows EXCEPT ![i].acked = TRUE]
    <3>1. rows' = [rows EXCEPT ![i] = [rows[i] EXCEPT !.acked = TRUE]]
      BY <2>2
    <3>2. rows' \in Seq(Commands) /\ Len(rows') = Len(rows)
      BY <1>1, <1>2, <1>3, <3>1, ExceptSeq
    <3>3. \A j \in DOMAIN rows :
            rows'[j] = IF j = i THEN [rows[i] EXCEPT !.acked = TRUE] ELSE rows[j]
      BY <1>1, <1>2, <1>3, <3>1, ExceptSeq
    <3>4. DOMAIN rows' = DOMAIN rows
      BY <1>2, <3>2, LenProperties
    <3> QED BY <3>2, <3>3, <3>4
  <2> QED BY <2>1, <2>2 DEF Consume
<1>5. \A j \in DOMAIN rows : rows[j] \in Commands
  BY <1>2
<1>6. \A j \in DOMAIN rows :
        /\ rows'[j].action = rows[j].action
        /\ rows'[j].target = rows[j].target
        /\ rows'[j].acked => rows[j].acked \/ j = i
  BY <1>1, <1>4, <1>5 DEF Commands
<1>7. effects' = [effects EXCEPT ![w][i] = IF effects[w][i] < 2 THEN effects[w][i] + 1
                                                             ELSE effects[w][i]]
      /\ consumed' = [consumed EXCEPT ![w] = consumed[w] \cup {i}]
      /\ cache' = [cache EXCEPT ![w] = v \ {i}]
  BY DEF Consume
<1>8. effects[w][i] = 0 /\ effects'[w][i] = 1 /\ effects' \in [Workers -> [Ids -> 0..2]]
      /\ \A x \in Workers, j \in Ids : x # w \/ j # i => effects'[x][j] = effects[x][j]
  BY <1>1, <1>7 DEF IInv, TypeOK, EffectInv
<1>9. ClientTypes'
  BY <1>1, <1>4, <1>7, <1>8 DEF IInv, TypeOK, ClientTypes
<1>10. EffectInv'
  <2>1. consumed'[w] = consumed[w] \cup {i} /\ cache'[w] = v \ {i}
        /\ \A x \in Workers : x # w => consumed'[x] = consumed[x] /\ cache'[x] = cache[x]
    BY <1>7 DEF IInv, TypeOK
  <2> QED BY <1>1, <1>8, <2>1 DEF IInv, EffectInv
<1>11. DOMAIN rows' = DOMAIN rows
  BY <1>4
<1> QED BY <1>6, <1>9, <1>10, <1>11

LEMMA NothingKeeps ==
  ASSUME IInv, NEW w \in Workers, NEW v \in Views(w), NothingFor(w, v)
  PROVE  ClientTypes' /\ EffectInv' /\ rows' = rows
<1>1. v \subseteq DOMAIN rows /\ v \cap consumed[w] = {}
  BY ViewIds
<1> QED BY <1>1 DEF NothingFor, IInv, TypeOK, ClientTypes, EffectInv

PlaceTypes ==
  /\ cur \in [Workers -> Lifecycles \cup {Nobody}]
  /\ pc \in [Lifecycles -> Places \cup {"queued"}]
  /\ OneWorkerEach

\* A lifecycle that has ended is with no worker, so no step moves it.
LEMMA GoKeeps ==
  ASSUME IInv, NEW w \in Workers, cur[w] # Nobody, NEW place \in Places, Go(w, place)
  PROVE  /\ PlaceTypes' /\ pc'[cur[w]] = place
         /\ \A l \in Lifecycles : pc[l] \in Ended => pc'[l] = pc[l]
<1>1. /\ cur \in [Workers -> Lifecycles \cup {Nobody}]
      /\ pc \in [Lifecycles -> Places \cup {"queued"}]
      /\ OneWorkerEach /\ cur[w] \in Lifecycles
      /\ pc' = [pc EXCEPT ![cur[w]] = place]
  BY DEF IInv, TypeOK, Places, Go
<1>2. pc' \in [Lifecycles -> Places \cup {"queued"}] /\ pc'[cur[w]] = place
      /\ \A l \in Lifecycles : l # cur[w] => pc'[l] = pc[l]
  BY <1>1
<1>3. cur' \in [Workers -> Lifecycles \cup {Nobody}]
      /\ cur'[w] = (IF place \in Ended THEN Nobody ELSE cur[w])
      /\ \A x \in Workers : x # w => cur'[x] = cur[x]
  BY <1>1 DEF Go
<1>4. place # "queued"
  BY DEF Places, Ended
<1>5. \A x \in Workers : x # w => cur[x] # cur[w]
  BY <1>1 DEF OneWorkerEach
<1>6. OneWorkerEach'
  <2>1. ASSUME NEW x \in Workers, NEW y \in Workers, cur'[x] = cur'[y], cur'[x] # Nobody
        PROVE  x = y
    BY <1>1, <1>3, <2>1 DEF OneWorkerEach
  <2>2. ASSUME NEW l \in Lifecycles
        PROVE  pc'[l] \in Ended \cup {"queued"} <=> \A x \in Workers : cur'[x] # l
    <3>1. CASE l = cur[w]
      BY <1>1, <1>2, <1>3, <1>4, <1>5, <3>1
    <3>2. CASE l # cur[w]
      <4>1. pc'[l] = pc[l] /\ \A x \in Workers : cur'[x] = l <=> cur[x] = l
        BY <1>1, <1>2, <1>3, <3>2
      <4> QED BY <1>1, <4>1 DEF OneWorkerEach
    <3> QED BY <3>1, <3>2
  <2> QED BY <2>1, <2>2 DEF OneWorkerEach
<1>7. pc[cur[w]] \notin Ended
  BY <1>1 DEF OneWorkerEach
<1> QED BY <1>2, <1>3, <1>6, <1>7 DEF PlaceTypes

\* No acknowledgement is new, so what was acknowledged has been skipped before.
LEMMA RowsKept ==
  ASSUME IInv, rows' = rows, \A l \in Lifecycles : pc[l] \in Ended => pc'[l] = pc[l]
  PROVE  TargetInv' /\ AckMeansSkipped'
BY DEF IInv, TargetInv, AckMeansSkipped, Ended

\* The acknowledged command is not a skip, or its lifecycle is skipped in this step.
LEMMA RowAcked ==
  ASSUME IInv, NEW w \in Workers, NEW v \in Views(w), NEW i \in v, Consume(w, v, i),
         \A l \in Lifecycles : pc[l] \in Ended => pc'[l] = pc[l],
         rows[i].action = "skip_scenario" => pc'[rows[i].target] = "skipped"
  PROVE  TargetInv' /\ AckMeansSkipped'
BY ConsumeKeeps DEF IInv, TargetInv, AckMeansSkipped, Ended

LEMMA Together ==
  ASSUME ClientTypes', PlaceTypes',
         store' \in Stores, run' \in {"dispatched", "running", "done"},
         abort' \in [Workers -> BOOLEAN], heard' \subseteq Workers, broken' \subseteq Lifecycles
  PROVE  TypeOK'
BY DEF ClientTypes, PlaceTypes, TypeOK, Places

LEMMA Apart ==
  ASSUME TypeOK
  PROVE  ClientTypes /\ PlaceTypes
BY DEF ClientTypes, PlaceTypes, TypeOK, Places

-----------------------------------------------------------------------------
(* Each action keeps the invariant *)

\* A table that grows by unacknowledged rows.
LEMMA GrowKeeps ==
  ASSUME IInv, NEW more \in Seq(Commands), rows' = rows \o more, Len(rows') <= MaxRows,
         \A i \in DOMAIN more :
           /\ ~more[i].acked
           /\ more[i].action = "skip_scenario" => more[i].target \in Lifecycles,
         UNCHANGED <<store, run, client, cur, pc, heard, broken>>
  PROVE  IInv'
<1>1. /\ rows \in Seq(Commands) /\ rows' \in Seq(Commands)
      /\ DOMAIN rows = 1..Len(rows) /\ DOMAIN rows \subseteq DOMAIN rows'
  BY ConcatProperties, LenProperties DEF IInv, TypeOK
<1>2. \A i \in DOMAIN rows' : \/ i \in DOMAIN rows /\ rows'[i] = rows[i]
                              \/ i - Len(rows) \in DOMAIN more /\ rows'[i] = more[i - Len(rows)]
  BY <1>1, ConcatProperties, LenProperties
<1>3. TypeOK'
  BY <1>1 DEF IInv, TypeOK, client, OneWorkerEach
<1>4. EffectInv'
  BY DEF IInv, EffectInv, client
<1>5. TargetInv'
  BY <1>2 DEF IInv, TargetInv
<1>6. AckMeansSkipped'
  BY <1>2 DEF IInv, AckMeansSkipped
<1> QED BY <1>3, <1>4, <1>5, <1>6 DEF IInv

LEMMA AddCommandKeeps ==
  ASSUME IInv, AddCommand
  PROVE  IInv'
<1>1. PICK row \in {Row("abort_run", Nobody), Row("stop_polling", Nobody)}
                   \cup {Row(a, l) : a \in {"skip_scenario", "stop_polling"}, l \in Lifecycles} :
        rows' = Append(rows, row)
  BY DEF AddCommand
<1>2. row \in Commands /\ ~row.acked
      /\ (row.action = "skip_scenario" => row.target \in Lifecycles)
  <2>1. ASSUME NEW a \in {"abort_run", "stop_polling"}, NEW t \in Lifecycles \cup {Nobody}
        PROVE  /\ Row(a, t) \in Commands /\ ~Row(a, t).acked
               /\ Row(a, t).action # "skip_scenario"
    BY DEF Row, Commands
  <2>2. ASSUME NEW l \in Lifecycles
        PROVE  /\ Row("skip_scenario", l) \in Commands /\ ~Row("skip_scenario", l).acked
               /\ Row("skip_scenario", l).target \in Lifecycles
    BY DEF Row, Commands
  <2> QED BY <1>1, <2>1, <2>2
<1> DEFINE more == <<row>>
<1>3. more \in Seq(Commands)
  BY <1>2
<1>4. rows' = rows \o more /\ Len(rows') <= MaxRows
  BY <1>1, <1>2 DEF AddCommand, IInv, TypeOK
<1>5. \A i \in DOMAIN more :
        /\ ~more[i].acked
        /\ more[i].action = "skip_scenario" => more[i].target \in Lifecycles
  BY <1>2
<1>6. UNCHANGED <<store, run, client, cur, pc, heard, broken>>
  BY DEF AddCommand
<1> HIDE DEF more
<1> QED BY <1>3, <1>4, <1>5, <1>6, GrowKeeps

LEMMA SkipLifecycleKeeps ==
  ASSUME IInv, NEW l \in Lifecycles, SkipLifecycle(l)
  PROVE  IInv'
<1>1. /\ Row("stop_polling", l) \in Commands /\ Row("skip_scenario", l) \in Commands
      /\ \A a \in {"stop_polling", "skip_scenario"} :
           ~Row(a, l).acked /\ Row(a, l).target \in Lifecycles
  BY DEF Row, Commands
<1>2. SkipPair(l) \in Seq(Commands)
      /\ \A i \in DOMAIN SkipPair(l) :
           ~SkipPair(l)[i].acked /\ SkipPair(l)[i].target \in Lifecycles
  BY <1>1 DEF SkipPair
<1> QED BY <1>2, GrowKeeps DEF SkipLifecycle

LEMMA RunKeeps ==
  ASSUME IInv, RunStart \/ RunDone
  PROVE  IInv'
BY DEF RunStart, RunDone, client, IInv, TypeOK, OneWorkerEach, EffectInv, TargetInv,
       AckMeansSkipped

LEMMA TakeKeeps ==
  ASSUME IInv, NEW w \in Workers, NEW l \in Lifecycles, Take(w, l)
  PROVE  IInv'
<1>1. /\ cur' = [cur EXCEPT ![w] = l] /\ cur[w] = Nobody
      /\ pc' = [pc EXCEPT ![l] = "boundary"] /\ pc[l] = "queued"
      /\ UNCHANGED <<store, run, rows, cache, consumed, abort, effects, heard, broken>>
  BY DEF Take, server, client
<1>2. PlaceTypes /\ ClientTypes
  BY Apart DEF IInv
<1>3. OneWorkerEach'
  BY <1>1, <1>2 DEF PlaceTypes, OneWorkerEach, Ended
<1>4. PlaceTypes' /\ \A k \in Lifecycles : pc[k] \in Ended => pc'[k] = pc[k]
  BY <1>1, <1>2, <1>3 DEF PlaceTypes, Places, Ended
<1>5. TypeOK'
  BY <1>1, <1>2, <1>4, Together DEF ClientTypes, IInv, TypeOK
<1>6. EffectInv'
  BY <1>1 DEF IInv, EffectInv
<1> QED BY <1>1, <1>4, <1>5, <1>6, RowsKept DEF IInv

LEMMA StepEndsKeeps ==
  ASSUME IInv, NEW w \in Workers, StepEnds(w)
  PROVE  IInv'
<1>1. UNCHANGED <<store, run, rows, cache, consumed, abort, effects, heard, broken>>
  BY DEF StepEnds, server, client
<1>2. PlaceTypes' /\ \A l \in Lifecycles : pc[l] \in Ended => pc'[l] = pc[l]
  BY GoKeeps DEF StepEnds, Places, Ended
<1>3. ClientTypes'
  BY <1>1, Apart DEF IInv, ClientTypes
<1>4. TypeOK'
  BY <1>1, <1>2, <1>3, Together DEF IInv, TypeOK
<1>5. EffectInv'
  BY <1>1 DEF IInv, EffectInv
<1> QED BY <1>1, <1>2, <1>4, <1>5, RowsKept DEF IInv

LEMMA CrashKeeps ==
  ASSUME IInv, NEW w \in Workers, Crash(w)
  PROVE  IInv'
<1>1. UNCHANGED <<store, run, rows, broken>>
  BY DEF Crash, server
<1>2. PlaceTypes' /\ \A l \in Lifecycles : pc[l] \in Ended => pc'[l] = pc[l]
  BY GoKeeps DEF Crash, Places, Ended
<1>3. ClientTypes' /\ abort' \in [Workers -> BOOLEAN] /\ heard' \subseteq Workers
  BY <1>1 DEF Crash, IInv, TypeOK, ClientTypes
<1>4. TypeOK'
  BY <1>1, <1>2, <1>3, Together DEF IInv, TypeOK
<1>5. EffectInv'
  BY DEF Crash, IInv, TypeOK, EffectInv
<1> QED BY <1>1, <1>2, <1>4, <1>5, RowsKept DEF IInv

LEMMA HearsType ==
  ASSUME IInv, NEW w \in Workers, NEW v, Hears(w, v)
  PROVE  heard' \subseteq Workers
BY DEF Hears, IInv, TypeOK

LEMMA AbortCheckKeeps ==
  ASSUME IInv, NEW w \in Workers, NEW v \in Views(w), AbortCheck(w, v)
  PROVE  IInv'
<1> DEFINE found == Matching(v, "abort_run", {Nobody})
<1>1. /\ UNCHANGED <<store, run, broken>> /\ heard' \subseteq Workers
      /\ cur[w] # Nobody /\ abort' \in [Workers -> BOOLEAN]
  BY HearsType DEF AbortCheck, server, client, At, IInv, TypeOK
<1>2. PlaceTypes' /\ \A l \in Lifecycles : pc[l] \in Ended => pc'[l] = pc[l]
  BY <1>1, GoKeeps DEF AbortCheck, Places, Ended
<1>3. SUFFICES ClientTypes' /\ EffectInv' /\ TargetInv' /\ AckMeansSkipped'
  BY <1>1, <1>2, Together DEF IInv, TypeOK
<1>4. CASE UNCHANGED <<rows, client>>
  BY <1>2, <1>4, Apart, RowsKept DEF IInv, client, ClientTypes, EffectInv
<1>5. CASE found # {} /\ Consume(w, v, Min(found))
  BY <1>2, <1>5, FoundId, ConsumeKeeps, RowAcked
<1>6. CASE NothingFor(w, v)
  BY <1>2, <1>6, NothingKeeps, RowsKept
<1> QED BY <1>4, <1>5, <1>6 DEF AbortCheck

LEMMA SkipCheckKeeps ==
  ASSUME IInv, NEW w \in Workers, NEW v \in Views(w), SkipCheck(w, v)
  PROVE  IInv'
<1> DEFINE found == Matching(v, "skip_scenario", {cur[w]})
<1>1. /\ UNCHANGED <<store, run, abort, broken>> /\ heard' \subseteq Workers /\ cur[w] # Nobody
  BY HearsType DEF SkipCheck, server, At
<1>2. PlaceTypes' /\ \A l \in Lifecycles : pc[l] \in Ended => pc'[l] = pc[l]
  BY <1>1, GoKeeps DEF SkipCheck, Places, Ended
<1>3. SUFFICES ClientTypes' /\ EffectInv' /\ TargetInv' /\ AckMeansSkipped'
  BY <1>1, <1>2, Together DEF IInv, TypeOK
<1>4. CASE found # {} /\ Consume(w, v, Min(found)) /\ Go(w, "skipped")
  <2>1. Min(found) \in v /\ rows[Min(found)].target \in {cur[w]}
    BY ONLY IInv, w \in Workers, v \in Views(w), <1>4, FoundId
  <2>2. pc'[cur[w]] = "skipped"
    BY <1>1, <1>4, GoKeeps DEF Places, Ended
  <2> QED BY <1>2, <1>4, <2>1, <2>2, ConsumeKeeps, RowAcked
<1>5. CASE NothingFor(w, v)
  BY <1>2, <1>5, NothingKeeps, RowsKept
<1> QED BY <1>4, <1>5 DEF SkipCheck

LEMMA WaitRoundKeeps ==
  ASSUME IInv, NEW w \in Workers, NEW v \in Views(w), WaitRound(w, v)
  PROVE  IInv'
<1> DEFINE found == Matching(v, "stop_polling", {Nobody, cur[w]})
<1>1. /\ UNCHANGED <<store, run, abort>> /\ heard' \subseteq Workers /\ cur[w] # Nobody
      /\ cur[w] \in Lifecycles /\ broken' \subseteq Lifecycles
  BY HearsType DEF WaitRound, server, At, IInv, TypeOK
<1>2. PlaceTypes' /\ \A l \in Lifecycles : pc[l] \in Ended => pc'[l] = pc[l]
  <2>1. CASE UNCHANGED <<cur, pc>>
    BY <2>1, Apart DEF IInv, PlaceTypes, OneWorkerEach
  <2>2. CASE \E result \in {"failed", "boundary"} : Go(w, result)
    BY <1>1, <2>2, GoKeeps DEF Places, Ended
  <2> QED BY <2>1, <2>2 DEF WaitRound
<1>3. SUFFICES ClientTypes' /\ EffectInv' /\ TargetInv' /\ AckMeansSkipped'
  BY <1>1, <1>2, Together DEF IInv, TypeOK
<1>4. CASE found # {} /\ Consume(w, v, Min(found))
  BY <1>2, <1>4, FoundId, ConsumeKeeps, RowAcked
<1>5. CASE NothingFor(w, v)
  BY <1>2, <1>5, NothingKeeps, RowsKept
<1> QED BY <1>4, <1>5 DEF WaitRound

LEMMA LadderRoundKeeps ==
  ASSUME IInv, NEW w \in Workers, NEW v \in Views(w), LadderRound(w, v)
  PROVE  IInv'
<1>1. /\ UNCHANGED <<store, run, abort>> /\ cur[w] # Nobody /\ cur[w] \in Lifecycles
      /\ heard' \subseteq Workers /\ broken' \subseteq Lifecycles
  BY HearsType DEF LadderRound, LeaveLadder, server, At, IInv, TypeOK
<1>2. PlaceTypes' /\ \A l \in Lifecycles : pc[l] \in Ended => pc'[l] = pc[l]
  <2>1. CASE UNCHANGED <<cur, pc>>
    BY <2>1, Apart DEF IInv, PlaceTypes, OneWorkerEach
  <2>2. CASE \E result \in {"failed", "skipped", "boundary"} : Go(w, result)
    BY <1>1, <2>2, GoKeeps DEF Places, Ended
  <2> QED BY <2>1, <2>2 DEF LadderRound, LeaveLadder
<1>3. SUFFICES ClientTypes' /\ EffectInv' /\ TargetInv' /\ AckMeansSkipped'
  BY <1>1, <1>2, Together DEF IInv, TypeOK
<1>4. CASE UNCHANGED <<cache, rows, consumed, effects>>
  BY <1>2, <1>4, Apart, RowsKept DEF IInv, ClientTypes, EffectInv
<1>5. CASE NothingFor(w, v)
  BY <1>2, <1>5, NothingKeeps, RowsKept
<1> QED BY <1>4, <1>5 DEF LadderRound

LEMMA NextKeeps ==
  ASSUME IInv, [Next]_vars
  PROVE  IInv'
<1>1. CASE UNCHANGED vars
  BY <1>1 DEF vars, server, client, IInv, TypeOK, OneWorkerEach, EffectInv, TargetInv,
              AckMeansSkipped
<1>2. CASE AddCommand \/ RunStart \/ RunDone
  BY <1>2, AddCommandKeeps, RunKeeps
<1>3. CASE \E l \in Lifecycles : SkipLifecycle(l)
  BY <1>3, SkipLifecycleKeeps
<1>4. ASSUME NEW w \in Workers,
             \/ \E l \in Lifecycles : Take(w, l)
             \/ StepEnds(w) \/ Crash(w)
      PROVE  IInv'
  BY <1>4, TakeKeeps, StepEndsKeeps, CrashKeeps
<1>5. ASSUME NEW w \in Workers, NEW v \in Views(w), Checkpoint(w, v)
      PROVE  IInv'
  BY <1>5, AbortCheckKeeps, SkipCheckKeeps, WaitRoundKeeps, LadderRoundKeeps DEF Checkpoint
<1> QED BY <1>1, <1>2, <1>3, <1>4, <1>5 DEF Next

LEMMA Invariant == Spec => []IInv
<1>1. IInv /\ [Next]_vars => IInv'
  BY NextKeeps
<1> QED BY Initially, <1>1, PTL DEF Spec

-----------------------------------------------------------------------------
(* The second invariant: what a worker that heard of an abort still knows *)

AbortInv ==
  /\ \A i \in Aborts : rows[i].target = Nobody
  /\ \A w \in Workers : consumed[w] \cap Aborts # {} => abort[w]
  /\ run = "done" => \A l \in Lifecycles : pc[l] \in Ended
  /\ \A w \in heard : run # "dispatched" /\ (abort[w] \/ cache[w] \cap Aborts # {})

\* A worker with a lifecycle is in a run that is not done, and once it has heard of
\* an abort it has the flag, or an abort in whatever view it looks at.
LEMMA StillKnown ==
  ASSUME IInv, AbortInv, NEW w \in Workers, cur[w] # Nobody, NEW v \in Views(w)
  PROVE  /\ run # "done"
         /\ w \in heard => abort[w] \/ v \cap Aborts # {}
         /\ Hears(w, v) /\ w \in heard' =>
              run = "running" /\ (abort[w] \/ v \cap Aborts # {})
<1>1. run # "done"
  <2>1. cur[w] \in Lifecycles /\ pc[cur[w]] \notin Ended
    BY DEF IInv, TypeOK, OneWorkerEach
  <2> QED BY <2>1 DEF AbortInv
<1>2. ASSUME run = "running", v = Polled(w), Aborts # {}
      PROVE  abort[w] \/ v \cap Aborts # {}
  <2>1. PICK a \in Aborts : TRUE
    BY <1>2
  <2>2. CASE a \in consumed[w]
    BY <2>1, <2>2 DEF AbortInv
  <2>3. CASE a \notin consumed[w]
    BY <1>2, <2>1, <2>3 DEF Polled, Pending
  <2> QED BY <2>2, <2>3
<1>3. ASSUME w \in heard
      PROVE  run = "running" /\ (abort[w] \/ v \cap Aborts # {})
  <2>1. run = "running" /\ (abort[w] \/ cache[w] \cap Aborts # {})
    BY <1>1, <1>3 DEF AbortInv, IInv, TypeOK
  <2>2. CASE v = cache[w]
    BY <2>1, <2>2
  <2>3. CASE v = Polled(w) /\ ~abort[w]
    BY <1>2, <2>1, <2>3
  <2> QED BY <2>1, <2>2, <2>3 DEF Views
<1>4. ASSUME Hears(w, v), w \in heard'
      PROVE  run = "running" /\ (abort[w] \/ v \cap Aborts # {})
  BY <1>2, <1>3, <1>4 DEF Hears
<1> QED BY <1>1, <1>3, <1>4

LEMMA AbortRowsKept ==
  ASSUME IInv, AbortInv, DOMAIN rows' = DOMAIN rows,
         \A j \in DOMAIN rows : /\ rows'[j].action = rows[j].action
                                /\ rows'[j].target = rows[j].target
  PROVE  Aborts' = Aborts /\ \A i \in Aborts' : rows'[i].target = Nobody
BY DEF AbortInv, Aborts

\* A checkpoint that finds nothing for its worker, or acts on command i.
LEMMA LookedKeeps ==
  ASSUME IInv, AbortInv, NEW w \in Workers, cur[w] # Nobody, NEW v \in Views(w),
         Hears(w, v), run' = run,
         \A l \in Lifecycles : pc[l] \in Ended => pc'[l] = pc[l],
         \/ NothingFor(w, v) /\ UNCHANGED abort
         \/ \E i \in v : /\ Consume(w, v, i)
                         /\ \/ rows[i].action = "abort_run" /\ abort' = [abort EXCEPT ![w] = TRUE]
                            \/ rows[i].action # "abort_run" /\ UNCHANGED abort
  PROVE  AbortInv'
<1>1. /\ \A x \in Workers : x # w => /\ cache'[x] = cache[x] /\ consumed'[x] = consumed[x]
                                     /\ abort'[x] = abort[x] /\ (x \in heard' => x \in heard)
      /\ abort[w] => abort'[w]
  BY DEF NothingFor, Consume, Hears, IInv, TypeOK
<1>2. Aborts' = Aborts /\ \A i \in Aborts' : rows'[i].target = Nobody
  <2>1. CASE NothingFor(w, v)
    BY <2>1, AbortRowsKept DEF NothingFor
  <2>2. CASE \E i \in v : Consume(w, v, i)
    BY <2>2, ConsumeKeeps, AbortRowsKept
  <2> QED BY <2>1, <2>2
<1>3. /\ consumed'[w] \cap Aborts # {} => abort'[w]
      /\ abort'[w] \/ v \cap Aborts \subseteq cache'[w]
  <2>1. CASE NothingFor(w, v) /\ UNCHANGED abort
    BY <2>1 DEF NothingFor, IInv, TypeOK, AbortInv
  <2>2. ASSUME NEW i \in v, Consume(w, v, i), rows[i].action = "abort_run",
               abort' = [abort EXCEPT ![w] = TRUE]
        PROVE  abort'[w]
    BY <2>2 DEF IInv, TypeOK
  <2>3. ASSUME NEW i \in v, Consume(w, v, i), rows[i].action # "abort_run", UNCHANGED abort
        PROVE  /\ consumed'[w] \cap Aborts # {} => abort'[w]
               /\ v \cap Aborts \subseteq cache'[w]
    <3>1. consumed'[w] = consumed[w] \cup {i} /\ cache'[w] = v \ {i} /\ i \notin Aborts
      BY <2>3 DEF Consume, IInv, TypeOK, Aborts
    <3> QED BY <2>3, <3>1 DEF AbortInv
  <2> QED BY <2>1, <2>2, <2>3
<1>4. ASSUME NEW x \in heard'
      PROVE  run' # "dispatched" /\ (abort'[x] \/ cache'[x] \cap Aborts # {})
  <2>1. CASE x = w
    BY <1>1, <1>3, <1>4, <2>1, StillKnown
  <2>2. CASE x # w
    <3>1. x \in Workers /\ x \in heard
      BY <1>1, <1>4, <2>2, HearsType
    <3> QED BY <1>1, <2>2, <3>1 DEF AbortInv
  <2> QED BY <2>1, <2>2
<1>5. \A x \in Workers : consumed'[x] \cap Aborts # {} => abort'[x]
  BY <1>1, <1>3 DEF AbortInv
<1>6. run' = "done" => \A l \in Lifecycles : pc'[l] \in Ended
  BY DEF AbortInv
<1> QED BY <1>2, <1>4, <1>5, <1>6 DEF AbortInv

LEMMA CheckpointKeepsAbort ==
  ASSUME IInv, AbortInv, NEW w \in Workers, NEW v \in Views(w), Checkpoint(w, v)
  PROVE  AbortInv'
<1>1. cur[w] # Nobody /\ run' = run
  BY DEF Checkpoint, AbortCheck, SkipCheck, WaitRound, LadderRound, At, server
<1>2. \A l \in Lifecycles : pc[l] \in Ended => pc'[l] = pc[l]
  BY <1>1, GoKeeps DEF Checkpoint, AbortCheck, SkipCheck, WaitRound, LadderRound, LeaveLadder,
                       Places, Ended
<1>3. CASE UNCHANGED <<rows, client, heard>>
  BY <1>1, <1>2, <1>3 DEF client, AbortInv, Aborts
<1>4. CASE Hears(w, v) /\ NothingFor(w, v) /\ UNCHANGED abort
  BY <1>1, <1>2, <1>4, LookedKeeps
<1>5. ASSUME NEW a, NEW T, Matching(v, a, T) # {}, Hears(w, v),
             Consume(w, v, Min(Matching(v, a, T))),
             \/ a = "abort_run" /\ abort' = [abort EXCEPT ![w] = TRUE]
             \/ a # "abort_run" /\ UNCHANGED abort
      PROVE  AbortInv'
  <2>1. PICK i \in v : /\ rows[i].action = a /\ Consume(w, v, i)
    BY <1>5, FoundId
  <2> QED BY <1>1, <1>2, <1>5, <2>1, LookedKeeps
<1>6. CASE AbortCheck(w, v)
  BY <1>3, <1>4, <1>5, <1>6 DEF AbortCheck
<1>7. CASE SkipCheck(w, v)
  BY <1>4, <1>5, <1>7 DEF SkipCheck
<1>8. CASE WaitRound(w, v)
  BY <1>4, <1>5, <1>8 DEF WaitRound
<1>9. CASE LadderRound(w, v)
  BY <1>3, <1>4, <1>9 DEF LadderRound, client
<1> QED BY <1>6, <1>7, <1>8, <1>9 DEF Checkpoint

\* The table only grows, and what grows is not among the ids the workers have.
LEMMA GrowKeepsAbort ==
  ASSUME IInv, AbortInv, NEW more \in Seq(Commands), rows' = rows \o more,
         \A i \in DOMAIN more : more[i].action = "abort_run" => more[i].target = Nobody,
         UNCHANGED <<run, client, pc, heard>>
  PROVE  AbortInv'
<1>1. /\ DOMAIN rows \subseteq DOMAIN rows' /\ \A i \in DOMAIN rows : rows'[i] = rows[i]
      /\ \A i \in DOMAIN rows' : \/ i \in DOMAIN rows
                                 \/ /\ i - Len(rows) \in DOMAIN more
                                    /\ rows'[i] = more[i - Len(rows)]
  BY ConcatProperties, LenProperties DEF IInv, TypeOK
<1>2. \A i \in DOMAIN rows : i \in Aborts' <=> i \in Aborts
  BY <1>1 DEF Aborts
<1>3. \A i \in Aborts' : rows'[i].target = Nobody
  BY <1>1, <1>2 DEF Aborts, AbortInv
<1>4. \A w \in Workers : /\ consumed[w] \cap Aborts' = consumed[w] \cap Aborts
                         /\ cache[w] \cap Aborts' = cache[w] \cap Aborts
  BY <1>2 DEF IInv, TypeOK
<1> QED BY <1>3, <1>4 DEF AbortInv, client, IInv, TypeOK

LEMMA ServerKeepsAbort ==
  ASSUME IInv, AbortInv, AddCommand \/ RunStart \/ RunDone \/ \E l \in Lifecycles : SkipLifecycle(l)
  PROVE  AbortInv'
<1>1. CASE AddCommand
  <2>1. PICK row \in {Row("abort_run", Nobody), Row("stop_polling", Nobody)}
                     \cup {Row(a, l) : a \in {"skip_scenario", "stop_polling"}, l \in Lifecycles} :
          rows' = Append(rows, row)
    BY <1>1 DEF AddCommand
  <2>2. row \in Commands /\ (row.action = "abort_run" => row.target = Nobody)
    <3>1. ASSUME NEW a \in {"skip_scenario", "stop_polling"}, NEW l \in Lifecycles
          PROVE  Row(a, l) \in Commands /\ Row(a, l).action # "abort_run"
      BY DEF Row, Commands
    <3>2. ASSUME NEW a \in {"abort_run", "stop_polling"}
          PROVE  Row(a, Nobody) \in Commands /\ Row(a, Nobody).target = Nobody
      BY DEF Row, Commands
    <3> QED BY <2>1, <3>1, <3>2
  <2> DEFINE more == <<row>>
  <2>3. more \in Seq(Commands) /\ rows' = rows \o more
    BY <2>1, <2>2 DEF IInv, TypeOK
  <2>4. \A i \in DOMAIN more : more[i].action = "abort_run" => more[i].target = Nobody
    BY <2>2
  <2>5. UNCHANGED <<run, client, pc, heard>>
    BY <1>1 DEF AddCommand
  <2> HIDE DEF more
  <2> QED BY <2>3, <2>4, <2>5, GrowKeepsAbort
<1>2. ASSUME NEW l \in Lifecycles, SkipLifecycle(l)
      PROVE  AbortInv'
  <2>1. Row("stop_polling", l) \in Commands /\ Row("skip_scenario", l) \in Commands
    BY DEF Row, Commands
  <2>2. SkipPair(l) \in Seq(Commands)
        /\ \A i \in DOMAIN SkipPair(l) : SkipPair(l)[i].action # "abort_run"
    BY <2>1 DEF SkipPair, Row
  <2> QED BY <1>2, <2>2, GrowKeepsAbort DEF SkipLifecycle
<1>3. CASE RunStart \/ RunDone
  BY <1>3 DEF RunStart, RunDone, client, AbortInv, Aborts
<1> QED BY <1>1, <1>2, <1>3

LEMMA EngineKeepsAbort ==
  ASSUME IInv, AbortInv, NEW w \in Workers,
         (\E l \in Lifecycles : Take(w, l)) \/ StepEnds(w) \/ Crash(w)
  PROVE  AbortInv'
<1>1. run' = run /\ rows' = rows /\ Aborts' = Aborts
  BY DEF Take, StepEnds, Crash, server, Aborts
<1>2. \A l \in Lifecycles : pc[l] \in Ended => pc'[l] = pc[l]
  <2>1. ASSUME NEW l \in Lifecycles, Take(w, l)
        PROVE  \A k \in Lifecycles : pc[k] \in Ended => pc'[k] = pc[k]
    BY <2>1 DEF Take, Ended, IInv, TypeOK
  <2> QED BY <2>1, GoKeeps DEF StepEnds, Crash, Places, Ended
<1>3. /\ \A x \in Workers : consumed'[x] \cap Aborts # {} => abort'[x]
      /\ \A x \in heard' : x \in heard /\ cache'[x] = cache[x] /\ abort'[x] = abort[x]
  BY DEF Take, StepEnds, Crash, client, AbortInv, IInv, TypeOK
<1> QED BY <1>1, <1>2, <1>3 DEF AbortInv

LEMMA AbortInvariant == Spec => [](IInv /\ AbortInv)
<1>1. Init => AbortInv
  BY DEF Init, AbortInv, Aborts
<1>2. IInv /\ AbortInv /\ [Next]_vars => AbortInv'
  <2> SUFFICES ASSUME IInv, AbortInv, [Next]_vars PROVE AbortInv'
    OBVIOUS
  <2>1. CASE UNCHANGED vars
    BY <2>1 DEF vars, server, client, AbortInv, Aborts
  <2>2. ASSUME NEW w \in Workers, NEW v \in Views(w), Checkpoint(w, v)
        PROVE  AbortInv'
    BY <2>2, CheckpointKeepsAbort
  <2> QED BY <2>1, <2>2, ServerKeepsAbort, EngineKeepsAbort DEF Next
<1> QED BY Invariant, <1>1, <1>2, PTL DEF Spec

-----------------------------------------------------------------------------
(* The results *)

\* Types, and that a lifecycle is with one worker from when it is taken to its end.
THEOREM TypeCorrect == Spec => []TypeOK
<1>1. IInv => TypeOK
  BY DEF IInv
<1> QED BY <1>1, Invariant, PTL

\* However many acknowledgements are lost and whichever polls fail, a process acts
\* at most once on a command.
THEOREM ActsOnce == Spec => []AppliedOnce
<1>1. IInv => AppliedOnce
  BY DEF IInv, TypeOK, EffectInv, AppliedOnce, Ids
<1> QED BY <1>1, Invariant, PTL

\* A skip that the server takes for done has skipped the lifecycle it was for.
THEOREM AckedSkipDone == Spec => []AckMeansSkipped
<1>1. IInv => AckMeansSkipped
  BY DEF IInv
<1> QED BY <1>1, Invariant, PTL

\* Whoever has polled since an abort begins no further step, in any order of polls,
\* acknowledgements, crashes and steps of the other workers.
THEOREM AbortIsObeyed == Spec => AbortObeyed
<1> DEFINE Obeyed == \A w \in Workers :
      w \in heard /\ At(w, "boundary") => pc'[cur[w]] \in {"boundary", "skipped", "crashed"}
<1>1. IInv /\ AbortInv /\ [Next]_vars => [Obeyed]_vars
  <2> SUFFICES ASSUME IInv, AbortInv, Next,
                      NEW w \in Workers, w \in heard, At(w, "boundary")
               PROVE  pc'[cur[w]] \in {"boundary", "skipped", "crashed"}
    OBVIOUS
  <2>1. cur[w] \in Lifecycles /\ pc[cur[w]] = "boundary" /\ cur[w] # Nobody
        /\ pc \in [Lifecycles -> Places \cup {"queued"}]
        /\ \A x \in Workers : x # w => cur[x] # cur[w]
    BY DEF At, IInv, TypeOK, OneWorkerEach, Places
  <2>2. CASE UNCHANGED pc
    BY <2>1, <2>2
  <2>3. ASSUME NEW x \in Workers, NEW l \in Lifecycles, Take(x, l)
        PROVE  pc'[cur[w]] = "boundary"
    BY <2>1, <2>3 DEF Take
  <2>4. ASSUME NEW x \in Workers, x # w, NEW place, Go(x, place)
        PROVE  pc'[cur[w]] = "boundary"
    BY <2>1, <2>4 DEF Go
  <2>5. ASSUME NEW x \in Workers, x # w, NEW v \in Views(x), Checkpoint(x, v)
        PROVE  pc'[cur[w]] = "boundary"
    BY <2>1, <2>4, <2>5 DEF Checkpoint, AbortCheck, SkipCheck, WaitRound, LadderRound, LeaveLadder
  <2>6. ASSUME NEW v \in Views(w), Checkpoint(w, v)
        PROVE  pc'[cur[w]] = "skipped"
    <3>1. AbortCheck(w, v)
      BY <2>1, <2>6 DEF Checkpoint, SkipCheck, WaitRound, LadderRound, At
    <3>2. abort[w] \/ Matching(v, "abort_run", {Nobody}) # {}
      <4>1. abort[w] \/ v \cap Aborts # {}
        BY <2>1, StillKnown
      <4>2. \A i \in v \cap Aborts : i \in Matching(v, "abort_run", {Nobody})
        BY DEF AbortInv, Aborts, Matching
      <4> QED BY <4>1, <4>2
    <3>3. Go(w, "skipped")
      BY <3>1, <3>2 DEF AbortCheck
    <3> QED BY <2>1, <3>3 DEF Go
  <2>7. ASSUME NEW x \in Workers, StepEnds(x) \/ Crash(x)
        PROVE  pc'[cur[w]] \in {"boundary", "crashed"}
    <3>1. CASE x # w
      BY <2>4, <2>7, <3>1 DEF StepEnds, Crash
    <3>2. CASE x = w
      <4>1. Go(w, "crashed")
        BY <2>1, <2>7, <3>2 DEF StepEnds, Crash
      <4> QED BY <2>1, <4>1 DEF Go
    <3> QED BY <3>1, <3>2
  <2>8. CASE AddCommand \/ RunStart \/ RunDone \/ \E l \in Lifecycles : SkipLifecycle(l)
    BY <2>2, <2>8 DEF AddCommand, RunStart, RunDone, SkipLifecycle
  <2> QED BY <2>3, <2>5, <2>6, <2>7, <2>8 DEF Next
<1>2. Spec => [][Obeyed]_vars
  BY AbortInvariant, <1>1, PTL DEF Spec
<1> QED BY <1>2 DEF AbortObeyed

=============================================================================
