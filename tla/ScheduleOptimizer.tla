--------------------------- MODULE ScheduleOptimizer ---------------------------
(***************************************************************************)
(* regression/scenarios/schedule_optimizer.py: schedule plays through a    *)
(* run of lifecycles under the cap of VPCs, the longest tail first, and    *)
(* foretells its makespan.  Durations are whole numbers.                   *)
(***************************************************************************)
EXTENDS Naturals, Sequences, SequencesExt, FiniteSetsExt

CONSTANTS
  Works,          \* what is scheduled: durations, what a node requires, who holds a slot
  SlotBudget      \* vpc_cap - shared_vpc, and at least 1

ASSUME ScheduleAssumption ==
  /\ SlotBudget \in Nat \ {0}
  /\ \A w \in Works : /\ IsFiniteSet(DOMAIN w.duration)
                      /\ w.requires \in [DOMAIN w.duration -> SUBSET DOMAIN w.duration]
                      /\ w.holds \subseteq DOMAIN w.duration
                      /\ \A n \in DOMAIN w.duration : w.duration[n] \in Nat

VARIABLES
  work,       \* what is scheduled
  stage,      \* order, tails, path, simulate, done, or refused
  order,      \* nodes, each after those it requires
  tail,       \* of a node: the length of the longest path that begins with it
  path,       \* the critical path
  ready,      \* nodes that may start now
  deferred,   \* those of them that found no slot at this time
  inProgress, \* nodes that have started and not finished
  started,    \* when each started
  finished,
  time        \* t

derived == <<order, tail, path>>
played == <<ready, deferred, inProgress, started, finished, time>>
scheduleVars == <<work, stage, derived, played>>

ToDo == DOMAIN work.duration
Dependents(n) == {c \in ToDo : n \in work.requires[c]}
FinishAt(n) == started[n] + work.duration[n]
SlotsUsed == Cardinality(inProgress \cap work.holds)

ScheduleInit ==
  /\ work \in Works
  /\ stage = "order"
  /\ order = <<>> /\ tail = <<>> /\ path = <<>>
  /\ ready = {n \in ToDo : work.requires[n] = {}}
  /\ deferred = {} /\ inProgress = {} /\ finished = {}
  /\ started = [n \in ToDo |-> 0] /\ time = 0

-----------------------------------------------------------------------------
\* _topo_order: of those that wait for no other one is taken, whichever it is.  A cycle
\* is refused.
TakeNext ==
  /\ stage = "order"
  /\ LET left == ToDo \ ToSet(order)
         free == {n \in left : work.requires[n] \subseteq ToSet(order)}
     IN  \/ free # {} /\ order' = Append(order, CHOOSE n \in free : TRUE) /\ UNCHANGED stage
         \/ free = {} /\ stage' = (IF left = {} THEN "tails" ELSE "refused") /\ UNCHANGED order
  /\ UNCHANGED <<work, tail, path, played>>

\* tail_lengths: the order backwards.
TailNext ==
  /\ stage = "tails"
  /\ LET left == Len(order) - Cardinality(DOMAIN tail)
     IN  \/ /\ left > 0
            /\ tail' = [n \in DOMAIN tail \cup {order[left]} |->
                 IF n \in DOMAIN tail THEN tail[n]
                 ELSE work.duration[n] + Max({0} \cup {tail[c] : c \in Dependents(n)})]
            /\ UNCHANGED stage
         \/ left = 0 /\ stage' = "path" /\ UNCHANGED tail
  /\ UNCHANGED <<work, order, path, played>>

Longest(S) == CHOOSE n \in S : \A m \in S : tail[m] <= tail[n]
Floor == IF path = <<>> THEN 0 ELSE tail[path[1]]

\* critical_path: from the longest tail on along the longest.
PathNext ==
  /\ stage = "path"
  /\ LET next == IF path = <<>> THEN ToDo ELSE Dependents(Last(path))
     IN  \/ next # {} /\ path' = Append(path, Longest(next)) /\ UNCHANGED stage
         \/ next = {} /\ stage' = "simulate" /\ UNCHANGED path
  /\ UNCHANGED <<work, order, tail, played>>

-----------------------------------------------------------------------------
\* Of the ready the one with the longest tail starts, or waits for a slot.
Dispatch ==
  /\ stage = "simulate"
  /\ \E n \in ready :
       /\ \A m \in ready : tail[m] <= tail[n]
       /\ ready' = ready \ {n}
       /\ IF n \in work.holds /\ SlotsUsed >= SlotBudget
          THEN deferred' = deferred \cup {n} /\ UNCHANGED <<inProgress, started>>
          ELSE /\ inProgress' = inProgress \cup {n} /\ started' = [started EXCEPT ![n] = time]
               /\ UNCHANGED deferred
  /\ UNCHANGED <<work, stage, derived, finished, time>>

\* Mutant of ReadyAgain: what found no slot waits until something new is ready.
ReadyWithNew(freed) == IF freed = {} THEN {} ELSE deferred \cup freed

\* When something has finished, what had found no slot is ready once more.
ReadyAgain(freed) == deferred \cup freed

\* The first to finish does, and what required nothing else becomes ready.
FinishNext ==
  /\ stage = "simulate" /\ ready = {} /\ inProgress # {}
  /\ \E n \in inProgress :
       /\ \A m \in inProgress : FinishAt(n) <= FinishAt(m)
       /\ time' = FinishAt(n) /\ inProgress' = inProgress \ {n} /\ finished' = finished \cup {n}
       /\ LET freed == {c \in Dependents(n) : work.requires[c] \subseteq finished'}
          IN  ready' = ReadyAgain(freed) /\ deferred' = (deferred \cup freed) \ ready'
  /\ UNCHANGED <<work, stage, derived, started>>

Played ==
  /\ stage = "simulate" /\ ready = {} /\ inProgress = {}
  /\ stage' = "done"
  /\ UNCHANGED <<work, derived, played>>

ScheduleNext == TakeNext \/ TailNext \/ PathNext \/ Dispatch \/ FinishNext \/ Played
ScheduleSpec == ScheduleInit /\ [][ScheduleNext]_scheduleVars

-----------------------------------------------------------------------------
\* The durations of nodes put together, second by second.
Total(S) == Cardinality(UNION {{n} \X (1 .. work.duration[n]) : n \in S})
HoldersAt(t) == {n \in work.holds : started[n] <= t /\ t < FinishAt(n)}

\* The forecast is one the account can keep to, and not far from the best: every node
\* runs, after what it requires and within the slots; the makespan is not below the
\* critical path, which is as long as the floor says; and it is above the floor by no
\* more than the slots need to take all their holders one after another.
ForecastSound ==
  stage = "done" =>
    /\ finished = ToDo
    /\ \A n \in ToDo : \A r \in work.requires[n] : FinishAt(r) <= started[n]
    /\ \A n \in ToDo : Cardinality(HoldersAt(started[n])) <= SlotBudget
    /\ Total(ToSet(path)) = Floor
    /\ Floor <= time
    /\ SlotBudget * time <= SlotBudget * Floor + Total(work.holds)
=============================================================================
