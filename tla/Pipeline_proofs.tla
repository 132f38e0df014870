--------------------------- MODULE Pipeline_proofs ---------------------------
(***************************************************************************)
(* Proofs about the way of a scenario before and after its run.            *)
(*                                                                         *)
(* ScheduleOptimizer, for any work that is finite and any number of slots: *)
(* that the forecast can be kept to and is no further from the critical    *)
(* path than an even share of the time the slots are held (ForecastSound). *)
(* A node that waits does so while all slots are held, so at any time the  *)
(* play is behind by no more than they were held so far (BehindInv).       *)
(*                                                                         *)
(* Composer, for any nodes and whatever is asked for: that the plan and    *)
(* the lifecycle that come out stand on their own (PlanSound).  The        *)
(* invariant says what is true on the way, phase by phase: why each node   *)
(* is there and each group has its branch, where an instance is in the     *)
(* order, how long it is used, and which of them have their steps.         *)
(*                                                                         *)
(* ResultsStore and ResourceLog, for any workers, sessions, emitters,      *)
(* batch sizes and any bound on failures: that a reader finds every        *)
(* observation once between the merges (EachObservationOnce), that an      *)
(* event of a resource is in the store but for the known ways to lose one  *)
(* (StreamIsKept), and so what a run records can be read.                  *)
(***************************************************************************)
EXTENDS ScheduleOptimizer, Composer, RunRecords, FiniteSetTheorems, SequenceTheorems,
  WellFoundedInduction, TLAPS

-----------------------------------------------------------------------------
(* Numbers and finite sets.                                                  *)

\* A set of numbers that is not empty has a least one.
LEMMA LeastNumber ==
  ASSUME NEW S \in SUBSET Nat, S # {}
  PROVE  \E x \in S : \A y \in S : x <= y
<1> DEFINE Below == {0 .. n : n \in S}
           Less == StrictSubsetOrdering(Nat)
<1>1. IsWellFoundedOn(Less, FiniteSubsetsOf(Nat))
  BY FS_StrictSubsetOrderingWellFounded
<1>2. Below \subseteq FiniteSubsetsOf(Nat) /\ Below # {}
  <2>1. \A n \in S : 0 .. n \in FiniteSubsetsOf(Nat)
    BY FS_Interval DEF FiniteSubsetsOf
  <2> QED BY <2>1
<1> HIDE DEF Less
<1>3. \E x \in Below : \A y \in Below : <<y, x>> \notin Less
  <2> HIDE DEF Below
  <2> QED BY <1>1, <1>2, WFMin
<1>4. PICK n \in S : \A m \in S : <<0 .. m, 0 .. n>> \notin Less
  BY <1>3
<1>5. ASSUME NEW m \in S, ~ n <= m PROVE FALSE
  <2>1. 0 .. m \in SUBSET (0 .. n) /\ n \in 0 .. n /\ n \notin 0 .. m
    BY <1>5
  <2>2. <<0 .. m, 0 .. n>> \in Less
    BY <2>1 DEF Less, StrictSubsetOrdering
  <2> QED BY <2>2, <1>4
<1> QED BY <1>5

\* Induction over what is taken from a finite set, one after another: what holds of the
\* empty set and of every set with one more holds of the whole.
LEMMA OneByOne ==
  ASSUME NEW S, IsFiniteSet(S), NEW Q \in SUBSET SUBSET S, {} \in Q,
         \A A \in Q : \A x \in S \ A : A \cup {x} \in Q
  PROVE  S \in Q
<1> DEFINE Less == StrictSubsetOrdering(S)
           Left == {S \ A : A \in Q}
<1>1. IsWellFoundedOn(Less, FiniteSubsetsOf(S))
  BY FS_StrictSubsetOrderingWellFounded
<1>2. Left \subseteq FiniteSubsetsOf(S) /\ Left # {}
  <2>1. \A A \in Q : S \ A \in SUBSET S
    OBVIOUS
  <2>2. \A A \in Q : IsFiniteSet(S \ A)
    BY <2>1, FS_Subset
  <2> QED BY <2>1, <2>2 DEF FiniteSubsetsOf
<1> HIDE DEF Less
<1>3. \E x \in Left : \A y \in Left : <<y, x>> \notin Less
  <2> HIDE DEF Left
  <2> QED BY <1>1, <1>2, WFMin
<1>4. PICK A \in Q : \A B \in Q : <<S \ B, S \ A>> \notin Less
  BY <1>3
<1>5. ASSUME NEW x \in S \ A PROVE FALSE
  <2>1. A \cup {x} \in Q
    OBVIOUS
  <2>2. S \ (A \cup {x}) \in SUBSET (S \ A) /\ S \ (A \cup {x}) # S \ A /\ S \ A \in SUBSET S
    OBVIOUS
  <2>3. <<S \ (A \cup {x}), S \ A>> \in Less
    BY <2>2 DEF Less, StrictSubsetOrdering
  <2> QED BY <2>1, <2>3, <1>4
<1> QED BY <1>5

\* Of finitely many that have a number one has the greatest.
LEMMA OneHasMost ==
  ASSUME NEW S, IsFiniteSet(S), S # {}, NEW f, \A x \in S : f[x] \in Nat
  PROVE  \E x \in S : \A y \in S : f[y] <= f[x]
<1> DEFINE Q == {A \in SUBSET S : A = {} \/ \E x \in A : \A y \in A : f[y] <= f[x]}
<1>1. ASSUME NEW A \in Q, NEW z \in S \ A PROVE A \cup {z} \in Q
  <2>1. CASE A = {}
    <3>1. \A y \in A \cup {z} : f[y] <= f[z]
      BY <2>1
    <3> QED BY <3>1
  <2>2. CASE A # {}
    <3>1. PICK x \in A : \A y \in A : f[y] <= f[x]
      BY <2>2
    <3>2. CASE f[z] <= f[x]
      BY <3>1, <3>2
    <3>3. CASE ~ f[z] <= f[x]
      <4>1. \A y \in A \cup {z} : f[y] <= f[z]
        BY <3>1, <3>3
      <4> QED BY <4>1
    <3> QED BY <3>2, <3>3
  <2> QED BY <2>1, <2>2
<1>2. {} \in Q /\ Q \in SUBSET SUBSET S
  OBVIOUS
<1> HIDE DEF Q
<1>3. S \in Q
  BY <1>1, <1>2, OneByOne
<1> QED BY <1>3 DEF Q

\* The greatest of what finitely many have, and of one number more.
LEMMA MaxOfOneMore ==
  ASSUME NEW S, IsFiniteSet(S), NEW k \in Nat, NEW f, \A x \in S : f[x] \in Nat
  PROVE  /\ Max({k} \cup {f[x] : x \in S}) \in Nat
         /\ k <= Max({k} \cup {f[x] : x \in S})
         /\ \A x \in S : f[x] <= Max({k} \cup {f[x_1] : x_1 \in S})
         /\ \/ Max({k} \cup {f[x] : x \in S}) = k
            \/ \E x \in S : Max({k} \cup {f[x_1] : x_1 \in S}) = f[x]
<1> DEFINE V == {k} \cup {f[x] : x \in S}
<1>1. \E m \in V : \A v \in V : m >= v
  <2>1. CASE S = {}
    BY <2>1
  <2>2. CASE S # {}
    <3>1. PICK x \in S : \A y \in S : f[y] <= f[x]
      BY <2>2, OneHasMost
    <3>2. CASE k <= f[x]
      <4>1. f[x] \in V /\ \A v \in V : f[x] >= v
        BY <3>1, <3>2
      <4> QED BY <4>1
    <3>3. CASE f[x] <= k
      <4>1. k \in V /\ \A v \in V : k >= v
        BY <3>1, <3>3
      <4> QED BY <4>1
    <3> QED BY <3>2, <3>3
  <2> QED BY <2>1, <2>2
<1>2. Max(V) \in V /\ \A v \in V : Max(V) >= v
  <2> HIDE DEF V
  <2> QED BY <1>1 DEF Max
<1>3. Max(V) \in Nat
  BY <1>2
<1> QED BY <1>2, <1>3

\* Units of time of several, put together.
Units(d, S) == UNION {{n} \X (1 .. d[n]) : n \in S}

LEMMA UnitsFinite ==
  ASSUME NEW S, IsFiniteSet(S), NEW d, \A n \in S : d[n] \in Nat
  PROVE  IsFiniteSet(Units(d, S))
<1> DEFINE f == [n \in S |-> {n} \X (1 .. d[n])]
           T == {{n} \X (1 .. d[n]) : n \in S}
<1>1. f \in Surjection(S, T)
  BY DEF Surjection
<1>2. IsFiniteSet(T)
  <2> HIDE DEF f, T
  <2> QED BY <1>1, FS_Surjection
<1>3. \A n \in S : IsFiniteSet({n} \X (1 .. d[n]))
  <2> TAKE n \in S
  <2>1. IsFiniteSet({n})
    BY FS_Singleton
  <2>2. 1 \in Int /\ d[n] \in Int
    OBVIOUS
  <2>3. IsFiniteSet(1 .. d[n])
    BY <2>2, FS_Interval
  <2> QED BY <2>1, <2>3, FS_Product
<1>4. \A t \in T : IsFiniteSet(t)
  BY <1>3
<1>5. IsFiniteSet(UNION T)
  <2> HIDE DEF T
  <2> QED BY <1>2, <1>4, FS_UNION
<1> QED BY <1>5 DEF Units

LEMMA UnitsOfOneMore ==
  ASSUME NEW S, IsFiniteSet(S), NEW x, x \notin S, NEW d, \A n \in S \cup {x} : d[n] \in Nat
  PROVE  Cardinality(Units(d, S \cup {x})) = Cardinality(Units(d, S)) + d[x]
<1> DEFINE X == {x} \X (1 .. d[x])
<1>1. Units(d, S \cup {x}) = Units(d, S) \cup X
  BY DEF Units
<1>2. Units(d, S) \cap X = {}
  BY DEF Units
<1>3. IsFiniteSet(X) /\ Cardinality(X) = d[x]
  <2>1. IsFiniteSet({x}) /\ Cardinality({x}) = 1
    BY FS_Singleton
  <2>2. IsFiniteSet(1 .. d[x]) /\ Cardinality(1 .. d[x]) = d[x]
    BY FS_Interval
  <2>3. IsFiniteSet(X) /\ Cardinality(X) = 1 * d[x]
    BY <2>1, <2>2, FS_Product
  <2> QED BY <2>3
<1>4. IsFiniteSet(Units(d, S)) /\ Cardinality(Units(d, S)) \in Nat
  BY UnitsFinite, FS_CardinalityType
<1> HIDE DEF X
<1>5. Cardinality(Units(d, S) \cup X) = Cardinality(Units(d, S)) + Cardinality(X) - Cardinality({})
  BY <1>2, <1>3, <1>4, FS_Union
<1>6. Cardinality({}) = 0 /\ d[x] \in Nat
  BY FS_EmptySet
<1>7. Cardinality(Units(d, S) \cup X) = Cardinality(Units(d, S)) + d[x]
  BY <1>3, <1>4, <1>5, <1>6
<1> QED BY <1>1, <1>7

-----------------------------------------------------------------------------
(* The forecast.  The property is about its end; the invariant follows the   *)
(* order, the tails, the path and the play one after another.                *)

Started == inProgress \cup finished
Waiting == ready \cup deferred
Playing == stage \in {"simulate", "done"}

ScheduleTypes ==
  /\ work \in Works
  /\ stage \in {"order", "tails", "path", "simulate", "done", "refused"}
  /\ order \in Seq(ToDo)
  /\ DOMAIN tail \subseteq ToDo
  /\ \A n \in DOMAIN tail : tail[n] \in Nat
  /\ path \in Seq(ToDo)
  /\ ready \subseteq ToDo /\ deferred \subseteq ToDo
  /\ inProgress \subseteq ToDo /\ finished \subseteq ToDo
  /\ started \in [ToDo -> Nat]
  /\ time \in Nat

\* No node comes twice or before one it requires.
OrderInv ==
  /\ \A i, j \in DOMAIN order : order[i] = order[j] => i = j
  /\ \A i \in DOMAIN order : work.requires[order[i]] \subseteq {order[j] : j \in 1 .. i - 1}
  /\ stage \notin {"order", "refused"} => \A n \in ToDo : \E i \in DOMAIN order : order[i] = n

\* A tail is as long as the longest of those it can go on with.
TailOf(n) ==
  /\ Dependents(n) \subseteq DOMAIN tail
  /\ \A c \in Dependents(n) : work.duration[n] + tail[c] <= tail[n]
  /\ \/ tail[n] = work.duration[n]
     \/ \E c \in Dependents(n) : tail[n] = work.duration[n] + tail[c]

\* The tails known are those of the end of the order.
TailInv ==
  /\ Cardinality(DOMAIN tail) <= Len(order)
  /\ DOMAIN tail = {order[i] : i \in Len(order) - Cardinality(DOMAIN tail) + 1 .. Len(order)}
  /\ stage \in {"order", "refused"} => DOMAIN tail = {}
  /\ stage = "path" \/ Playing => DOMAIN tail = ToDo
  /\ \A n \in DOMAIN tail : TailOf(n)

\* The path goes forward in the order; what is on it and what is left of it make the
\* longest tail.
PathInv ==
  /\ stage \notin {"path", "simulate", "done"} => path = <<>>
  /\ path # <<>> =>
       /\ \A n \in ToDo : tail[n] <= tail[path[1]]
       /\ \A i \in DOMAIN path : \E a, b \in DOMAIN order :
            order[a] = path[i] /\ order[b] = Last(path) /\ a <= b
       /\ Total(ToSet(path)) + tail[Last(path)] = tail[path[1]] + work.duration[Last(path)]
       /\ Playing => Dependents(Last(path)) = {}
  /\ path = <<>> /\ Playing => ToDo = {}

\* The play: what may start is what requires only what has finished.
PlayInv ==
  /\ \A n \in ToDo : work.requires[n] \subseteq finished <=> n \in Waiting \cup Started
  /\ Waiting \cap Started = {}
  /\ ready \cap deferred = {} /\ inProgress \cap finished = {}
  /\ \A n \in finished : FinishAt(n) <= time
  /\ \A n \in inProgress : started[n] <= time /\ time <= FinishAt(n)
  /\ \A n \in Started : \A r \in work.requires[n] : FinishAt(r) <= started[n]
  /\ stage = "done" => ready = {} /\ inProgress = {}
  /\ ~ Playing => Started = {} /\ deferred = {} /\ time = 0

\* The slots: one waits only when all are in use, and at no time are there more.
SlotInv ==
  /\ SlotsUsed <= SlotBudget
  /\ deferred # {} => SlotsUsed = SlotBudget
  /\ \A t \in Nat : Cardinality(HoldersAt(t) \cap Started) <= SlotBudget

\* The units of time in which a slot has been held.
Held == {p \in (Started \cap work.holds) \X (1 .. time) :
           started[p[1]] < p[2] /\ p[2] <= FinishAt(p[1])}
InBound(x) == SlotBudget * x <= SlotBudget * Floor + Cardinality(Held)

\* How far the play is behind the best: by no more than the time the slots were held, as
\* one that waited did so while all of them were, and one that did not goes on from a
\* node that was no further behind.
BehindInv ==
  Playing =>
    /\ InBound(time)
    /\ \A n \in Waiting : InBound(time + tail[n])
    /\ \A n \in inProgress : InBound(started[n] + tail[n])

ScheduleInv ==
  ScheduleTypes /\ OrderInv /\ TailInv /\ PathInv /\ PlayInv /\ SlotInv /\ BehindInv

LEMMA WorkFacts ==
  ASSUME ScheduleTypes
  PROVE  /\ IsFiniteSet(ToDo)
         /\ work.requires \in [ToDo -> SUBSET ToDo]
         /\ work.holds \subseteq ToDo
         /\ \A n \in ToDo : work.duration[n] \in Nat
BY ScheduleAssumption DEF ScheduleTypes, ToDo

LEMMA ToSetAppend ==
  ASSUME NEW S, NEW s \in Seq(S), NEW x \in S
  PROVE  ToSet(Append(s, x)) = ToSet(s) \cup {x}
<1>1. \A i \in 1 .. Len(s) : Append(s, x)[i] = s[i]
  OBVIOUS
<1>2. Len(Append(s, x)) = Len(s) + 1 /\ Append(s, x)[Len(s) + 1] = x /\ Len(s) \in Nat
  OBVIOUS
<1>3. DOMAIN s = 1 .. Len(s) /\ DOMAIN Append(s, x) = 1 .. Len(s) + 1
  OBVIOUS
<1> HIDE DEF ToSet
<1>4. ToSet(s) = {s[i] : i \in 1 .. Len(s)} /\ ToSet(Append(s, x)) = {Append(s, x)[i] : i \in 1 .. Len(s) + 1}
  BY <1>3 DEF ToSet
<1>5. ASSUME NEW y \in ToSet(Append(s, x)) PROVE y \in ToSet(s) \cup {x}
  <2>1. PICK i \in 1 .. Len(s) + 1 : y = Append(s, x)[i]
    BY <1>4
  <2>2. CASE i = Len(s) + 1
    BY <2>1, <2>2, <1>2
  <2>3. CASE i # Len(s) + 1
    <3>1. i \in 1 .. Len(s)
      BY <2>3, <1>2
    <3> QED BY <3>1, <2>1, <1>1, <1>4
  <2> QED BY <2>2, <2>3
<1>6. ASSUME NEW y \in ToSet(s) PROVE y \in ToSet(Append(s, x))
  <2>1. PICK i \in 1 .. Len(s) : y = s[i]
    BY <1>4
  <2>2. i \in 1 .. Len(s) + 1 /\ y = Append(s, x)[i]
    BY <2>1, <1>1, <1>2
  <2> QED BY <2>2, <1>4
<1>7. x \in ToSet(Append(s, x))
  <2>1. Len(s) + 1 \in 1 .. Len(s) + 1
    BY <1>2
  <2> QED BY <2>1, <1>2, <1>4
<1> QED BY <1>5, <1>6, <1>7

LEMMA ScheduleInitInv == ScheduleInit => ScheduleInv
<1> SUFFICES ASSUME ScheduleInit PROVE ScheduleInv
  OBVIOUS
<1>1. ScheduleTypes
  BY DEF ScheduleInit, ScheduleTypes, ToDo
<1> USE <1>1, WorkFacts
<1>2. OrderInv
  BY DEF ScheduleInit, OrderInv
<1>3. TailInv
  <2>1. DOMAIN tail = {} /\ Len(order) = 0
    BY DEF ScheduleInit
  <2>2. Cardinality(DOMAIN tail) = 0
    BY <2>1, FS_EmptySet
  <2> QED BY <2>1, <2>2 DEF ScheduleInit, TailInv, Playing
<1>4. PathInv
  BY DEF ScheduleInit, PathInv, Playing
<1>5. PlayInv
  BY DEF ScheduleInit, PlayInv, Playing, Started, Waiting
<1>6. SlotInv
  <2>1. inProgress \cap work.holds = {} /\ \A t \in Nat : HoldersAt(t) \cap Started = {}
    BY DEF ScheduleInit, Started
  <2>2. Cardinality({}) = 0 /\ deferred = {} /\ 0 <= SlotBudget
    BY FS_EmptySet, ScheduleAssumption DEF ScheduleInit
  <2> QED BY <2>1, <2>2 DEF SlotInv, SlotsUsed
<1>7. BehindInv
  BY DEF ScheduleInit, BehindInv, Playing
<1> QED BY <1>2, <1>3, <1>4, <1>5, <1>6, <1>7 DEF ScheduleInv

\* What is taken next waits for none that is not taken.
LEMMA TakenNext ==
  ASSUME ScheduleInv, TakeNext
  PROVE  \/ /\ stage' = "order"
            /\ \E n \in ToDo : /\ order' = Append(order, n)
                               /\ \A i \in DOMAIN order : order[i] # n
                               /\ work.requires[n] \subseteq {order[j] : j \in 1 .. Len(order)}
         \/ /\ order' = order
            /\ stage' \in {"refused", "tails"}
            /\ stage' = "tails" => \A n \in ToDo : \E i \in DOMAIN order : order[i] = n
<1> DEFINE left == ToDo \ ToSet(order)
           free == {n \in left : work.requires[n] \subseteq ToSet(order)}
<1>1. ToSet(order) = {order[j] : j \in 1 .. Len(order)} /\ DOMAIN order = 1 .. Len(order)
  BY DEF ToSet, ScheduleInv, ScheduleTypes
<1>2. CASE free # {}
  <2> DEFINE n == CHOOSE m \in free : TRUE
  <2>1. n \in free
    BY <1>2
  <2>2. order' = Append(order, n) /\ stage' = stage /\ stage = "order"
    BY <1>2 DEF TakeNext
  <2>3. n \in ToDo /\ n \notin ToSet(order) /\ work.requires[n] \subseteq ToSet(order)
    BY <2>1
  <2> HIDE DEF n
  <2> QED BY <2>2, <2>3, <1>1
<1>3. CASE free = {}
  <2>1. order' = order /\ stage' = (IF left = {} THEN "tails" ELSE "refused")
    BY <1>3 DEF TakeNext
  <2>2. left = {} => \A n \in ToDo : \E i \in DOMAIN order : order[i] = n
    BY <1>1
  <2> QED BY <2>1, <2>2
<1> QED BY <1>2, <1>3

\* Of the last of the order that has no tail those that require it have.
LEMMA TailOfNext ==
  ASSUME ScheduleInv, TailNext
  PROVE  \/ /\ stage' = "tails"
            /\ \E n \in ToDo \ DOMAIN tail :
                 /\ Len(order) - Cardinality(DOMAIN tail) \in 1 .. Len(order)
                 /\ n = order[Len(order) - Cardinality(DOMAIN tail)]
                 /\ DOMAIN tail' = DOMAIN tail \cup {n}
                 /\ \A m \in DOMAIN tail : tail'[m] = tail[m]
                 /\ tail'[n] \in Nat
                 /\ Dependents(n) \subseteq DOMAIN tail
                 /\ \A c \in Dependents(n) : work.duration[n] + tail[c] <= tail'[n]
                 /\ \/ tail'[n] = work.duration[n]
                    \/ \E c \in Dependents(n) : tail'[n] = work.duration[n] + tail[c]
         \/ stage' = "path" /\ tail' = tail /\ DOMAIN tail = ToDo
<1> USE DEF ScheduleInv
<1> DEFINE known == Cardinality(DOMAIN tail)
           left == Len(order) - known
<1>1. IsFiniteSet(DOMAIN tail) /\ known \in Nat /\ Len(order) \in Nat /\ left \in Nat
  BY WorkFacts, FS_Subset, FS_CardinalityType DEF ScheduleTypes, TailInv
<1>2. DOMAIN order = 1 .. Len(order) /\ stage = "tails"
  BY DEF ScheduleTypes, TailNext
<1>3. \A n \in ToDo : \E i \in DOMAIN order : order[i] = n
  BY <1>2 DEF OrderInv
<1>4. DOMAIN tail = {order[i] : i \in left + 1 .. Len(order)}
  BY DEF TailInv
<1>5. CASE left > 0
  <2> DEFINE n == order[left]
             most == Max({0} \cup {tail[c] : c \in Dependents(n)})
  <2>1. left \in 1 .. Len(order) /\ n \in ToDo
    BY <1>5, <1>1, <1>2 DEF ScheduleTypes
  <2>2. n \notin DOMAIN tail
    <3>1. \A i \in left + 1 .. Len(order) : order[i] # n
      BY <1>1, <1>2, <2>1 DEF OrderInv
    <3> QED BY <3>1, <1>4
  <2>3. ASSUME NEW c \in Dependents(n) PROVE c \in DOMAIN tail
    <3>1. c \in ToDo /\ n \in work.requires[c]
      BY DEF Dependents
    <3>2. PICK j \in DOMAIN order : order[j] = c
      BY <3>1, <1>3
    <3>3. PICK k \in 1 .. j - 1 : order[k] = n
      BY <3>1, <3>2 DEF OrderInv
    <3>4. k = left
      BY <3>2, <3>3, <2>1, <1>2 DEF OrderInv
    <3>5. j \in left + 1 .. Len(order)
      BY <3>2, <3>3, <3>4, <1>1, <1>2
    <3> QED BY <3>5, <3>2, <1>4
  <2>4. IsFiniteSet(Dependents(n)) /\ \A c \in Dependents(n) : tail[c] \in Nat
    <3>1. Dependents(n) \in SUBSET DOMAIN tail
      BY <2>3
    <3> QED BY <3>1, <1>1, FS_Subset DEF ScheduleTypes
  <2>5. /\ most \in Nat
        /\ \A c \in Dependents(n) : tail[c] <= most
        /\ most = 0 \/ \E c \in Dependents(n) : most = tail[c]
    <3> DEFINE E == Dependents(n)
    <3>1. IsFiniteSet(E) /\ \A c \in E : tail[c] \in Nat
      BY <2>4
    <3> HIDE DEF E
    <3> DEFINE least == 0
               tails == tail
    <3>2. least \in Nat /\ \A c \in E : tails[c] \in Nat
      BY <3>1
    <3> HIDE DEF least, tails
    <3>3. Max({least} \cup {tails[c] : c \in E}) \in Nat
      BY <3>1, <3>2, MaxOfOneMore
    <3>4. \A c \in E : tails[c] <= Max({least} \cup {tails[d] : d \in E})
      BY <3>1, <3>2, MaxOfOneMore
    <3>5. \/ Max({least} \cup {tails[c] : c \in E}) = least
          \/ \E c \in E : Max({least} \cup {tails[d] : d \in E}) = tails[c]
      BY <3>1, <3>2, MaxOfOneMore
    <3> QED BY <3>3, <3>4, <3>5 DEF E, least, tails
  <2>6. /\ tail' = [m \in DOMAIN tail \cup {n} |-> IF m \in DOMAIN tail THEN tail[m]
                      ELSE work.duration[m] + Max({0} \cup {tail[c] : c \in Dependents(m)})]
        /\ stage' = stage
    <3>1. left # 0
      BY <1>1, <1>5
    <3> QED BY <3>1, Zenon DEF TailNext
  <2>7. /\ DOMAIN tail' = DOMAIN tail \cup {n}
        /\ \A m \in DOMAIN tail : tail'[m] = tail[m]
        /\ tail'[n] = work.duration[n] + most
    BY <2>6, <2>2
  <2>8. work.duration[n] \in Nat
    BY <2>1, WorkFacts
  <2> HIDE DEF most, n
  <2>9. \A c \in Dependents(n) : work.duration[n] + tail[c] <= tail'[n]
    BY <2>4, <2>5, <2>7, <2>8
  <2>10. \/ tail'[n] = work.duration[n]
         \/ \E c \in Dependents(n) : tail'[n] = work.duration[n] + tail[c]
    BY <2>5, <2>7, <2>8
  <2>11. n = order[Len(order) - Cardinality(DOMAIN tail)]
    BY DEF n
  <2>12. tail'[n] \in Nat
    BY <2>5, <2>7, <2>8
  <2> QED BY <2>1, <2>2, <2>3, <2>6, <2>7, <2>9, <2>10, <2>11, <2>12, <1>2
<1>6. CASE left = 0
  <2>1. left + 1 .. Len(order) = DOMAIN order
    BY <1>1, <1>2, <1>6
  <2>2. DOMAIN tail = {order[i] : i \in DOMAIN order}
    BY <2>1, <1>4
  <2>3. DOMAIN tail = ToDo
    BY <2>2, <1>3 DEF ScheduleTypes
  <2> QED BY <2>3, <1>1, <1>6 DEF TailNext
<1>7. left > 0 \/ left = 0
  BY <1>1
<1> HIDE DEF left
<1> QED BY <1>5, <1>6, <1>7

\* The path goes on with the longest there is.
LEMMA PathGoesOn ==
  ASSUME ScheduleInv, PathNext
  PROVE  \/ /\ stage' = "path"
            /\ \E n \in IF path = <<>> THEN ToDo ELSE Dependents(Last(path)) :
                 /\ n \in ToDo
                 /\ path' = Append(path, n)
                 /\ \A m \in IF path = <<>> THEN ToDo ELSE Dependents(Last(path)) :
                      tail[m] <= tail[n]
         \/ /\ stage' = "simulate" /\ path' = path
            /\ (IF path = <<>> THEN ToDo ELSE Dependents(Last(path))) = {}
<1> USE DEF ScheduleInv
<1> DEFINE next == IF path = <<>> THEN ToDo ELSE Dependents(Last(path))
<1>1. DOMAIN tail = ToDo /\ stage = "path"
  BY DEF PathNext, TailInv
<1>2. next \in SUBSET ToDo
  BY DEF Dependents
<1>3. IsFiniteSet(next) /\ \A m \in next : tail[m] \in Nat
  <2> HIDE DEF next
  <2>1. IsFiniteSet(next)
    BY <1>2, WorkFacts, FS_Subset
  <2> QED BY <2>1, <1>1, <1>2 DEF ScheduleTypes
<1>4. CASE next # {}
  <2>1. path' = Append(path, Longest(next)) /\ stage' = stage
    BY <1>4 DEF PathNext
  <2>2. \E n \in next : \A m \in next : tail[m] <= tail[n]
    <3> HIDE DEF next
    <3> QED BY <1>3, <1>4, OneHasMost
  <2>3. Longest(next) \in next /\ \A m \in next : tail[m] <= tail[Longest(next)]
    <3> HIDE DEF next
    <3> QED BY <2>2 DEF Longest
  <2> DEFINE n == Longest(next)
  <2>4. n \in next /\ n \in ToDo /\ \A m \in next : tail[m] <= tail[n]
    BY <2>3, <1>2
  <2> QED BY <2>1, <2>4, <1>1
<1>5. CASE next = {}
  BY <1>5 DEF PathNext
<1> QED BY <1>4, <1>5

LEMMA ScheduleTypesStep ==
  ASSUME ScheduleInv, ScheduleNext
  PROVE  ScheduleTypes'
<1> USE DEF ScheduleInv
<1>1. CASE TakeNext
  <2> USE <1>1 DEF TakeNext, derived, played
  <2>1. /\ work' \in Works
        /\ stage' \in {"order", "tails", "path", "simulate", "done", "refused"}
        /\ UNCHANGED <<tail, path, ready, deferred, inProgress, started, finished, time>>
        /\ ToDo' = ToDo
    BY DEF ScheduleTypes, ToDo
  <2>2. order' = order \/ \E n \in ToDo : order' = Append(order, n)
    BY TakenNext
  <2>3. order' \in Seq(ToDo)
    <3>1. order \in Seq(ToDo)
      BY DEF ScheduleTypes
    <3>2. \A n \in ToDo : Append(order, n) \in Seq(ToDo)
      BY <3>1, AppendProperties
    <3> QED BY <2>2, <3>1, <3>2
  <2> QED BY <2>1, <2>3 DEF ScheduleTypes
<1>2. CASE TailNext
  <2> USE <1>2 DEF TailNext, derived, played
  <2>1. /\ work' \in Works
        /\ stage' \in {"order", "tails", "path", "simulate", "done", "refused"}
        /\ UNCHANGED <<order, path, ready, deferred, inProgress, started, finished, time>>
        /\ ToDo' = ToDo
    BY DEF ScheduleTypes, ToDo
  <2>2. DOMAIN tail' \subseteq ToDo /\ \A n \in DOMAIN tail' : tail'[n] \in Nat
    BY TailOfNext DEF ScheduleTypes
  <2> QED BY <2>1, <2>2 DEF ScheduleTypes
<1>3. CASE PathNext
  <2> USE <1>3 DEF PathNext, derived, played
  <2>1. /\ work' \in Works
        /\ stage' \in {"order", "tails", "path", "simulate", "done", "refused"}
        /\ UNCHANGED <<order, tail, ready, deferred, inProgress, started, finished, time>>
        /\ ToDo' = ToDo
    BY DEF ScheduleTypes, ToDo
  <2>2. path' = path \/ \E n \in ToDo : path' = Append(path, n)
    BY PathGoesOn
  <2>3. path' \in Seq(ToDo)
    <3>1. path \in Seq(ToDo)
      BY DEF ScheduleTypes
    <3>2. \A n \in ToDo : Append(path, n) \in Seq(ToDo)
      BY <3>1, AppendProperties
    <3> QED BY <2>2, <3>1, <3>2
  <2> QED BY <2>1, <2>3 DEF ScheduleTypes
<1>4. CASE Dispatch
  <2> USE <1>4 DEF Dispatch, derived, played
  <2>1. /\ UNCHANGED <<work, stage, order, tail, path, finished, time>> /\ ToDo' = ToDo
    BY DEF ToDo
  <2>2. PICK n \in ready :
          /\ ready' = ready \ {n}
          /\ \/ deferred' = deferred \cup {n} /\ UNCHANGED <<inProgress, started>>
             \/ /\ inProgress' = inProgress \cup {n} /\ started' = [started EXCEPT ![n] = time]
                /\ UNCHANGED deferred
    OBVIOUS
  <2>3. started' \in [ToDo -> Nat]
    BY <2>2 DEF ScheduleTypes
  <2> QED BY <2>1, <2>2, <2>3 DEF ScheduleTypes
<1>5. CASE FinishNext
  <2> USE <1>5 DEF FinishNext, derived, played
  <2>1. UNCHANGED <<work, stage, order, tail, path, started>> /\ ToDo' = ToDo
    BY DEF ToDo
  <2>2. PICK n \in inProgress :
          /\ time' = FinishAt(n) /\ inProgress' = inProgress \ {n}
          /\ finished' = finished \cup {n}
          /\ ready' \subseteq deferred \cup Dependents(n)
          /\ deferred' \subseteq deferred \cup Dependents(n)
    BY DEF ReadyAgain
  <2>3. FinishAt(n) \in Nat /\ Dependents(n) \subseteq ToDo
    BY WorkFacts DEF FinishAt, Dependents, ScheduleTypes
  <2> QED BY <2>1, <2>2, <2>3 DEF ScheduleTypes
<1>6. CASE Played
  BY <1>6 DEF Played, derived, played, ScheduleTypes, ToDo
<1> QED BY <1>1, <1>2, <1>3, <1>4, <1>5, <1>6 DEF ScheduleNext

\* The play leaves what it goes by alone.
LEMMA PlayLeaves ==
  ASSUME Dispatch \/ FinishNext \/ Played
  PROVE  /\ UNCHANGED <<work, order, tail, path>>
         /\ stage = "simulate" /\ stage' \in {"simulate", "done"}
BY DEF Dispatch, FinishNext, Played, derived, played

LEMMA OrderInvStep ==
  ASSUME ScheduleInv, ScheduleNext
  PROVE  OrderInv'
<1>1. CASE TakeNext
  <2>1. work' = work
    BY <1>1 DEF TakeNext
  <2>2. CASE order' = order
    BY <2>1, <2>2, <1>1, TakenNext DEF ScheduleInv, OrderInv, ToDo
  <2>3. CASE /\ stage' = "order"
             /\ \E n \in ToDo : /\ order' = Append(order, n)
                                /\ \A i \in DOMAIN order : order[i] # n
                                /\ work.requires[n] \subseteq {order[j] : j \in 1 .. Len(order)}
    <3>1. PICK n \in ToDo : /\ order' = Append(order, n)
                            /\ \A i \in DOMAIN order : order[i] # n
                            /\ work.requires[n] \subseteq {order[j] : j \in 1 .. Len(order)}
      BY <2>3
    <3> DEFINE k == Len(order)
    <3>2. order \in Seq(ToDo) /\ k \in Nat /\ DOMAIN order = 1 .. k
      BY DEF ScheduleInv, ScheduleTypes
    <3>3. DOMAIN order' = 1 .. k + 1 /\ order'[k + 1] = n /\ \A i \in 1 .. k : order'[i] = order[i]
      BY <3>1, <3>2, AppendProperties
    <3> HIDE DEF k
    <3>4. \A i, j \in DOMAIN order' : order'[i] = order'[j] => i = j
      <4>1. ASSUME NEW i \in DOMAIN order', NEW j \in DOMAIN order', order'[i] = order'[j], i # j PROVE FALSE
        <5>1. i \in 1 .. k \/ i = k + 1
          BY <3>2, <3>3
        <5>2. j \in 1 .. k \/ j = k + 1
          BY <3>2, <3>3
        <5>3. \A a, b \in 1 .. k : order[a] = order[b] => a = b
          BY <3>2 DEF ScheduleInv, OrderInv
        <5> QED BY <4>1, <5>1, <5>2, <5>3, <3>1, <3>2, <3>3
      <4> QED BY <4>1
    <3>5. ASSUME NEW i \in DOMAIN order'
          PROVE  work.requires[order'[i]] \subseteq {order'[j] : j \in 1 .. i - 1}
      <4>1. CASE i = k + 1
        <5>1. work.requires[order'[i]] \subseteq {order[j] : j \in 1 .. k}
          BY <3>1, <3>3, <4>1 DEF k
        <5>2. {order[j] : j \in 1 .. k} \subseteq {order'[j] : j \in 1 .. k}
          BY <3>3
        <5>3. i - 1 = k
          BY <4>1, <3>2
        <5> QED BY <5>1, <5>2, <5>3
      <4>2. CASE i # k + 1
        <5>1. i \in 1 .. k
          BY <4>2, <3>2, <3>3
        <5>2. work.requires[order[i]] \subseteq {order[j] : j \in 1 .. i - 1}
          BY <5>1, <3>2 DEF ScheduleInv, OrderInv
        <5>3. \A j \in 1 .. i - 1 : j \in 1 .. k
          BY <5>1, <3>2
        <5>4. {order[j] : j \in 1 .. i - 1} \subseteq {order'[j] : j \in 1 .. i - 1}
          BY <5>3, <3>3
        <5> QED BY <5>1, <5>2, <5>4, <3>3
      <4> QED BY <4>1, <4>2
    <3> QED BY <3>4, <3>5, <2>1, <2>3 DEF OrderInv
  <2> QED BY <2>2, <2>3, <1>1, TakenNext
<1>2. CASE TailNext \/ PathNext
  BY <1>2 DEF TailNext, PathNext, ScheduleInv, OrderInv, ToDo
<1>3. CASE Dispatch \/ FinishNext \/ Played
  BY <1>3, PlayLeaves DEF ScheduleInv, OrderInv, ToDo
<1> QED BY <1>1, <1>2, <1>3 DEF ScheduleNext

LEMMA TailInvStep ==
  ASSUME ScheduleInv, ScheduleNext
  PROVE  TailInv'
<1>1. CASE TakeNext
  <2>1. tail' = tail /\ work' = work /\ DOMAIN tail = {}
    BY <1>1 DEF TakeNext, ScheduleInv, TailInv
  <2>2. Cardinality(DOMAIN tail) = 0
    BY <2>1, FS_EmptySet
  <2>3. Len(order') \in Nat
    <3>1. order' \in Seq(ToDo')
      BY ScheduleTypesStep DEF ScheduleTypes
    <3> QED BY <3>1
  <2>4. stage' \in {"order", "refused", "tails"}
    BY <1>1, TakenNext
  <2> QED BY <2>1, <2>2, <2>3, <2>4 DEF TailInv, Playing
<1>2. CASE TailNext
  <2>1. order' = order /\ work' = work
    BY <1>2 DEF TailNext
  <2>2. CASE stage' = "path" /\ tail' = tail /\ DOMAIN tail = ToDo
    BY <2>1, <2>2 DEF ScheduleInv, TailInv, TailOf, Dependents, ToDo
  <2>3. CASE stage' # "path"
    <3> DEFINE known == Cardinality(DOMAIN tail)
               left == Len(order) - known
    <3>1. PICK n \in ToDo \ DOMAIN tail :
                 /\ left \in 1 .. Len(order)
                 /\ n = order[left]
                 /\ DOMAIN tail' = DOMAIN tail \cup {n}
                 /\ \A m \in DOMAIN tail : tail'[m] = tail[m]
                 /\ tail'[n] \in Nat
                 /\ Dependents(n) \subseteq DOMAIN tail
                 /\ \A c \in Dependents(n) : work.duration[n] + tail[c] <= tail'[n]
                 /\ \/ tail'[n] = work.duration[n]
                    \/ \E c \in Dependents(n) : tail'[n] = work.duration[n] + tail[c]
      BY <1>2, <2>3, TailOfNext
    <3>2. IsFiniteSet(DOMAIN tail) /\ known \in Nat /\ Len(order) \in Nat
      BY WorkFacts, FS_Subset, FS_CardinalityType DEF ScheduleInv, ScheduleTypes
    <3>3. Cardinality(DOMAIN tail') = known + 1
      <4>1. Cardinality(DOMAIN tail \cup {n}) = known + 1
        BY <3>2, FS_AddElement
      <4> QED BY <4>1, <3>1
    <3>4. Cardinality(DOMAIN tail') <= Len(order) /\ Len(order) - Cardinality(DOMAIN tail') + 1 = left
      BY <3>1, <3>2, <3>3
    <3>5. DOMAIN tail = {order[i] : i \in left + 1 .. Len(order)}
      BY DEF ScheduleInv, TailInv
    <3>6. left .. Len(order) = {left} \cup (left + 1 .. Len(order))
      BY <3>1, <3>2
    <3> HIDE DEF left
    <3>7. DOMAIN tail' = {order[i] : i \in left .. Len(order)}
      BY <3>1, <3>5, <3>6
    <3>8. ASSUME NEW m \in DOMAIN tail' PROVE TailOf(m)'
      <4>1. Dependents(m)' = Dependents(m)
        BY <2>1 DEF Dependents, ToDo
      <4>2. CASE m = n
        BY <4>1, <4>2, <3>1, <2>1 DEF TailOf
      <4>3. CASE m \in DOMAIN tail
        <5>1. TailOf(m)
          BY <4>3 DEF ScheduleInv, TailInv
        <5> QED BY <5>1, <4>1, <4>3, <3>1, <2>1 DEF TailOf
      <4> QED BY <4>2, <4>3, <3>1
    <3>9. stage' = "tails"
      BY <1>2, <2>3, TailOfNext
    <3> QED BY <3>4, <3>7, <3>8, <3>9, <2>1 DEF TailInv, Playing
  <2> QED BY <2>2, <2>3, <1>2, TailOfNext
<1>3. CASE PathNext
  <2>1. stage = "path" /\ UNCHANGED <<work, order, tail>> /\ stage' \in {"path", "simulate"}
    BY <1>3, PathGoesOn DEF PathNext
  <2> QED BY <2>1 DEF ScheduleInv, TailInv, TailOf, Dependents, ToDo, Playing
<1>4. CASE Dispatch \/ FinishNext \/ Played
  BY <1>4, PlayLeaves DEF ScheduleInv, TailInv, TailOf, Dependents, ToDo, Playing
<1> QED BY <1>1, <1>2, <1>3, <1>4 DEF ScheduleNext

LEMMA TotalOfOneMore ==
  ASSUME ScheduleTypes, NEW S \in SUBSET ToDo, NEW n \in ToDo \ S
  PROVE  Total(S \cup {n}) = Total(S) + work.duration[n] /\ Total(S) \in Nat
<1> DEFINE d == work.duration
<1>1. IsFiniteSet(S) /\ \A m \in S \cup {n} : d[m] \in Nat
  BY WorkFacts, FS_Subset
<1> HIDE DEF d
<1>2. Cardinality(Units(d, S \cup {n})) = Cardinality(Units(d, S)) + d[n]
  BY <1>1, UnitsOfOneMore
<1>3. Cardinality(Units(d, S)) \in Nat
  BY <1>1, UnitsFinite, FS_CardinalityType
<1> QED BY <1>2, <1>3 DEF Total, Units, d

LEMMA PathInvStep ==
  ASSUME ScheduleInv, ScheduleNext
  PROVE  PathInv'
<1>1. CASE TakeNext \/ TailNext
  <2>1. path' = path /\ path = <<>> /\ stage' \notin {"simulate", "done"}
    BY <1>1, TakenNext, TailOfNext DEF TakeNext, TailNext, ScheduleInv, PathInv
  <2> QED BY <2>1 DEF PathInv, Playing
<1>2. CASE PathNext
  <2>1. UNCHANGED <<work, order, tail>>
    BY <1>2 DEF PathNext
  <2>2. CASE stage' = "simulate"
    <3>1. path' = path /\ (IF path = <<>> THEN ToDo ELSE Dependents(Last(path))) = {}
      BY <1>2, <2>2, PathGoesOn
    <3>2. CASE path = <<>>
      BY <2>1, <2>2, <3>1, <3>2 DEF PathInv, ToDo
    <3>3. CASE path # <<>>
      <4>1. /\ Dependents(Last(path)) = {}
            /\ Dependents(Last(path))' = Dependents(Last(path))
            /\ ToDo' = ToDo
        BY <3>1, <3>3, <2>1 DEF Dependents, ToDo
      <4> QED BY <2>1, <2>2, <3>1, <3>3, <4>1 DEF ScheduleInv, PathInv, Total
    <3> QED BY <3>2, <3>3
  <2>3. CASE stage' = "path"
    <3>1. PICK n \in ToDo :
            /\ n \in IF path = <<>> THEN ToDo ELSE Dependents(Last(path))
            /\ path' = Append(path, n)
            /\ \A m \in IF path = <<>> THEN ToDo ELSE Dependents(Last(path)) :
                 tail[m] <= tail[n]
      BY <1>2, <2>3, PathGoesOn
    <3> DEFINE k == Len(path)
    <3>2. path \in Seq(ToDo) /\ k \in Nat /\ DOMAIN path = 1 .. k
      BY DEF ScheduleInv, ScheduleTypes
    <3>3. DOMAIN path' = 1 .. k + 1 /\ path'[k + 1] = n /\ \A i \in 1 .. k : path'[i] = path[i]
      BY <3>1, <3>2, AppendProperties
    <3>4. Last(path') = n /\ path' # <<>> /\ Len(path') = k + 1
      BY <3>1, <3>2, <3>3, AppendProperties DEF Last
    <3>5. ToSet(path') = ToSet(path) \cup {n}
      BY <3>1, <3>2, ToSetAppend
    <3>6. DOMAIN tail = ToDo /\ \A m \in ToDo : tail[m] \in Nat /\ TailOf(m) /\ work.duration[m] \in Nat
      BY <1>2, WorkFacts DEF PathNext, ScheduleInv, TailInv, ScheduleTypes
    <3>7. \A m \in ToDo : \E i \in DOMAIN order : order[i] = m
      BY <1>2 DEF PathNext, ScheduleInv, OrderInv
    <3>8. order \in Seq(ToDo) /\ DOMAIN order = 1 .. Len(order)
      BY DEF ScheduleInv, ScheduleTypes
    <3>9. ToDo' = ToDo
      BY <2>1 DEF ToDo
    <3>10. PICK b \in DOMAIN order : order[b] = n
      BY <3>7
    <3>11. CASE path = <<>>
      <4>1. k = 0
        BY <3>11
      <4>2. ToSet(path') = {n} /\ path'[1] = n
        BY <3>3, <3>5, <3>11, <4>1 DEF ToSet
      <4>3. Total(ToSet(path')) = work.duration[n]
        <5>1. Total({} \cup {n}) = Total({}) + work.duration[n]
          BY TotalOfOneMore DEF ScheduleInv
        <5>2. Total({}) = 0
          <6>1. UNION {{m} \X (1 .. work.duration[m]) : m \in {}} = {}
            OBVIOUS
          <6> QED BY <6>1, FS_EmptySet DEF Total
        <5> QED BY <5>1, <5>2, <4>2, <3>6
      <4>4. \A i \in DOMAIN path' : path'[i] = n
        BY <3>3, <4>1
      <4>5. \A i \in DOMAIN path' : \E a, c \in DOMAIN order :
              order[a] = path'[i] /\ order[c] = n /\ a <= c
        BY <4>4, <3>10, <3>8
      <4>6. \A m \in ToDo : tail[m] <= tail[n]
        BY <3>1, <3>11
      <4>7. Total(ToSet(path))' = Total(ToSet(path'))
        BY <2>1 DEF Total
      <4>8. Total(ToSet(path')) + tail[n] = tail[n] + work.duration[n]
        BY <4>3, <3>6
      <4> QED BY <2>1, <2>3, <3>4, <3>9, <4>2, <4>5, <4>6, <4>7, <4>8 DEF PathInv, Playing
    <3>12. CASE path # <<>>
      <4> DEFINE l == Last(path)
      <4>1. l = path[k] /\ k \in 1 .. k /\ l \in ToDo /\ path[1] \in ToDo /\ 1 \in 1 .. k
        BY <3>2, <3>12 DEF Last
      <4>2. n \in Dependents(l) /\ \A m \in Dependents(l) : tail[m] <= tail[n]
        BY <3>1, <3>12
      <4>3. PICK a \in 1 .. b - 1 : order[a] = l
        <5>1. l \in work.requires[n]
          BY <4>2 DEF Dependents
        <5> QED BY <5>1, <3>10 DEF ScheduleInv, OrderInv
      <4>4. a \in DOMAIN order /\ a < b
        BY <4>3, <3>8, <3>10
      <4> HIDE DEF l, k
      <4>5. ASSUME NEW i \in 1 .. k PROVE \E c \in DOMAIN order : order[c] = path[i] /\ c < b
        <5>1. PICK c, e \in DOMAIN order : order[c] = path[i] /\ order[e] = l /\ c <= e
          BY <3>2, <3>12 DEF ScheduleInv, PathInv, l
        <5>2. e = a
          BY <5>1, <4>3, <4>4 DEF ScheduleInv, OrderInv
        <5> QED BY <5>1, <5>2, <4>4, <3>8
      <4>6. n \notin ToSet(path)
        <5>1. ASSUME NEW i \in 1 .. k, path[i] = n PROVE FALSE
          <6>1. PICK c \in DOMAIN order : order[c] = path[i] /\ c < b
            BY <4>5
          <6>2. c = b
            BY <6>1, <5>1, <3>10 DEF ScheduleInv, OrderInv
          <6> QED BY <6>1, <6>2, <3>8
        <5> QED BY <5>1, <3>2 DEF ToSet
      <4>7. ToSet(path) \in SUBSET ToDo
        BY <3>2 DEF ToSet
      <4>8. Total(ToSet(path')) = Total(ToSet(path)) + work.duration[n] /\ Total(ToSet(path)) \in Nat
        <5>1. n \in ToDo \ ToSet(path)
          BY <4>6
        <5> QED BY <5>1, <4>7, <3>5, TotalOfOneMore DEF ScheduleInv
      <4>9. tail[l] = work.duration[l] + tail[n]
        <5>1. TailOf(l) /\ Dependents(l) \subseteq ToDo
          BY <4>1, <3>6 DEF Dependents
        <5>2. work.duration[l] + tail[n] <= tail[l]
          BY <5>1, <4>2 DEF TailOf
        <5>3. CASE tail[l] = work.duration[l]
          BY <5>2, <5>3, <3>6, <4>1
        <5>4. CASE \E c \in Dependents(l) : tail[l] = work.duration[l] + tail[c]
          <6>1. PICK c \in Dependents(l) : tail[l] = work.duration[l] + tail[c]
            BY <5>4
          <6>2. tail[c] <= tail[n] /\ c \in ToDo
            BY <4>2, <5>1
          <6>3. tail[c] \in Nat /\ tail[n] \in Nat /\ tail[l] \in Nat /\ work.duration[l] \in Nat
            BY <3>6, <4>1, <6>2
          <6> QED BY <6>1, <6>2, <6>3, <5>2
        <5> QED BY <5>1, <5>3, <5>4 DEF TailOf
      <4>10. Total(ToSet(path)) + tail[l] = tail[path[1]] + work.duration[l]
        BY <3>12 DEF ScheduleInv, PathInv, l
      <4>11. Total(ToSet(path')) + tail[n] = tail[path[1]] + work.duration[n]
        <5>1. \A t, x, y, f, u, v \in Nat :
                x = u + y /\ t + x = f + u => (t + v) + y = f + v
          OBVIOUS
        <5>2. /\ tail[n] \in Nat /\ tail[l] \in Nat /\ tail[path[1]] \in Nat
              /\ work.duration[l] \in Nat /\ work.duration[n] \in Nat
          BY <3>6, <4>1
        <5> QED BY <5>1, <5>2, <4>8, <4>9, <4>10
      <4>12. path'[1] = path[1]
        BY <3>3, <4>1
      <4>13. \A i \in DOMAIN path' : \E c, e \in DOMAIN order :
               order[c] = path'[i] /\ order[e] = n /\ c <= e
        <5>1. ASSUME NEW i \in DOMAIN path'
              PROVE  \E c \in DOMAIN order : order[c] = path'[i] /\ c <= b
          <6>1. CASE i = k + 1
            <7>1. order[b] = path'[i] /\ b <= b
              BY <6>1, <3>3, <3>8, <3>10
            <7> QED BY <7>1
          <6>2. CASE i # k + 1
            <7>1. i \in 1 .. k
              BY <6>2, <3>2, <3>3
            <7>2. PICK c \in DOMAIN order : order[c] = path[i] /\ c < b
              BY <7>1, <4>5
            <7> QED BY <7>1, <7>2, <3>3, <3>8
          <6> QED BY <6>1, <6>2
        <5> QED BY <5>1, <3>10
      <4>14. \A m \in ToDo : tail[m] <= tail[path'[1]]
        BY <4>12, <3>12 DEF ScheduleInv, PathInv
      <4>15. Total(ToSet(path))' = Total(ToSet(path'))
        BY <2>1 DEF Total
      <4>16. Total(ToSet(path')) + tail[n] = tail[path'[1]] + work.duration[n]
        BY <4>11, <4>12
      <4> QED BY <2>1, <2>3, <3>4, <3>9, <4>13, <4>14, <4>15, <4>16 DEF PathInv, Playing
    <3> QED BY <3>11, <3>12
  <2> QED BY <2>2, <2>3, <1>2, PathGoesOn
<1>3. CASE Dispatch \/ FinishNext \/ Played
  <2>1. /\ UNCHANGED <<work, order, tail, path>> /\ Playing /\ Playing'
        /\ stage' \in {"simulate", "done"}
    BY <1>3, PlayLeaves DEF Playing
  <2>2. \A x : Dependents(x)' = Dependents(x)
    BY <2>1 DEF Dependents, ToDo
  <2>3. ToDo' = ToDo /\ Total(ToSet(path))' = Total(ToSet(path))
    BY <2>1 DEF ToDo, Total
  <2> QED BY <2>1, <2>2, <2>3 DEF ScheduleInv, PathInv
<1> QED BY <1>1, <1>2, <1>3 DEF ScheduleNext

\* A dispatch: the node starts now, or waits as it would hold a slot and none is free.
LEMMA Dispatched ==
  ASSUME ScheduleInv, Dispatch
  PROVE  /\ UNCHANGED <<work, stage, order, tail, path, finished, time>>
         /\ stage = "simulate"
         /\ \E n \in ready :
              /\ ready' = ready \ {n}
              /\ \/ /\ n \in work.holds /\ SlotsUsed >= SlotBudget
                    /\ deferred' = deferred \cup {n} /\ UNCHANGED <<inProgress, started>>
                 \/ /\ ~(n \in work.holds /\ SlotsUsed >= SlotBudget)
                    /\ inProgress' = inProgress \cup {n} /\ UNCHANGED deferred
                    /\ started' \in [ToDo -> Nat] /\ started'[n] = time
                    /\ \A m \in ToDo \ {n} : started'[m] = started[m]
<1>1. UNCHANGED <<work, stage, order, tail, path, finished, time>> /\ stage = "simulate"
  BY DEF Dispatch, derived
<1>2. PICK n \in ready :
        /\ ready' = ready \ {n}
        /\ IF n \in work.holds /\ SlotsUsed >= SlotBudget
           THEN deferred' = deferred \cup {n} /\ UNCHANGED <<inProgress, started>>
           ELSE /\ inProgress' = inProgress \cup {n} /\ started' = [started EXCEPT ![n] = time]
                /\ UNCHANGED deferred
  BY DEF Dispatch
<1>3. n \in ToDo /\ started \in [ToDo -> Nat] /\ time \in Nat
  BY DEF ScheduleInv, ScheduleTypes
<1>4. started' = [started EXCEPT ![n] = time] =>
        /\ started' \in [ToDo -> Nat] /\ started'[n] = time
        /\ \A m \in ToDo \ {n} : started'[m] = started[m]
  BY <1>3
<1> QED BY <1>1, <1>2, <1>4

\* The first to finish does.
LEMMA Finished ==
  ASSUME ScheduleInv, FinishNext
  PROVE  /\ UNCHANGED <<work, stage, order, tail, path, started>>
         /\ stage = "simulate" /\ ready = {}
         /\ \E n \in inProgress :
              /\ \A m \in inProgress : FinishAt(n) <= FinishAt(m)
              /\ time' = FinishAt(n) /\ time <= FinishAt(n)
              /\ inProgress' = inProgress \ {n}
              /\ finished' = finished \cup {n}
              /\ ready' = deferred \cup {c \in Dependents(n) : work.requires[c] \subseteq finished'}
              /\ deferred' = {}
<1>1. UNCHANGED <<work, stage, order, tail, path, started>> /\ stage = "simulate" /\ ready = {}
  BY DEF FinishNext, derived
<1>2. PICK n \in inProgress :
        /\ \A m \in inProgress : FinishAt(n) <= FinishAt(m)
        /\ time' = FinishAt(n) /\ inProgress' = inProgress \ {n} /\ finished' = finished \cup {n}
        /\ LET freed == {c \in Dependents(n) : work.requires[c] \subseteq finished'}
           IN  ready' = ReadyAgain(freed) /\ deferred' = (deferred \cup freed) \ ready'
  BY DEF FinishNext
<1>3. time <= FinishAt(n)
  BY DEF ScheduleInv, PlayInv
<1>4. \A freed, again : again = deferred \cup freed => (deferred \cup freed) \ again = {}
  OBVIOUS
<1> QED BY <1>1, <1>2, <1>3, <1>4 DEF ReadyAgain

LEMMA PlayInvStep ==
  ASSUME ScheduleInv, ScheduleNext
  PROVE  PlayInv'
<1> USE DEF Started, Waiting
<1>1. CASE TakeNext \/ TailNext \/ PathNext
  <2>1. /\ UNCHANGED <<work, ready, deferred, inProgress, finished, started, time>>
        /\ stage' # "done"
        /\ ~ Playing
    BY <1>1, TakenNext, TailOfNext, PathGoesOn
       DEF TakeNext, TailNext, PathNext, played, Playing
  <2> QED BY <2>1 DEF ScheduleInv, PlayInv, FinishAt, ToDo, Playing
<1>2. CASE Dispatch
  <2>1. UNCHANGED <<work, stage, finished, time>> /\ stage = "simulate" /\ ToDo' = ToDo
    BY <1>2, Dispatched DEF ToDo
  <2>2. PICK n \in ready :
              /\ ready' = ready \ {n}
              /\ \/ deferred' = deferred \cup {n} /\ UNCHANGED <<inProgress, started>>
                 \/ /\ inProgress' = inProgress \cup {n} /\ UNCHANGED deferred
                    /\ started' \in [ToDo -> Nat] /\ started'[n] = time
                    /\ \A m \in ToDo \ {n} : started'[m] = started[m]
    BY <1>2, Dispatched
  <2>3. n \in ToDo /\ n \notin Started /\ work.requires[n] \subseteq finished
    BY DEF ScheduleInv, ScheduleTypes, PlayInv
  <2>4. /\ started \in [ToDo -> Nat] /\ time \in Nat /\ inProgress \subseteq ToDo
        /\ finished \subseteq ToDo /\ \A m \in ToDo : work.duration[m] \in Nat
        /\ \A m \in ToDo : work.requires[m] \subseteq ToDo
    BY WorkFacts DEF ScheduleInv, ScheduleTypes
  <2>5. \A m \in Started : FinishAt(m)' = FinishAt(m) /\ started'[m] = started[m]
    BY <2>1, <2>2, <2>3, <2>4 DEF FinishAt
  <2>6. CASE deferred' = deferred \cup {n} /\ UNCHANGED <<inProgress, started>>
    <3>1. (Waiting \cup Started)' = Waiting \cup Started /\ Waiting' = Waiting
      BY <2>1, <2>2, <2>6
    <3>2. \A m \in ToDo : FinishAt(m)' = FinishAt(m)
      BY <2>1, <2>6 DEF FinishAt
    <3> QED BY <2>1, <2>2, <2>4, <2>6, <3>1, <3>2 DEF ScheduleInv, PlayInv, Playing
  <2>7. CASE /\ inProgress' = inProgress \cup {n} /\ UNCHANGED deferred
             /\ started' \in [ToDo -> Nat] /\ started'[n] = time
             /\ \A m \in ToDo \ {n} : started'[m] = started[m]
    <3>1. (Waiting \cup Started)' = Waiting \cup Started
      BY <2>1, <2>2, <2>7
    <3>2. /\ Waiting' \cap Started' = {} /\ inProgress' \cap finished' = {}
          /\ ready' \cap deferred' = {}
      <4>1. Waiting \cap Started = {} /\ ready \cap deferred = {} /\ inProgress \cap finished = {}
        BY DEF ScheduleInv, PlayInv
      <4>2. n \notin Waiting'
        BY <2>2, <2>7, <4>1
      <4> QED BY <2>1, <2>2, <2>3, <2>7, <4>1, <4>2
    <3>3. FinishAt(n)' = time + work.duration[n] /\ time <= FinishAt(n)'
      BY <2>1, <2>3, <2>4, <2>7 DEF FinishAt
    <3>4. \A m \in finished' : FinishAt(m)' <= time'
      BY <2>1, <2>5 DEF ScheduleInv, PlayInv
    <3>5. \A m \in inProgress' : started'[m] <= time' /\ time' <= FinishAt(m)'
      BY <2>1, <2>4, <2>5, <2>7, <3>3 DEF ScheduleInv, PlayInv
    <3>6. ASSUME NEW m \in Started', NEW r \in work'.requires[m] PROVE FinishAt(r)' <= started'[m]
      <4>1. CASE m = n
        <5>1. r \in finished
          BY <2>1, <2>3, <3>6, <4>1
        <5> QED BY <5>1, <2>5, <2>7, <4>1 DEF ScheduleInv, PlayInv
      <4>2. CASE m # n
        <5>1. m \in Started
          BY <2>1, <2>7, <4>2
        <5>2. r \in finished
          BY <5>1, <2>1, <2>4, <3>6 DEF ScheduleInv, PlayInv
        <5>3. FinishAt(r) <= started[m]
          BY <5>1, <2>1, <3>6 DEF ScheduleInv, PlayInv
        <5> QED BY <5>1, <5>2, <5>3, <2>5
      <4> QED BY <4>1, <4>2
    <3>7. \A m \in ToDo : work.requires[m] \subseteq finished <=> m \in (Waiting \cup Started)'
      BY <3>1 DEF ScheduleInv, PlayInv
    <3>8. /\ stage' = "done" => ready' = {} /\ inProgress' = {}
          /\ Playing'
      BY <2>1 DEF Playing
    <3> QED BY <2>1, <3>2, <3>4, <3>5, <3>6, <3>7, <3>8 DEF PlayInv
  <2> QED BY <2>2, <2>6, <2>7
<1>3. CASE FinishNext
  <2>1. UNCHANGED <<work, stage, started>> /\ stage = "simulate" /\ ready = {} /\ ToDo' = ToDo
    BY <1>3, Finished DEF ToDo
  <2>2. PICK n \in inProgress :
              /\ \A m \in inProgress : FinishAt(n) <= FinishAt(m)
              /\ time' = FinishAt(n) /\ time <= FinishAt(n)
              /\ inProgress' = inProgress \ {n}
              /\ finished' = finished \cup {n}
              /\ ready' = deferred \cup {c \in Dependents(n) : work.requires[c] \subseteq finished'}
              /\ deferred' = {}
    BY <1>3, Finished
  <2>3. /\ started \in [ToDo -> Nat] /\ time \in Nat /\ inProgress \subseteq ToDo
        /\ finished \subseteq ToDo /\ \A m \in ToDo : work.duration[m] \in Nat
        /\ \A m \in ToDo : work.requires[m] \subseteq ToDo
    BY WorkFacts DEF ScheduleInv, ScheduleTypes
  <2>4. \A m : FinishAt(m)' = FinishAt(m)
    BY <2>1 DEF FinishAt
  <2>5. \A m \in ToDo : FinishAt(m) \in Nat
    BY <2>3 DEF FinishAt
  <2>6. /\ Started' = Started /\ n \notin finished /\ inProgress' \cap finished' = {}
        /\ ready' \cap deferred' = {}
    BY <2>2 DEF ScheduleInv, PlayInv
  <2>7. ASSUME NEW m \in ToDo
        PROVE  work.requires[m] \subseteq finished' <=> m \in Waiting' \cup Started'
    <3>1. work.requires[m] \subseteq finished <=> m \in Waiting \cup Started
      BY DEF ScheduleInv, PlayInv
    <3>2. CASE work.requires[m] \subseteq finished
      BY <3>1, <3>2, <2>1, <2>2, <2>6
    <3>3. CASE ~(work.requires[m] \subseteq finished)
      <4>1. m \notin Waiting \cup Started
        BY <3>1, <3>3
      <4>2. work.requires[m] \subseteq finished' => n \in work.requires[m]
        BY <3>3, <2>2
      <4>3. m \in Waiting' \cup Started' <=> m \in Dependents(n) /\ work.requires[m] \subseteq finished'
        BY <4>1, <2>1, <2>2, <2>6
      <4> QED BY <4>2, <4>3 DEF Dependents
    <3> QED BY <3>2, <3>3
  <2>8. Waiting' \cap Started' = {}
    <3>1. \A c \in Dependents(n) : c \notin Started
      <4>1. \A c \in Dependents(n) : c \in ToDo /\ ~(work.requires[c] \subseteq finished)
        BY <2>6 DEF Dependents
      <4> QED BY <4>1 DEF ScheduleInv, PlayInv
    <3>2. deferred \cap Started = {}
      BY DEF ScheduleInv, PlayInv
    <3> QED BY <3>1, <3>2, <2>2, <2>6
  <2>9. \A m \in finished' : FinishAt(m)' <= time'
    <3>1. \A m \in finished : FinishAt(m) <= time
      BY DEF ScheduleInv, PlayInv
    <3>2. \A m \in finished : FinishAt(m) \in Nat
      BY <2>3, <2>5
    <3>3. FinishAt(n) \in Nat
      BY <2>2, <2>3, <2>5
    <3> QED BY <3>1, <3>2, <3>3, <2>2, <2>3, <2>4
  <2>10. \A m \in inProgress' : started'[m] <= time' /\ time' <= FinishAt(m)'
    <3>1. \A m \in inProgress : started[m] <= time /\ started[m] \in Nat
      BY <2>3 DEF ScheduleInv, PlayInv
    <3>2. FinishAt(n) \in Nat
      BY <2>2, <2>3, <2>5
    <3> QED BY <3>1, <3>2, <2>1, <2>2, <2>3, <2>4
  <2>11. \A m \in Started' : \A r \in work'.requires[m] : FinishAt(r)' <= started'[m]
    BY <2>1, <2>4, <2>6 DEF ScheduleInv, PlayInv
  <2>12. stage' # "done" /\ Playing'
    BY <2>1 DEF Playing
  <2> QED BY <2>1, <2>6, <2>7, <2>8, <2>9, <2>10, <2>11, <2>12 DEF PlayInv
<1>4. CASE Played
  <2>1. /\ UNCHANGED <<work, ready, deferred, inProgress, finished, started, time>>
        /\ ready = {} /\ inProgress = {} /\ Playing'
    BY <1>4 DEF Played, played, Playing
  <2> QED BY <2>1 DEF ScheduleInv, PlayInv, FinishAt, ToDo
<1> QED BY <1>1, <1>2, <1>3, <1>4 DEF ScheduleNext

LEMMA SlotInvStep ==
  ASSUME ScheduleInv, ScheduleNext
  PROVE  SlotInv'
<1>1. SlotInv /\ SlotBudget \in Nat \ {0}
  BY ScheduleAssumption DEF ScheduleInv
<1>2. CASE TakeNext \/ TailNext \/ PathNext \/ Played
  <2>1. UNCHANGED <<work, deferred, inProgress, finished, started>>
    BY <1>2 DEF TakeNext, TailNext, PathNext, Played, played
  <2> QED BY <2>1, <1>1 DEF SlotInv, SlotsUsed, HoldersAt, Started, FinishAt
<1>3. CASE Dispatch
  <2>1. UNCHANGED <<work, finished, time>>
    BY <1>3, Dispatched
  <2>2. PICK n \in ready :
              \/ /\ n \in work.holds /\ SlotsUsed >= SlotBudget
                 /\ deferred' = deferred \cup {n} /\ UNCHANGED <<inProgress, started>>
              \/ /\ ~(n \in work.holds /\ SlotsUsed >= SlotBudget)
                 /\ inProgress' = inProgress \cup {n} /\ UNCHANGED deferred
                 /\ started' \in [ToDo -> Nat] /\ started'[n] = time
                 /\ \A m \in ToDo \ {n} : started'[m] = started[m]
    BY <1>3, Dispatched
  <2>3. IsFiniteSet(inProgress \cap work.holds) /\ SlotsUsed \in Nat
    <3>1. inProgress \cap work.holds \in SUBSET ToDo
      BY DEF ScheduleInv, ScheduleTypes
    <3>2. IsFiniteSet(ToDo)
      BY WorkFacts DEF ScheduleInv
    <3>3. IsFiniteSet(inProgress \cap work.holds)
      BY <3>1, <3>2, FS_Subset
    <3> QED BY <3>3, FS_CardinalityType DEF SlotsUsed
  <2>4. CASE /\ n \in work.holds /\ SlotsUsed >= SlotBudget
             /\ deferred' = deferred \cup {n} /\ UNCHANGED <<inProgress, started>>
    <3>1. SlotsUsed = SlotBudget
      BY <2>3, <2>4, <1>1 DEF SlotInv
    <3> QED BY <3>1, <2>1, <2>4, <1>1 DEF SlotInv, SlotsUsed, HoldersAt, Started, FinishAt
  <2>5. CASE /\ ~(n \in work.holds /\ SlotsUsed >= SlotBudget)
             /\ inProgress' = inProgress \cup {n} /\ UNCHANGED deferred
             /\ started' \in [ToDo -> Nat] /\ started'[n] = time
             /\ \A m \in ToDo \ {n} : started'[m] = started[m]
    <3> DEFINE H == inProgress \cap work.holds
               H1 == inProgress' \cap work.holds
    <3>1. IsFiniteSet(H1) /\ Cardinality(H1) <= SlotBudget /\ Cardinality(H1) \in Nat
      <4>1. CASE n \in work.holds
        <5>1. SlotsUsed < SlotBudget
          BY <2>3, <2>5, <4>1, <1>1
        <5>2. IsFiniteSet(H \cup {n}) /\ Cardinality(H \cup {n}) \in {SlotsUsed, SlotsUsed + 1}
          BY <2>3, FS_AddElement DEF SlotsUsed
        <5>3. H1 = H \cup {n}
          BY <2>5, <4>1
        <5> HIDE DEF H, H1
        <5>4. \A c \in {SlotsUsed, SlotsUsed + 1} : c \in Nat /\ c <= SlotBudget
          BY <5>1, <2>3, <1>1
        <5> QED BY <5>2, <5>3, <5>4
      <4>2. CASE n \notin work.holds
        <5>1. H1 = H
          BY <2>5, <4>2
        <5> QED BY <5>1, <2>3, <1>1 DEF SlotInv, SlotsUsed
      <4> QED BY <4>1, <4>2
    <3>2. deferred # {} => Cardinality(H1) = SlotBudget
      <4>1. deferred # {} => H1 = H
        BY <2>3, <2>5, <1>1 DEF SlotInv
      <4> QED BY <4>1, <1>1 DEF SlotInv, SlotsUsed
    <3>3. /\ started \in [ToDo -> Nat] /\ time \in Nat /\ inProgress \subseteq ToDo
          /\ finished \subseteq ToDo /\ \A m \in ToDo : work.duration[m] \in Nat /\ work.holds \subseteq ToDo
          /\ n \in ToDo
      BY WorkFacts DEF ScheduleInv, ScheduleTypes
    <3>4. n \notin Started /\ \A m \in finished : FinishAt(m) <= time
      BY DEF ScheduleInv, PlayInv, Waiting
    <3>5. \A m \in Started : FinishAt(m)' = FinishAt(m) /\ started'[m] = started[m]
      BY <2>1, <2>5, <3>3, <3>4 DEF FinishAt, Started
    <3>6. ASSUME NEW t \in Nat PROVE Cardinality((HoldersAt(t) \cap Started)') <= SlotBudget
      <4> DEFINE A == (HoldersAt(t) \cap Started)'
      <4>1. CASE t < time
        <5>1. \A m \in Started' : m # n => m \in Started
          BY <2>1, <2>5 DEF Started
        <5>2. n \notin A
          BY <2>1, <2>5, <3>3, <4>1 DEF HoldersAt
        <5>3. \A m \in Started : m \in Started' /\ m # n
          BY <2>1, <2>5, <3>4 DEF Started
        <5>4. A = HoldersAt(t) \cap Started
          BY <5>1, <5>2, <5>3, <3>5, <2>1 DEF HoldersAt
        <5> QED BY <5>4, <1>1 DEF SlotInv
      <4>2. CASE ~(t < time)
        <5>1. ASSUME NEW m \in A PROVE m \in H1
          <6>1. m \in work.holds /\ m \in Started' /\ t < FinishAt(m)'
            BY <2>1 DEF HoldersAt
          <6>2. m \notin finished
            <7>1. m \in finished => FinishAt(m)' <= time /\ FinishAt(m)' \in Nat
              BY <3>3, <3>4, <3>5 DEF Started, FinishAt
            <7> QED BY <7>1, <6>1, <4>2, <3>3
          <6> QED BY <6>1, <6>2, <2>1 DEF Started
        <5>2. A \in SUBSET H1
          BY <5>1
        <5> HIDE DEF A, H1
        <5>3. IsFiniteSet(A) /\ Cardinality(A) <= Cardinality(H1) /\ Cardinality(A) \in Nat
          BY <5>2, <3>1, FS_Subset, FS_CardinalityType
        <5>4. Cardinality(A) <= SlotBudget
          BY <5>3, <3>1, <1>1
        <5> QED BY <5>4 DEF A
      <4> QED BY <4>1, <4>2
    <3>7. SlotsUsed' = Cardinality(H1) /\ deferred' = deferred
      BY <2>1, <2>5 DEF SlotsUsed
    <3> HIDE DEF H1
    <3> QED BY <3>1, <3>2, <3>6, <3>7 DEF SlotInv
  <2> QED BY <2>2, <2>4, <2>5
<1>4. CASE FinishNext
  <2>1. UNCHANGED <<work, started>>
    BY <1>4, Finished
  <2>2. PICK n \in inProgress : /\ inProgress' = inProgress \ {n}
                                /\ finished' = finished \cup {n}
                                /\ deferred' = {}
    BY <1>4, Finished
  <2>3. Started' = Started
    BY <2>2 DEF Started
  <2>4. \A t : (HoldersAt(t) \cap Started)' = HoldersAt(t) \cap Started
    BY <2>1, <2>3 DEF HoldersAt, FinishAt
  <2>5. SlotsUsed' <= SlotBudget
    <3> DEFINE H == inProgress \cap work.holds
               H1 == inProgress' \cap work.holds
    <3>1. H \in SUBSET ToDo /\ H1 \in SUBSET H /\ IsFiniteSet(ToDo)
      BY <2>2, WorkFacts DEF ScheduleInv, ScheduleTypes
    <3>2. Cardinality(H) <= SlotBudget
      BY <1>1 DEF SlotInv, SlotsUsed
    <3> HIDE DEF H, H1
    <3>3. IsFiniteSet(H)
      BY <3>1, FS_Subset
    <3>4. IsFiniteSet(H1) /\ Cardinality(H1) <= Cardinality(H)
      BY <3>1, <3>3, FS_Subset
    <3>5. Cardinality(H) \in Nat /\ Cardinality(H1) \in Nat
      BY <3>3, <3>4, FS_CardinalityType
    <3>6. Cardinality(H1) <= SlotBudget
      BY <3>2, <3>4, <3>5, <1>1
    <3> QED BY <3>6, <2>1 DEF H1, SlotsUsed
  <2> QED BY <2>2, <2>4, <2>5, <1>1 DEF SlotInv
<1> QED BY <1>2, <1>3, <1>4 DEF ScheduleNext

\* What has been held is finite, and what is held goes on to be.
LEMMA HeldFinite ==
  ASSUME ScheduleTypes
  PROVE  IsFiniteSet(Held) /\ Cardinality(Held) \in Nat
<1> DEFINE S == Started \cap work.holds
<1>1. S \in SUBSET ToDo /\ IsFiniteSet(ToDo) /\ time \in Int
  BY WorkFacts DEF ScheduleTypes
<1>2. IsFiniteSet(S) /\ IsFiniteSet(1 .. time)
  <2> HIDE DEF S
  <2> QED BY <1>1, FS_Subset, FS_Interval
<1>3. IsFiniteSet(S \X (1 .. time))
  BY <1>2, FS_Product
<1>4. Held \in SUBSET (S \X (1 .. time))
  BY DEF Held
<1>5. IsFiniteSet(Held)
  BY <1>3, <1>4, FS_Subset
<1> QED BY <1>5, FS_CardinalityType

LEMMA HeldGoesOn ==
  ASSUME ScheduleInv, FinishNext, ScheduleTypes'
  PROVE  /\ time <= time'
         /\ Cardinality(Held) <= Cardinality(Held')
         /\ Cardinality(Held) + SlotsUsed * (time' - time) <= Cardinality(Held')
<1> DEFINE H == inProgress \cap work.holds
           New == H \X (time + 1 .. time')
<1>1. UNCHANGED <<work, started>>
  BY Finished
<1>2. PICK n \in inProgress :
        /\ \A m \in inProgress : FinishAt(n) <= FinishAt(m)
        /\ time' = FinishAt(n) /\ time <= FinishAt(n)
        /\ inProgress' = inProgress \ {n} /\ finished' = finished \cup {n}
  BY Finished
<1>3. /\ started \in [ToDo -> Nat] /\ time \in Nat /\ inProgress \subseteq ToDo
      /\ \A m \in ToDo : work.duration[m] \in Nat
  BY WorkFacts DEF ScheduleInv, ScheduleTypes
<1>4. time' \in Nat /\ \A m \in inProgress : FinishAt(m) \in Nat
  BY <1>2, <1>3 DEF FinishAt
<1>5. Started' = Started /\ \A m : FinishAt(m)' = FinishAt(m)
  BY <1>1, <1>2 DEF Started, FinishAt
<1>6. Held \subseteq Held'
  <2>1. 1 .. time \subseteq 1 .. time'
    BY <1>2, <1>3, <1>4
  <2> QED BY <2>1, <1>1, <1>5 DEF Held
<1>7. New \subseteq Held'
  <2>1. ASSUME NEW m \in H, NEW u \in time + 1 .. time'
        PROVE  <<m, u>> \in Held'
    <3>1. started[m] <= time /\ time' <= FinishAt(m) /\ m \in ToDo
      BY <1>2, <1>3 DEF ScheduleInv, PlayInv
    <3>2. started[m] < u /\ u <= FinishAt(m) /\ u \in 1 .. time'
      BY <3>1, <1>3, <1>4
    <3>3. m \in Started' \cap work'.holds
      BY <1>1, <1>5 DEF Started
    <3> QED BY <3>2, <3>3, <1>1, <1>5 DEF Held
  <2> QED BY <2>1
<1>8. Held \cap New = {}
  <2>1. \A u \in 1 .. time : u \notin time + 1 .. time'
    BY <1>3, <1>4
  <2>2. \A p \in Held : p[2] \in 1 .. time
    BY DEF Held
  <2>3. \A p \in New : p[2] \in time + 1 .. time'
    OBVIOUS
  <2> QED BY <2>1, <2>2, <2>3
<1>9. IsFiniteSet(H) /\ SlotsUsed \in Nat
  <2>1. H \in SUBSET ToDo /\ IsFiniteSet(ToDo)
    BY <1>3, WorkFacts DEF ScheduleInv
  <2>2. IsFiniteSet(H)
    BY <2>1, FS_Subset
  <2> QED BY <2>2, FS_CardinalityType DEF SlotsUsed
<1>10. IsFiniteSet(New) /\ Cardinality(New) = SlotsUsed * (time' - time)
  <2>1. time + 1 \in Int /\ time' \in Int
    BY <1>3, <1>4
  <2>2. IsFiniteSet(time + 1 .. time') /\ Cardinality(time + 1 .. time') = time' - time
    <3>1. /\ IsFiniteSet(time + 1 .. time')
          /\ Cardinality(time + 1 .. time') =
               IF time + 1 > time' THEN 0 ELSE time' - (time + 1) + 1
      BY <2>1, FS_Interval
    <3> QED BY <3>1, <1>2, <1>3, <1>4
  <2>3. Cardinality(H) = SlotsUsed
    BY DEF SlotsUsed
  <2> HIDE DEF H
  <2>4. IsFiniteSet(H \X (time + 1 .. time'))
        /\ Cardinality(H \X (time + 1 .. time')) = Cardinality(H) * Cardinality(time + 1 .. time')
    BY <2>2, <1>9, FS_Product
  <2> QED BY <2>2, <2>3, <2>4
<1>11. IsFiniteSet(Held) /\ Cardinality(Held) \in Nat
  BY HeldFinite DEF ScheduleInv
<1>12. IsFiniteSet(Held') /\ Cardinality(Held') \in Nat
  <2>1. (Held \in SUBSET ((Started \cap work.holds) \X (1 .. time)))'
    BY DEF Held
  <2>2. (Started \cap work.holds)' \in SUBSET ToDo /\ IsFiniteSet(ToDo) /\ 1 \in Int /\ time' \in Int
    BY <1>1, <1>3, <1>4, <1>5, WorkFacts DEF ScheduleInv
  <2>3. IsFiniteSet((Started \cap work.holds)') /\ IsFiniteSet(1 .. time')
    BY <2>2, FS_Subset, FS_Interval
  <2>4. IsFiniteSet((Started \cap work.holds)' \X (1 .. time'))
    BY <2>3, FS_Product
  <2>5. IsFiniteSet(Held')
    BY <2>1, <2>4, FS_Subset
  <2> QED BY <2>5, FS_CardinalityType
<1> HIDE DEF New, H
<1>13. IsFiniteSet(Held \cup New) /\ Cardinality(Held \cup New) = Cardinality(Held) + Cardinality(New)
  <2>1. /\ IsFiniteSet(Held \cup New)
        /\ Cardinality(Held \cup New) = Cardinality(Held) + Cardinality(New) - Cardinality(Held \cap New)
    BY <1>10, <1>11, FS_Union
  <2>2. Cardinality(New) \in Nat /\ Cardinality(Held \cap New) = 0
    BY <1>8, <1>10, FS_EmptySet, FS_CardinalityType
  <2> QED BY <2>1, <2>2, <1>11
<1>14. Cardinality(Held \cup New) <= Cardinality(Held')
  <2>1. Held \cup New \in SUBSET Held'
    BY <1>6, <1>7
  <2> QED BY <2>1, <1>12, FS_Subset
<1>15. Cardinality(New) \in Nat
  BY <1>10, FS_CardinalityType
<1> QED BY <1>2, <1>10, <1>11, <1>12, <1>13, <1>14, <1>15

LEMMA BehindInvStep ==
  ASSUME ScheduleInv, ScheduleNext, ScheduleTypes'
  PROVE  BehindInv'
<1> DEFINE B == SlotBudget
           K == Cardinality(Held)
<1>1. B \in Nat \ {0} /\ K \in Nat
  BY ScheduleAssumption, HeldFinite DEF ScheduleInv
<1>2. Playing \/ stage = "path" => DOMAIN tail = ToDo /\ \A n \in ToDo : tail[n] \in Nat
  BY DEF ScheduleInv, ScheduleTypes, TailInv
<1>3. Playing \/ stage = "path" => Floor \in Nat
  <2>1. path \in Seq(ToDo)
    BY DEF ScheduleInv, ScheduleTypes
  <2>2. path # <<>> => path[1] \in ToDo
    BY <2>1
  <2> QED BY <2>2, <1>2 DEF Floor
<1>4. /\ started \in [ToDo -> Nat] /\ time \in Nat
      /\ inProgress \subseteq ToDo /\ Waiting \subseteq ToDo
      /\ \A m \in ToDo : work.duration[m] \in Nat
  BY WorkFacts DEF ScheduleInv, ScheduleTypes, Waiting
<1>5. CASE TakeNext \/ TailNext
  BY <1>5, TakenNext, TailOfNext DEF BehindInv, Playing
<1>6. CASE PathNext
  <2>1. CASE stage' = "path"
    BY <2>1 DEF BehindInv, Playing
  <2>2. CASE stage' = "simulate"
    <3>1. /\ UNCHANGED <<work, tail, path, ready, deferred, inProgress, started, finished, time>>
          /\ stage = "path"
          /\ path = <<>> => ToDo = {}
      BY <1>6, <2>2, PathGoesOn DEF PathNext, played
    <3>2. time = 0 /\ inProgress = {}
      BY <3>1 DEF ScheduleInv, PlayInv, Playing, Started
    <3>3. Held' = Held /\ Floor' = Floor /\ ToDo' = ToDo /\ Waiting' = Waiting
      BY <3>1 DEF Held, Started, FinishAt, Floor, ToDo, Waiting
    <3>4. \A n \in Waiting : tail[n] <= Floor
      BY <3>1, <1>4 DEF ScheduleInv, PathInv, Floor
    <3>5. \A x \in Nat : x <= Floor => B * x <= B * Floor + K
      <4>1. \A b, x, f, k \in Nat : x <= f => b * x <= b * f + k
        OBVIOUS
      <4> QED BY <4>1, <1>1, <1>3, <3>1
    <3>6. InBound(time)'
      BY <3>1, <3>2, <3>3, <3>5, <1>3 DEF InBound
    <3>7. \A n \in Waiting : InBound(time + tail[n])'
      <4> TAKE n \in Waiting
      <4>1. time + tail[n] \in Nat /\ time + tail[n] <= Floor
        BY <3>1, <3>2, <3>4, <1>2, <1>4
      <4> QED BY <4>1, <3>1, <3>3, <3>5 DEF InBound
    <3> QED BY <3>1, <3>2, <3>3, <3>6, <3>7 DEF BehindInv
  <2> QED BY <1>6, <2>1, <2>2, PathGoesOn
<1>7. CASE Dispatch
  <2>1. UNCHANGED <<work, stage, tail, path, finished, time>> /\ stage = "simulate"
    BY <1>7, Dispatched
  <2>2. PICK n \in ready :
              /\ ready' = ready \ {n}
              /\ \/ deferred' = deferred \cup {n} /\ UNCHANGED <<inProgress, started>>
                 \/ /\ inProgress' = inProgress \cup {n} /\ UNCHANGED deferred
                    /\ started' \in [ToDo -> Nat] /\ started'[n] = time
                    /\ \A m \in ToDo \ {n} : started'[m] = started[m]
    BY <1>7, Dispatched
  <2>3. n \in ToDo /\ n \notin Started
    BY <1>4 DEF ScheduleInv, PlayInv, Waiting
  <2>4. Floor' = Floor /\ ToDo' = ToDo
    BY <2>1 DEF Floor, ToDo
  <2>5. Held' = Held
    <3>1. CASE UNCHANGED <<inProgress, started>>
      BY <2>1, <3>1 DEF Held, Started, FinishAt
    <3>2. CASE /\ inProgress' = inProgress \cup {n}
               /\ started' \in [ToDo -> Nat] /\ started'[n] = time
               /\ \A m \in ToDo \ {n} : started'[m] = started[m]
      <4>1. Started' = Started \cup {n} /\ Started \subseteq ToDo
        BY <2>1, <3>2, <1>4 DEF Started, ScheduleInv, ScheduleTypes
      <4>2. \A m \in Started : started'[m] = started[m] /\ FinishAt(m)' = FinishAt(m)
        BY <4>1, <3>2, <2>1, <2>3 DEF FinishAt
      <4>3. \A u \in 1 .. time : ~(started'[n] < u)
        BY <3>2, <1>4
      <4>4. \A p \in Held' : p[1] \in Started /\ p[1] \in work.holds /\ p[2] \in 1 .. time
              /\ p = <<p[1], p[2]>> /\ started'[p[1]] < p[2] /\ p[2] <= FinishAt(p[1])'
        BY <4>1, <4>3, <2>1 DEF Held
      <4>5. \A p \in Held : p[1] \in Started' /\ p[1] \in work.holds /\ p[2] \in 1 .. time
              /\ p = <<p[1], p[2]>> /\ started[p[1]] < p[2] /\ p[2] <= FinishAt(p[1])
              /\ p[1] \in Started
        BY <4>1 DEF Held
      <4>6. Held' \subseteq Held
        BY <4>2, <4>4 DEF Held
      <4>7. \A p \in Held : p \in Held'
        <5> TAKE p \in Held
        <5>1. started'[p[1]] < p[2] /\ p[2] <= FinishAt(p[1])'
          BY <4>2, <4>5
        <5>2. p \in (Started \cap work.holds)' \X (1 .. time)'
          BY <4>5, <2>1
        <5> QED BY <5>1, <5>2 DEF Held
      <4> QED BY <4>6, <4>7
    <3> QED BY <2>2, <3>1, <3>2
  <2>6. \A x : SlotBudget * x <= SlotBudget * Floor' + Cardinality(Held') <=> InBound(x)
    BY <2>4, <2>5 DEF InBound
  <2>7. /\ InBound(time)
        /\ \A m \in Waiting : InBound(time + tail[m])
        /\ \A m \in inProgress : InBound(started[m] + tail[m])
    BY <2>1 DEF ScheduleInv, BehindInv, Playing
  <2>8. Waiting' \subseteq Waiting /\ inProgress' \subseteq inProgress \cup {n} /\ n \in Waiting
    BY <2>2 DEF Waiting
  <2>9. \A m \in inProgress' : started'[m] + tail[m] = (IF m \in inProgress THEN started[m] ELSE time) + tail[m]
    BY <2>2, <2>3, <1>4 DEF Started
  <2>10. \A m \in inProgress' : InBound(started'[m] + tail[m])
    <3> TAKE m \in inProgress'
    <3>1. CASE m \in inProgress
      BY <3>1, <2>7, <2>9
    <3>2. CASE m \notin inProgress
      <4>1. m = n
        BY <3>2, <2>8
      <4>2. InBound(time + tail[m])
        BY <4>1, <2>7, <2>8
      <4> QED BY <3>2, <4>2, <2>9
    <3> QED BY <3>1, <3>2
  <2> QED BY <2>1, <2>6, <2>7, <2>8, <2>10 DEF BehindInv, InBound
<1>8. CASE FinishNext
  <2>1. UNCHANGED <<work, stage, tail, path, started>> /\ stage = "simulate" /\ ready = {}
    BY <1>8, Finished
  <2>2. PICK n \in inProgress :
              /\ time' = FinishAt(n)
              /\ inProgress' = inProgress \ {n}
              /\ ready' = deferred \cup {c \in Dependents(n) : work.requires[c] \subseteq finished'}
              /\ deferred' = {}
    BY <1>8, Finished
  <2> DEFINE K1 == Cardinality(Held')
             F == Floor
  <2>3. /\ time <= time' /\ K <= K1 /\ K + SlotsUsed * (time' - time) <= K1
    BY <1>8, HeldGoesOn
  <2>4. F \in Nat /\ Floor' = F /\ DOMAIN tail = ToDo /\ \A m \in ToDo : tail[m] \in Nat
    BY <2>1, <1>2, <1>3 DEF Floor, Playing
  <2>5. time' \in Nat /\ K1 \in Nat
    <3>1. ScheduleTypes' => (IsFiniteSet(Held) /\ Cardinality(Held) \in Nat)'
      <4>1. (Held \in SUBSET ((Started \cap work.holds) \X (1 .. time)))'
        BY DEF Held
      <4>2. /\ (Started \cap work.holds)' \in SUBSET ToDo /\ IsFiniteSet(ToDo)
            /\ 1 \in Int /\ time' \in Int
        <5>1. FinishAt(n) \in Nat
          BY <1>4 DEF FinishAt
        <5>2. work.holds \subseteq ToDo /\ IsFiniteSet(ToDo)
          BY WorkFacts DEF ScheduleInv
        <5> QED BY <5>1, <5>2, <2>1, <2>2
      <4>3. IsFiniteSet((Started \cap work.holds)') /\ IsFiniteSet(1 .. time')
        BY <4>2, FS_Subset, FS_Interval
      <4>4. IsFiniteSet((Started \cap work.holds)' \X (1 .. time'))
        BY <4>3, FS_Product
      <4>5. IsFiniteSet(Held')
        BY <4>1, <4>4, FS_Subset
      <4> QED BY <4>5, FS_CardinalityType
    <3>2. FinishAt(n) \in Nat
      BY <1>4 DEF FinishAt
    <3> QED BY <3>1, <3>2, <2>2
  <2>6. /\ B * time <= B * F + K
        /\ \A m \in Waiting : B * (time + tail[m]) <= B * F + K
        /\ \A m \in inProgress : B * (started[m] + tail[m]) <= B * F + K
    BY <2>1 DEF ScheduleInv, BehindInv, Playing, InBound
  <2>7. TailOf(n) /\ n \in ToDo /\ Dependents(n) \subseteq ToDo
    BY <1>4, <2>4 DEF ScheduleInv, TailInv, Dependents
  <2>8. work.duration[n] <= tail[n]
    <3>1. \A c \in Dependents(n) : tail[n] = work.duration[n] + tail[c] => work.duration[n] <= tail[n]
      BY <2>4, <2>7, <1>4
    <3>2. tail[n] = work.duration[n] => work.duration[n] <= tail[n]
      BY <2>7, <1>4
    <3> QED BY <3>1, <3>2, <2>7 DEF TailOf
  <2> HIDE DEF K, K1, B, F
  <2>9. \A b, x, y, f, k, l \in Nat : x <= y /\ b * y <= b * f + k /\ k <= l => b * x <= b * f + l
    <3>1. \A b, x, y \in Nat : x <= y => b * x <= b * y
      OBVIOUS
    <3> TAKE b, x, y, f, k, l \in Nat
    <3> HAVE x <= y /\ b * y <= b * f + k /\ k <= l
    <3>2. b * x <= b * y
      BY <3>1
    <3>3. b * x \in Nat /\ b * y \in Nat /\ b * f \in Nat
      OBVIOUS
    <3> QED BY <3>2, <3>3
  <2>10. \A x \in Nat : x <= started[n] + tail[n] => B * x <= B * F + K1
    BY <2>3, <2>4, <2>5, <2>6, <2>7, <2>9, <1>1, <1>4
  <2>11. B * time' <= B * F + K1
    <3>1. time' <= started[n] + tail[n]
      BY <2>2, <2>4, <2>7, <2>8, <1>4 DEF FinishAt
    <3> QED BY <3>1, <2>5, <2>10
  <2>12. \A c \in Dependents(n) : B * (time' + tail[c]) <= B * F + K1
    <3> TAKE c \in Dependents(n)
    <3>1. c \in ToDo /\ work.duration[n] + tail[c] <= tail[n]
      BY <2>7 DEF TailOf
    <3>2. time' + tail[c] <= started[n] + tail[n] /\ time' + tail[c] \in Nat
      BY <3>1, <2>2, <2>4, <2>5, <2>7, <1>4 DEF FinishAt
    <3> QED BY <3>2, <2>10
  <2>13. ASSUME NEW m \in deferred PROVE B * (time' + tail[m]) <= B * F + K1
    <3>1. SlotsUsed = B /\ m \in ToDo
      BY <1>4 DEF ScheduleInv, SlotInv, B, Waiting
    <3>2. B * (time + tail[m]) <= B * F + K
      BY <2>6 DEF Waiting
    <3>3. \A b, t, t1, x \in Nat : b * (t1 + x) = b * (t + x) + b * (t1 - t)
      OBVIOUS
    <3>4. B * (time' + tail[m]) = B * (time + tail[m]) + B * (time' - time)
      BY <3>1, <3>3, <2>4, <2>5, <1>1, <1>4
    <3>5. K + B * (time' - time) <= K1
      BY <2>3, <3>1
    <3>6. \A p, q, f, k, l, z \in Int : p <= f + k /\ k + q <= l /\ z = p + q => z <= f + l
      OBVIOUS
    <3>7. /\ B * (time + tail[m]) \in Int /\ B * (time' - time) \in Int /\ B * F \in Int
          /\ B * (time' + tail[m]) \in Int
      BY <3>1, <2>4, <2>5, <1>1, <1>4
    <3> QED BY <3>2, <3>4, <3>5, <3>6, <3>7, <2>5, <1>1
  <2>14. \A m \in inProgress' : B * (started[m] + tail[m]) <= B * F + K1
    <3> TAKE m \in inProgress'
    <3>1. m \in inProgress /\ m \in ToDo
      BY <2>2, <1>4
    <3>2. B * (started[m] + tail[m]) <= B * F + K
      BY <3>1, <2>6
    <3>3. started[m] + tail[m] \in Nat
      BY <3>1, <2>4, <1>4
    <3> QED BY <3>2, <3>3, <2>3, <2>4, <2>5, <2>9, <1>1
  <2>15. \A m \in Waiting' : B * (time' + tail[m]) <= B * F + K1
    BY <2>2, <2>12, <2>13 DEF Waiting
  <2> QED BY <2>1, <2>4, <2>11, <2>14, <2>15 DEF BehindInv, InBound, B, K1
<1>9. CASE Played
  <2>1. /\ UNCHANGED <<work, tail, path, ready, deferred, inProgress, finished, started, time>>
        /\ stage = "simulate"
    BY <1>9 DEF Played, played, derived
  <2>2. Held' = Held /\ Floor' = Floor /\ Waiting' = Waiting
    BY <2>1 DEF Held, Started, FinishAt, Floor, Waiting
  <2> QED BY <2>1, <2>2 DEF ScheduleInv, BehindInv, InBound, Playing
<1> QED BY <1>5, <1>6, <1>7, <1>8, <1>9 DEF ScheduleNext

\* A stutter leaves the invariant as it is.
LEMMA ScheduleInvStutter ==
  ASSUME ScheduleInv, UNCHANGED scheduleVars
  PROVE  ScheduleInv'
<1> USE DEF scheduleVars, derived, played, ScheduleInv
<1>1. ScheduleTypes' /\ OrderInv'
  BY DEF ScheduleTypes, OrderInv, ToDo
<1>2. TailInv' /\ PathInv'
  BY DEF TailInv, PathInv, TailOf, Total, Dependents, Playing, ToDo
<1>3. PlayInv' /\ SlotInv'
  BY DEF PlayInv, SlotInv, SlotsUsed, HoldersAt, Started, Waiting, FinishAt, Playing, ToDo
<1>4. BehindInv'
  BY DEF BehindInv, InBound, Held, Floor, Started, Waiting, FinishAt, Playing
<1> QED BY <1>1, <1>2, <1>3, <1>4

\* What the end of the invariant says is that the forecast is sound.
LEMMA ScheduleInvForecast ==
  ASSUME ScheduleInv, stage = "done"
  PROVE  ForecastSound
<1> DEFINE d == work.duration
<1>1. /\ IsFiniteSet(ToDo) /\ work.holds \subseteq ToDo /\ \A n \in ToDo : d[n] \in Nat
      /\ started \in [ToDo -> Nat] /\ time \in Nat /\ finished \subseteq ToDo
      /\ order \in Seq(ToDo) /\ DOMAIN order = 1 .. Len(order)
      /\ \A n \in ToDo : work.requires[n] \subseteq ToDo
  BY WorkFacts DEF ScheduleInv, ScheduleTypes
<1>2. SlotBudget \in Nat \ {0}
  BY ScheduleAssumption
<1>3. ready = {} /\ inProgress = {} /\ deferred = {}
  <2>1. ready = {} /\ inProgress = {}
    BY DEF ScheduleInv, PlayInv
  <2>2. SlotsUsed = 0
    <3>1. inProgress \cap work.holds = {}
      BY <2>1
    <3> QED BY <3>1, FS_EmptySet DEF SlotsUsed
  <2>3. deferred = {}
    BY <2>2, <1>2 DEF ScheduleInv, SlotInv
  <2> QED BY <2>1, <2>3
<1>4. Started = finished /\ Waiting = {}
  BY <1>3 DEF Started, Waiting
<1>5. finished = ToDo
  <2> DEFINE Missing == {i \in DOMAIN order : order[i] \notin finished}
  <2>1. CASE Missing # {}
    <3>1. Missing \in SUBSET Nat
      BY <1>1
    <3>2. PICK i \in Missing : \A j \in Missing : i <= j
      <4> HIDE DEF Missing
      <4> QED BY <2>1, <3>1, LeastNumber
    <3>3. \A j \in 1 .. i - 1 : order[j] \in finished
      <4> TAKE j \in 1 .. i - 1
      <4>1. j \in DOMAIN order /\ ~(i <= j)
        BY <3>2, <1>1
      <4> QED BY <4>1, <3>2
    <3>4. order[i] \in ToDo /\ work.requires[order[i]] \subseteq {order[j] : j \in 1 .. i - 1}
      BY <3>2, <1>1 DEF ScheduleInv, OrderInv
    <3>5. work.requires[order[i]] \subseteq finished
      BY <3>3, <3>4
    <3>6. order[i] \in Waiting \cup Started
      BY <3>4, <3>5 DEF ScheduleInv, PlayInv
    <3> QED BY <3>2, <3>6, <1>4
  <2>2. CASE Missing = {}
    <3>1. \A n \in ToDo : \E i \in DOMAIN order : order[i] = n
      BY DEF ScheduleInv, OrderInv
    <3> QED BY <2>2, <3>1, <1>1
  <2> QED BY <2>1, <2>2
<1>6. \A n \in ToDo : \A r \in work.requires[n] : FinishAt(r) <= started[n]
  BY <1>4, <1>5 DEF ScheduleInv, PlayInv
<1>7. \A n \in ToDo : Cardinality(HoldersAt(started[n])) <= SlotBudget
  <2> TAKE n \in ToDo
  <2>1. started[n] \in Nat
    BY <1>1
  <2>2. HoldersAt(started[n]) \cap Started = HoldersAt(started[n])
    BY <1>1, <1>4, <1>5 DEF HoldersAt
  <2>3. Cardinality(HoldersAt(started[n]) \cap Started) <= SlotBudget
    BY <2>1 DEF ScheduleInv, SlotInv
  <2> QED BY <2>2, <2>3
<1>8. DOMAIN tail = ToDo /\ \A n \in ToDo : tail[n] \in Nat /\ TailOf(n)
  BY DEF ScheduleInv, ScheduleTypes, TailInv, Playing
<1>9. \A n \in ToDo : FinishAt(n) <= time
  BY <1>5 DEF ScheduleInv, PlayInv
<1>10. \A n \in ToDo : started[n] + tail[n] <= time
  <2> DEFINE Late == {i \in DOMAIN order : ~(started[order[i]] + tail[order[i]] <= time)}
             Back == {Len(order) - i : i \in Late}
  <2>1. CASE Late # {}
    <3>1. Back \in SUBSET Nat /\ Back # {}
      BY <2>1, <1>1
    <3> HIDE DEF Late, Back
    <3>2. PICK x \in Back : \A y \in Back : x <= y
      BY <3>1, LeastNumber
    <3>3. PICK i \in Late : x = Len(order) - i
      BY <3>2 DEF Back
    <3>4. i \in DOMAIN order /\ ~(started[order[i]] + tail[order[i]] <= time)
      BY DEF Late
    <3>5. \A j \in Late : j <= i
      <4> TAKE j \in Late
      <4>1. Len(order) - i <= Len(order) - j
        BY <3>2, <3>3 DEF Back
      <4>2. j \in DOMAIN order
        BY DEF Late
      <4> QED BY <4>1, <4>2, <3>4, <1>1
    <3> DEFINE n == order[i]
    <3>20. n \in ToDo /\ ~(started[n] + tail[n] <= time)
      BY <3>4, <1>1
    <3> HIDE DEF n
    <3>6. tail[n] # d[n]
      <4>1. started[n] + d[n] <= time
        BY <3>20, <1>9 DEF FinishAt
      <4> QED BY <4>1, <3>20
    <3>7. PICK c \in Dependents(n) : tail[n] = d[n] + tail[c]
      BY <3>20, <3>6, <1>8 DEF TailOf
    <3>8. c \in ToDo /\ n \in work.requires[c]
      BY <3>7 DEF Dependents
    <3>9. PICK j \in DOMAIN order : order[j] = c
      BY <3>8 DEF ScheduleInv, OrderInv
    <3>10. PICK k \in 1 .. j - 1 : order[k] = n
      BY <3>8, <3>9 DEF ScheduleInv, OrderInv
    <3>11. k = i
      <4>1. k \in DOMAIN order /\ i \in DOMAIN order
        BY <3>4, <3>9, <3>10, <1>1
      <4> QED BY <4>1, <3>10 DEF ScheduleInv, OrderInv, n
    <3>12. i < j
      BY <3>9, <3>10, <3>11, <1>1
    <3>13. j \notin Late
      BY <3>4, <3>5, <3>9, <3>12, <1>1
    <3>14. started[c] + tail[c] <= time
      BY <3>9, <3>13 DEF Late
    <3>15. started[n] + d[n] <= started[c]
      BY <3>8, <1>6 DEF FinishAt
    <3>17. /\ started[n] \in Nat /\ started[c] \in Nat /\ d[n] \in Nat
           /\ tail[n] \in Nat /\ tail[c] \in Nat
      BY <3>20, <3>8, <1>1, <1>8
    <3> HIDE DEF d
    <3>18. started[n] + tail[n] <= time
      <4>1. time \in Nat
        BY <1>1
      <4> QED BY <3>7, <3>14, <3>15, <3>17, <4>1
    <3> QED BY <3>20, <3>18
  <2>2. CASE Late = {}
    <3>1. \A n \in ToDo : \E i \in DOMAIN order : order[i] = n
      BY DEF ScheduleInv, OrderInv
    <3> QED BY <2>2, <3>1
  <2> QED BY <2>1, <2>2
<1>11. Total(ToSet(path)) = Floor /\ Floor <= time
  <2>1. path \in Seq(ToDo) /\ DOMAIN path = 1 .. Len(path)
    BY DEF ScheduleInv, ScheduleTypes
  <2>2. CASE path = <<>>
    <3>1. ToSet(path) = {}
      BY <2>2 DEF ToSet
    <3>2. UNION {{m} \X (1 .. work.duration[m]) : m \in {}} = {}
      OBVIOUS
    <3>3. Total({}) = 0
      BY <3>2, FS_EmptySet DEF Total
    <3>4. Total(ToSet(path)) = 0
      BY <3>1, <3>3
    <3>5. Floor = 0 /\ 0 <= time
      BY <2>2, <1>1 DEF Floor
    <3> QED BY <3>4, <3>5
  <2>3. CASE path # <<>>
    <3> DEFINE l == Last(path)
    <3>1. path[1] \in ToDo /\ l \in ToDo
      BY <2>1, <2>3 DEF Last
    <3>2. Dependents(l) = {} /\ Total(ToSet(path)) + tail[l] = tail[path[1]] + work.duration[l]
      BY <2>3 DEF ScheduleInv, PathInv, Playing
    <3>3. tail[l] = work.duration[l]
      BY <3>1, <3>2, <1>8 DEF TailOf
    <3>4. Total(ToSet(path)) \in Nat
      <4>1. ToSet(path) \in SUBSET ToDo
        BY <2>1 DEF ToSet
      <4>2. IsFiniteSet(ToSet(path)) /\ \A n \in ToSet(path) : d[n] \in Nat
        BY <4>1, <1>1, FS_Subset
      <4> HIDE DEF d
      <4>3. Cardinality(Units(d, ToSet(path))) \in Nat
        BY <4>2, UnitsFinite, FS_CardinalityType
      <4> QED BY <4>3 DEF Total, Units, d
    <3>5. Floor = tail[path[1]]
      BY <2>3 DEF Floor
    <3>6. started[path[1]] + tail[path[1]] <= time
      BY <3>1, <1>10
    <3>7. tail[path[1]] \in Nat /\ tail[l] \in Nat /\ started[path[1]] \in Nat
      BY <3>1, <1>1, <1>8
    <3>8. \A t, x, f \in Nat : t + x = f + x => t = f
      OBVIOUS
    <3>9. Total(ToSet(path)) = tail[path[1]]
      BY <3>2, <3>3, <3>4, <3>7, <3>8
    <3>10. tail[path[1]] <= time
      BY <3>6, <3>7, <1>1
    <3> QED BY <3>5, <3>9, <3>10
  <2> QED BY <2>2, <2>3
<1>12. SlotBudget * time <= SlotBudget * Floor + Total(work.holds)
  <2> DEFINE U == Units(d, work.holds)
             f == [p \in Held |-> <<p[1], p[2] - started[p[1]]>>]
  <2>1. ASSUME NEW p \in Held
        PROVE  /\ p[1] \in work.holds /\ p[1] \in ToDo /\ p[2] \in Nat /\ p = <<p[1], p[2]>>
               /\ p[2] - started[p[1]] \in 1 .. d[p[1]] /\ started[p[1]] \in Nat
    <3>1. /\ p[1] \in work.holds /\ p[2] \in 1 .. time /\ p = <<p[1], p[2]>>
          /\ started[p[1]] < p[2] /\ p[2] <= started[p[1]] + d[p[1]]
      BY DEF Held, FinishAt
    <3>2. started[p[1]] \in Nat /\ d[p[1]] \in Nat /\ p[1] \in ToDo /\ p[2] \in Nat
      BY <3>1, <1>1
    <3> HIDE DEF d
    <3> QED BY <3>1, <3>2
  <2>2. f \in [Held -> U]
    <3>1. \A p \in Held : <<p[1], p[2] - started[p[1]]>> \in U
      BY <2>1 DEF Units
    <3> QED BY <3>1
  <2>3. ASSUME NEW p \in Held, NEW q \in Held, f[p] = f[q] PROVE p = q
    <3>1. p[1] = q[1] /\ p[2] - started[p[1]] = q[2] - started[q[1]]
      BY <2>3
    <3>2. p[2] = q[2]
      BY <3>1, <2>1
    <3> QED BY <3>1, <3>2, <2>1
  <2>4. f \in Injection(Held, U)
    BY <2>2, <2>3 DEF Injection, IsInjective
  <2>5. IsFiniteSet(work.holds) /\ \A n \in work.holds : d[n] \in Nat
    <3>1. work.holds \in SUBSET ToDo
      BY <1>1
    <3> QED BY <3>1, <1>1, FS_Subset
  <2> HIDE DEF f
  <2>6. IsFiniteSet(U)
    <3> HIDE DEF d
    <3> QED BY <2>5, UnitsFinite
  <2>7. Cardinality(Held) <= Cardinality(U)
    <3> HIDE DEF U
    <3> QED BY <2>4, <2>6, FS_Injection
  <2>8. Cardinality(Held) \in Nat /\ Cardinality(U) \in Nat
    <3> HIDE DEF U
    <3> QED BY <2>6, HeldFinite, FS_CardinalityType DEF ScheduleInv
  <2>9. Cardinality(U) = Total(work.holds)
    BY DEF Units, Total
  <2>10. SlotBudget * time <= SlotBudget * Floor + Cardinality(Held)
    BY DEF ScheduleInv, BehindInv, Playing, InBound
  <2>11. Floor \in Nat
    <3>1. path \in Seq(ToDo)
      BY DEF ScheduleInv, ScheduleTypes
    <3>2. path # <<>> => path[1] \in ToDo
      BY <3>1
    <3> QED BY <3>2, <1>8 DEF Floor
  <2>12. \A a, b, h, u \in Nat : a <= b + h /\ h <= u => a <= b + u
    OBVIOUS
  <2>13. SlotBudget * time \in Nat /\ SlotBudget * Floor \in Nat
    BY <2>11, <1>1, <1>2
  <2> HIDE DEF U
  <2>14. SlotBudget * time <= SlotBudget * Floor + Cardinality(U)
    BY <2>7, <2>8, <2>10, <2>12, <2>13
  <2> QED BY <2>9, <2>14
<1> QED BY <1>5, <1>6, <1>7, <1>11, <1>12 DEF ForecastSound

LEMMA ScheduleInvStep ==
  ASSUME ScheduleInv, [ScheduleNext]_scheduleVars
  PROVE  ScheduleInv'
<1>1. CASE ScheduleNext
  BY <1>1, ScheduleTypesStep, OrderInvStep, TailInvStep, PathInvStep, PlayInvStep,
     SlotInvStep, BehindInvStep DEF ScheduleInv
<1>2. CASE UNCHANGED scheduleVars
  BY <1>2, ScheduleInvStutter
<1> QED BY <1>1, <1>2

\* The forecast can be kept to and is not far from the best (schedule), whatever is
\* scheduled, however long it takes, and for any number of slots: every node runs, after
\* what it requires and within the slots, and the makespan is between the critical path
\* and that plus an even share of the time the slots are held.
THEOREM ScheduleForecastSound == ScheduleSpec => []ForecastSound
<1>1. ScheduleInit => ScheduleInv
  BY ScheduleInitInv
<1>2. ScheduleInv /\ [ScheduleNext]_scheduleVars => ScheduleInv'
  BY ScheduleInvStep
<1>3. ScheduleInv => ForecastSound
  BY ScheduleInvForecast DEF ForecastSound
<1> QED BY <1>1, <1>2, <1>3, PTL DEF ScheduleSpec


-----------------------------------------------------------------------------
(* The composed lifecycle: what holds on the way to it.                      *)
AfterPlan == {"place", "use", "create", "delete", "validate", "done"}
AfterPlace == AfterPlan \ {"place"}
AfterUse == AfterPlace \ {"use"}
AfterCreate == AfterUse \ {"create"}

\* What is not begun is empty.
BegunInv ==
  /\ phase \in AfterPlan \cup {"plan"}
  /\ phase = "plan" => sequence = <<>>
  /\ phase \in {"plan", "place"} => lastUse = <<>>
  /\ phase \in {"plan", "place", "use"} => steps = <<>> /\ blocks = <<>>
  /\ phase \in AfterPlan => toExpand = {} /\ pending = {}

Listed == DOMAIN pool \cup toExpand
Wants ==
  (UNION {Expanded(n) : n \in DOMAIN pool})
  \cup {Needs(p[1], taken[p], 1) : p \in DOMAIN taken}

ClosureInv ==
  /\ ordered.targets \subseteq Listed
  /\ toExpand \cap DOMAIN pool = {}
  /\ DOMAIN pool \subseteq Nodes /\ IsFiniteSet(DOMAIN pool)
  /\ \A n \in DOMAIN pool : pool[n] \in Nat \ {0}
  /\ IsFiniteSet(consumers)
  /\ consumers = Wants
  /\ \A w \in consumers : w.needs \in Listed /\ w.count \in Nat \ {0}
  /\ \A n \in Listed : n \in ordered.targets \/ \E w \in consumers : w.needs = n
  /\ \A w \in consumers : w.needs \in DOMAIN pool => w.count <= pool[w.needs]
  /\ \A n \in DOMAIN pool : pool[n] = 1 \/ \E w \in consumers : w.needs = n /\ w.count = pool[n]

\* Why a group has the branch it has, where none was asked for.
Reasoned(p) ==
  \/ taken[p] \in ordered.targets
  \/ \E n \in DOMAIN pool : taken[p] \in Needed(n)
  \/ \E q \in DOMAIN taken \ {p} : taken[q] = taken[p]
  \/ \E R \in SUBSET DOMAIN pool : Closed(R) /\ ToSet(Task[p[1]].groups[p[2]]) \cap R = {}

BranchInv ==
  /\ \A p \in pending : p[1] \in DOMAIN pool /\ p[2] \in DOMAIN Task[p[1]].groups
  /\ pending \cap DOMAIN taken = {}
  /\ \A p \in DOMAIN taken : p[1] \in DOMAIN pool /\ p[2] \in DOMAIN Task[p[1]].groups
  /\ \A p \in DOMAIN taken : taken[p] \in Listed
  /\ \A p \in DOMAIN taken :
       Chosen(Task[p[1]].groups[p[2]], p[1]) = {} => Reasoned(p)

PlaceInv ==
  /\ sequence \in Seq(Instances)
  /\ \A i, j \in 1 .. Len(sequence) : sequence[i] = sequence[j] => i = j
  /\ \A i \in 1 .. Len(sequence) : \A d \in InstDeps(sequence[i]) :
       \E j \in 1 .. (i - 1) : sequence[j] = d
  /\ phase \in AfterPlace => ToSet(sequence) = Instances

UseInv ==
  phase \in AfterPlace =>
    /\ IsFiniteSet(DOMAIN lastUse)
    /\ Cardinality(DOMAIN lastUse) <= Len(sequence)
    /\ DOMAIN lastUse =
         {sequence[i] : i \in (Len(sequence) - Cardinality(DOMAIN lastUse) + 1) .. Len(sequence)}
    /\ \A x \in DOMAIN lastUse :
         /\ lastUse[x] \in Nat
         /\ \A y \in Users(x) : y \in DOMAIN lastUse /\ lastUse[y] <= lastUse[x]
    /\ phase \in AfterUse => DOMAIN lastUse = Instances

StepRecord == [does : {"create", "verify", "delete"}, what : Instances, uses : SUBSET Instances]
CreateInv ==
  /\ steps \in Seq(StepRecord)
  /\ IsFiniteSet(Creations) /\ Cardinality(Creations) <= Len(sequence)
  /\ \A i \in Creations : \E j \in 1 .. Cardinality(Creations) : steps[i].what = sequence[j]
  /\ \A j \in 1 .. Cardinality(Creations) : \E i \in Creations : steps[i].what = sequence[j]
  /\ \A i, k \in Creations : i < k => Pos(steps[i].what) < Pos(steps[k].what)
  /\ phase \in AfterCreate => Cardinality(Creations) = Len(sequence)

Removable == {x \in Instances : Task[x[1]].deleted}
DeleteInv ==
  /\ phase \notin AfterCreate => \A i \in DOMAIN steps : steps[i].does # "delete"
  /\ \A i, j \in DOMAIN steps :
       steps[i].does = "delete" /\ steps[j].does = "delete" /\ i < j
         => DeletedBefore(steps[i].what, steps[j].what)
  /\ \A i \in DOMAIN steps : steps[i].does = "delete" =>
       /\ steps[i].what \in Removable
       /\ \A y \in ToTearDown : DeletedBefore(steps[i].what, y)
       /\ \A j \in DOMAIN steps : steps[j].does = "verify" => j < i
  /\ phase \in {"validate", "done"} => ToTearDown = {}

BlockInv ==
  /\ IsFiniteSet(DOMAIN blocks)
  /\ \A x \in DOMAIN blocks : \E j \in 1 .. Cardinality(Creations) : sequence[j] = x
  /\ \A x \in DOMAIN blocks :
       /\ blocks[x].index \in Nat
       /\ blocks[x].index < CutFrom(blocks[x].from)
  /\ \A x, y \in DOMAIN blocks : blocks[x] = blocks[y] => x = y

ComposerInv ==
  phase # "refused" =>
    BegunInv /\ ClosureInv /\ BranchInv /\ PlaceInv /\ UseInv /\ CreateInv /\ DeleteInv /\ BlockInv

\* Before a step is written there is little to say of steps and blocks.
LEMMA NothingMade ==
  phase \notin AfterCreate /\ steps = <<>> /\ blocks = <<>> /\ Len(sequence) \in Nat
    => CreateInv /\ DeleteInv /\ BlockInv
<1> SUFFICES ASSUME phase \notin AfterCreate, steps = <<>>, blocks = <<>>, Len(sequence) \in Nat
             PROVE  CreateInv /\ DeleteInv /\ BlockInv
  OBVIOUS
<1>1. Creations = {} /\ DOMAIN steps = {} /\ DOMAIN blocks = {}
  BY DEF Creations
<1>2. IsFiniteSet({}) /\ Cardinality({}) = 0
  BY FS_EmptySet
<1>3. CreateInv
  <2>1. Cardinality(Creations) = 0 /\ IsFiniteSet(Creations)
    BY <1>1, <1>2
  <2>2. 1 .. Cardinality(Creations) = {} /\ Cardinality(Creations) <= Len(sequence)
    BY <2>1
  <2>3. steps \in Seq(StepRecord)
    OBVIOUS
  <2> QED BY <1>1, <2>1, <2>2, <2>3 DEF CreateInv
<1>4. DeleteInv
  <2>1. phase \notin {"validate", "done"}
    BY DEF AfterCreate, AfterUse, AfterPlace, AfterPlan
  <2> QED BY <1>1, <2>1 DEF DeleteInv
<1>5. BlockInv
  BY <1>1, <1>2 DEF BlockInv
<1> QED BY <1>3, <1>4, <1>5

\* Nor is there before the order of the instances is begun.
LEMMA NothingBegun ==
  phase = "plan" /\ sequence = <<>> /\ lastUse = <<>> /\ steps = <<>> /\ blocks = <<>>
    => PlaceInv /\ UseInv /\ CreateInv /\ DeleteInv /\ BlockInv
<1> SUFFICES ASSUME phase = "plan", sequence = <<>>, lastUse = <<>>, steps = <<>>, blocks = <<>>
             PROVE  PlaceInv /\ UseInv /\ CreateInv /\ DeleteInv /\ BlockInv
  OBVIOUS
<1>1. PlaceInv
  BY DEF PlaceInv, AfterPlace, AfterPlan
<1>2. UseInv
  BY DEF UseInv, AfterPlace, AfterPlan
<1>3. phase \notin AfterCreate /\ Len(sequence) \in Nat
  BY DEF AfterCreate, AfterUse, AfterPlace, AfterPlan
<1> QED BY <1>1, <1>2, <1>3, NothingMade

LEMMA ComposerInitInv == ComposerInit => ComposerInv
<1> SUFFICES ASSUME ComposerInit, phase # "refused" PROVE ComposerInv
  BY DEF ComposerInv
<1> USE DEF ComposerInit
<1>1. phase = "plan" /\ ordered.targets \subseteq Nodes
  OBVIOUS
<1>2. PlaceInv /\ UseInv /\ CreateInv /\ DeleteInv /\ BlockInv
  BY <1>1, NothingBegun
<1>3. BegunInv
  BY <1>1 DEF BegunInv, AfterPlan
<1>4. DOMAIN pool = {} /\ DOMAIN taken = {} /\ IsFiniteSet({})
  BY FS_EmptySet
<1>5. ClosureInv
  <2>1. Listed = ordered.targets /\ Wants = {}
    BY <1>4 DEF Listed, Wants
  <2> QED BY <1>4, <2>1 DEF ClosureInv
<1>6. BranchInv
  BY <1>4 DEF BranchInv
<1> QED BY <1>2, <1>3, <1>5, <1>6 DEF ComposerInv

-----------------------------------------------------------------------------
(* The closure of the targets.                                               *)
LEMMA ImageFinite ==
  ASSUME NEW S, IsFiniteSet(S), NEW f PROVE IsFiniteSet({f[x] : x \in S})
<1> DEFINE T == {f[x] : x \in S}
<1>1. [x \in S |-> f[x]] \in Surjection(S, T)
  BY DEF Surjection
<1> QED BY <1>1, FS_Surjection

LEMMA WantedFacts ==
  ASSUME NEW who, IsFiniteSet(who), \A w \in who : w.count \in Nat \ {0}, NEW d
  PROVE  /\ Wanted(d, who) \in Nat \ {0}
         /\ \A w \in who : w.needs = d => w.count <= Wanted(d, who)
         /\ Wanted(d, who) = 1 \/ \E w \in who : w.needs = d /\ w.count = Wanted(d, who)
<1> DEFINE S == {w \in who : w.needs = d}
           f == [w \in who |-> w.count]
<1>1. IsFiniteSet(S)
  BY FS_Subset
<1>2. \A w \in S : f[w] \in Nat
  OBVIOUS
<1>3. {1} \cup {f[w] : w \in S} = {w.count : w \in S} \cup {1}
  OBVIOUS
<1>4. Wanted(d, who) = Max({1} \cup {f[w] : w \in S})
  BY <1>3 DEF Wanted
<1> HIDE DEF S, f
<1>5. /\ Max({1} \cup {f[w] : w \in S}) \in Nat
      /\ 1 <= Max({1} \cup {f[w] : w \in S})
      /\ \A w \in S : f[w] <= Max({1} \cup {f[w_1] : w_1 \in S})
      /\ \/ Max({1} \cup {f[w] : w \in S}) = 1
         \/ \E w \in S : Max({1} \cup {f[w_1] : w_1 \in S}) = f[w]
  BY <1>1, <1>2, MaxOfOneMore, 1 \in Nat
<1> USE DEF S, f
<1>6. Wanted(d, who) \in Nat \ {0}
  BY <1>4, <1>5
<1>7. \A w \in who : w.needs = d => w.count <= Wanted(d, who)
  BY <1>4, <1>5
<1>8. Wanted(d, who) = 1 \/ \E w \in who : w.needs = d /\ w.count = Wanted(d, who)
  BY <1>4, <1>5
<1> QED BY <1>6, <1>7, <1>8

LEMMA ExpandedFacts ==
  ASSUME NEW n \in Nodes
  PROVE  /\ IsFiniteSet(Expanded(n))
         /\ \A w \in Expanded(n) : w.node = n /\ w.count \in Nat \ {0}
<1> DEFINE A == {Needs(n, d, Task[n].needs[d]) : d \in DOMAIN Task[n].needs}
           B == {Needs(n, d, 1) : d \in Task[n].options \cap ordered.references}
           f == [d \in DOMAIN Task[n].needs |-> Needs(n, d, Task[n].needs[d])]
           g == [d \in Task[n].options |-> Needs(n, d, 1)]
<1>1. IsFiniteSet(DOMAIN Task[n].needs) /\ IsFiniteSet(Task[n].options)
  BY ComposerAssumption
<1>2. IsFiniteSet(Task[n].options \cap ordered.references)
  BY <1>1, FS_Subset
<1>3. A = {f[d] : d \in DOMAIN Task[n].needs} /\ B = {g[d] : d \in Task[n].options \cap ordered.references}
  OBVIOUS
<1>4. IsFiniteSet(A)
  <2> HIDE DEF f, A
  <2> QED BY <1>1, <1>3, ImageFinite
<1>5. IsFiniteSet(B)
  <2> HIDE DEF g, B
  <2> QED BY <1>2, <1>3, ImageFinite
<1>6. IsFiniteSet(A \cup B)
  BY <1>4, <1>5, FS_Union
<1>7. \A w \in A \cup B : w.node = n /\ w.count \in Nat \ {0}
  BY ComposerAssumption DEF Needs
<1> QED BY <1>6, <1>7 DEF Expanded

\* A reason stays one.
LEMMA ReasonedStays ==
  ASSUME NEW p \in DOMAIN taken, Reasoned(p), ordered' = ordered,
         DOMAIN pool \subseteq DOMAIN pool', DOMAIN taken \subseteq DOMAIN taken',
         \A q \in DOMAIN taken : taken'[q] = taken[q]
  PROVE  Reasoned(p)'
<1>1. \A n : Needed(n)' = Needed(n)
  BY DEF Needed, Expanded
<1>2. \A R : Closed(R)' = Closed(R)
  BY <1>1 DEF Closed
<1>3. CASE taken[p] \in ordered.targets
  BY <1>3 DEF Reasoned
<1>4. CASE \E n \in DOMAIN pool : taken[p] \in Needed(n)
  BY <1>1, <1>4 DEF Reasoned
<1>5. CASE \E q \in DOMAIN taken \ {p} : taken[q] = taken[p]
  BY <1>5 DEF Reasoned
<1>6. CASE \E R \in SUBSET DOMAIN pool : Closed(R) /\ ToSet(Task[p[1]].groups[p[2]]) \cap R = {}
  <2>1. PICK R \in SUBSET DOMAIN pool : Closed(R) /\ ToSet(Task[p[1]].groups[p[2]]) \cap R = {}
    BY <1>6
  <2>2. R \in SUBSET DOMAIN pool' /\ Closed(R)'
    BY <1>2, <2>1
  <2> QED BY <2>1, <2>2 DEF Reasoned
<1> QED BY <1>3, <1>4, <1>5, <1>6 DEF Reasoned

LEMMA ExpandStep ==
  ASSUME ComposerInv, Expand, phase' # "refused"
  PROVE  ClosureInv' /\ BranchInv'
<1> DEFINE n == CHOOSE x \in toExpand : TRUE
           more == {w.needs : w \in Expanded(n)}
<1>1. phase = "plan" /\ BegunInv /\ ClosureInv /\ BranchInv
  BY DEF Expand, ComposerInv
<1>2. n \in toExpand /\ n \in Nodes /\ n \notin DOMAIN pool
  BY <1>1 DEF Expand, ClosureInv
<1>3. /\ consumers' = consumers \cup Expanded(n)
      /\ pool' = [x \in DOMAIN pool \cup {n} |-> Wanted(x, consumers')]
      /\ toExpand' = (toExpand \cup more) \ DOMAIN pool'
      /\ pending' = pending \cup {<<n, g>> : g \in DOMAIN Task[n].groups}
      /\ taken' = taken /\ ordered' = ordered
  BY <1>1, <1>2 DEF Expand, closure
<1> HIDE DEF n
<1>4. /\ IsFiniteSet(Expanded(n))
      /\ \A w \in Expanded(n) : w.node = n /\ w.count \in Nat \ {0}
  BY <1>2, ExpandedFacts
<1>5. /\ DOMAIN pool' = DOMAIN pool \cup {n}
      /\ Listed' = Listed \cup more
  BY <1>2, <1>3 DEF Listed
<1>6. \A m : Expanded(m)' = Expanded(m)
  BY <1>3 DEF Expanded
<1>7. Wants' = Wants \cup Expanded(n)
  <2>1. UNION {Expanded(m)' : m \in DOMAIN pool'}
           = (UNION {Expanded(m) : m \in DOMAIN pool}) \cup Expanded(n)
    BY <1>5, <1>6
  <2> QED BY <2>1, <1>3 DEF Wants
<1>8. IsFiniteSet(consumers') /\ \A w \in consumers' : w.count \in Nat \ {0}
  <2>1. IsFiniteSet(consumers)
    BY <1>1 DEF ClosureInv
  <2>2. IsFiniteSet(consumers')
    BY <1>3, <1>4, <2>1, FS_Union
  <2> QED BY <2>2, <1>1, <1>3, <1>4 DEF ClosureInv
<1>9. PICK who : who = consumers'
  OBVIOUS
<1>10. ASSUME NEW d \in DOMAIN pool'
       PROVE  /\ pool'[d] \in Nat \ {0}
              /\ \A w \in consumers' : w.needs = d => w.count <= pool'[d]
              /\ pool'[d] = 1 \/ \E w \in consumers' : w.needs = d /\ w.count = pool'[d]
  <2>1. IsFiniteSet(who) /\ \A w \in who : w.count \in Nat \ {0}
    BY <1>8, <1>9
  <2>2. /\ Wanted(d, who) \in Nat \ {0}
        /\ \A w \in who : w.needs = d => w.count <= Wanted(d, who)
        /\ Wanted(d, who) = 1 \/ \E w \in who : w.needs = d /\ w.count = Wanted(d, who)
    BY <2>1, WantedFacts
  <2>3. pool' = [x \in DOMAIN pool \cup {n} |-> Wanted(x, who)]
    BY <1>3, <1>9
  <2>4. pool'[d] = Wanted(d, who)
    BY <2>3
  <2> QED BY <2>2, <2>4, <1>9
<1>11. ClosureInv'
  <2> USE DEF ClosureInv
  <2>1. (ordered.targets \subseteq Listed)'
    BY <1>1, <1>3, <1>5
  <2>2. (toExpand \cap DOMAIN pool = {})'
    BY <1>3
  <2>3. DOMAIN pool' \subseteq Nodes /\ IsFiniteSet(DOMAIN pool')
    <3>1. IsFiniteSet(DOMAIN pool)
      BY <1>1
    <3>2. IsFiniteSet(DOMAIN pool \cup {n})
      BY <3>1, FS_AddElement
    <3> QED BY <3>2, <1>1, <1>2, <1>5
  <2>4. \A d \in DOMAIN pool' : pool'[d] \in Nat \ {0}
    BY <1>10
  <2>5. consumers' = Wants'
    BY <1>1, <1>3, <1>7
  <2>6. \A w \in consumers' : w.needs \in Listed' /\ w.count \in Nat \ {0}
    BY <1>1, <1>3, <1>5, <1>8
  <2>7. \A d \in Listed' : d \in ordered'.targets \/ \E w \in consumers' : w.needs = d
    BY <1>1, <1>3, <1>5
  <2>8. \A w \in consumers' : w.needs \in DOMAIN pool' => w.count <= pool'[w.needs]
    BY <1>10
  <2>9. \A d \in DOMAIN pool' : pool'[d] = 1 \/ \E w \in consumers' : w.needs = d /\ w.count = pool'[d]
    BY <1>10
  <2> QED BY <2>1, <2>2, <2>3, <2>4, <1>8, <2>5, <2>6, <2>7, <2>8, <2>9
<1>12. BranchInv'
  <2> USE DEF BranchInv
  <2>1. \A p \in pending' : p[1] \in DOMAIN pool' /\ p[2] \in DOMAIN Task[p[1]].groups
    BY <1>1, <1>3, <1>5
  <2>2. pending' \cap DOMAIN taken' = {}
    BY <1>1, <1>2, <1>3
  <2>3. \A p \in DOMAIN taken' : p[1] \in DOMAIN pool' /\ p[2] \in DOMAIN Task[p[1]].groups
    BY <1>1, <1>3, <1>5
  <2>4. \A p \in DOMAIN taken' : taken'[p] \in Listed'
    BY <1>1, <1>3, <1>5
  <2>5. ASSUME NEW p \in DOMAIN taken', (Chosen(Task[p[1]].groups[p[2]], p[1]) = {})'
        PROVE  Reasoned(p)'
    <3>1. Chosen(Task[p[1]].groups[p[2]], p[1]) = {} /\ p \in DOMAIN taken
      BY <1>3, <2>5 DEF Chosen, Asked
    <3>2. Reasoned(p)
      BY <1>1, <3>1
    <3> QED BY <3>1, <3>2, <1>3, <1>5, ReasonedStays
  <2> QED BY <2>1, <2>2, <2>3, <2>4, <2>5
<1> QED BY <1>11, <1>12

\* What a group is resolved to is there already, or nothing of its branches is.
LEMMA ResolveToStep ==
  ASSUME BegunInv, ClosureInv, BranchInv, phase = "plan", toExpand = {},
         NEW p \in pending, NEW b, ResolveTo(p, b), ordered' = ordered, pool' = pool,
         Chosen(Task[p[1]].groups[p[2]], p[1]) = {} =>
           b \in DOMAIN pool \/ ToSet(Task[p[1]].groups[p[2]]) \cap DOMAIN pool = {}
  PROVE  ClosureInv' /\ BranchInv'
<1> DEFINE w0 == Needs(p[1], b, 1)
<1>1. /\ DOMAIN taken' = DOMAIN taken \cup {p} /\ taken'[p] = b
      /\ \A q \in DOMAIN taken : taken'[q] = taken[q]
      /\ consumers' = consumers \cup {w0}
      /\ toExpand' = {b} \ DOMAIN pool
      /\ pending' = pending \ {p}
  <2>1. p \notin DOMAIN taken
    BY DEF BranchInv
  <2> QED BY <2>1 DEF ResolveTo
<1>2. w0.node = p[1] /\ w0.needs = b /\ w0.count = 1
  BY DEF Needs
<1>3. Listed = DOMAIN pool /\ Listed' = Listed \cup {b} /\ p \notin DOMAIN taken
  BY <1>1 DEF Listed, BranchInv
<1>4. \A m : Expanded(m)' = Expanded(m)
  BY DEF Expanded
<1>5. Wants' = Wants \cup {w0}
  <2>1. {Needs(q[1], taken'[q], 1) : q \in DOMAIN taken'} =
          {Needs(q[1], taken[q], 1) : q \in DOMAIN taken} \cup {w0}
    BY <1>1, <1>3
  <2> HIDE DEF w0
  <2>2. UNION {Expanded(m)' : m \in DOMAIN pool'} = UNION {Expanded(m) : m \in DOMAIN pool}
    BY <1>4
  <2> QED BY <2>1, <2>2 DEF Wants
<1> HIDE DEF w0
<1>6. ClosureInv'
  <2> USE DEF ClosureInv
  <2>1. (ordered.targets \subseteq Listed)'
    BY <1>3
  <2>2. (toExpand \cap DOMAIN pool = {})'
    BY <1>1
  <2>3. IsFiniteSet(consumers')
    <3>1. IsFiniteSet(consumers)
      OBVIOUS
    <3> QED BY <3>1, <1>1, FS_AddElement
  <2>4. consumers' = Wants'
    BY <1>1, <1>5
  <2>5. \A w \in consumers' : w.needs \in Listed' /\ w.count \in Nat \ {0}
    BY <1>1, <1>2, <1>3
  <2>6. \A d \in Listed' : d \in ordered'.targets \/ \E w \in consumers' : w.needs = d
    BY <1>1, <1>2, <1>3
  <2>7. \A w \in consumers' : w.needs \in DOMAIN pool' => w.count <= pool'[w.needs]
    <3>1. \A d \in DOMAIN pool : 1 <= pool[d]
      OBVIOUS
    <3> QED BY <1>1, <1>2, <3>1
  <2>8. \A d \in DOMAIN pool' : pool'[d] = 1 \/ \E w \in consumers' : w.needs = d /\ w.count = pool'[d]
    BY <1>1
  <2> QED BY <2>1, <2>2, <2>3, <2>4, <2>5, <2>6, <2>7, <2>8
<1>7. BranchInv'
  <2> USE DEF BranchInv
  <2>1. \A q \in pending' : q[1] \in DOMAIN pool' /\ q[2] \in DOMAIN Task[q[1]].groups
    BY <1>1
  <2>2. pending' \cap DOMAIN taken' = {}
    BY <1>1
  <2>3. \A q \in DOMAIN taken' : q[1] \in DOMAIN pool' /\ q[2] \in DOMAIN Task[q[1]].groups
    BY <1>1
  <2>4. \A q \in DOMAIN taken' : taken'[q] \in Listed'
    BY <1>1, <1>3
  <2>5. ASSUME NEW q \in DOMAIN taken', (Chosen(Task[q[1]].groups[q[2]], q[1]) = {})'
        PROVE  Reasoned(q)'
    <3>1. Chosen(Task[q[1]].groups[q[2]], q[1]) = {}
      BY <2>5 DEF Chosen, Asked
    <3>2. CASE q \in DOMAIN taken
      <4>1. Reasoned(q)
        BY <3>1, <3>2
      <4> QED BY <4>1, <3>2, <1>1, ReasonedStays
    <3>3. CASE q \notin DOMAIN taken
      <4>1. q = p /\ taken'[q] = b
        BY <3>3, <1>1
      <4>2. \A n : Needed(n)' = Needed(n)
        BY <1>4 DEF Needed
      <4>3. \A R : Closed(R)' = Closed(R)
        BY <4>2 DEF Closed
      <4>4. CASE b \in DOMAIN pool
        <5>1. b \in ordered.targets \/ \E w \in consumers : w.needs = b
          BY <1>3, <4>4 DEF ClosureInv
        <5>2. CASE b \in ordered.targets
          BY <5>2, <4>1 DEF Reasoned
        <5>3. ASSUME NEW w \in consumers, w.needs = b PROVE Reasoned(q)'
          <6>1. \/ \E n \in DOMAIN pool : w \in Expanded(n)
                \/ \E r \in DOMAIN taken : w = Needs(r[1], taken[r], 1)
            BY DEF ClosureInv, Wants
          <6>2. CASE \E n \in DOMAIN pool : w \in Expanded(n)
            <7>1. \E n \in DOMAIN pool : b \in Needed(n)
              BY <6>2, <5>3 DEF Needed
            <7> QED BY <7>1, <4>1, <4>2 DEF Reasoned
          <6>3. CASE \E r \in DOMAIN taken : w = Needs(r[1], taken[r], 1)
            <7>1. \E r \in DOMAIN taken : taken[r] = b
              BY <6>3, <5>3 DEF Needs
            <7>2. \E r \in DOMAIN taken' \ {q} : taken'[r] = taken'[q]
              BY <7>1, <4>1, <1>1, <1>3
            <7> QED BY <7>2 DEF Reasoned
          <6> QED BY <6>1, <6>2, <6>3
        <5> QED BY <5>1, <5>2, <5>3
      <4>5. CASE ToSet(Task[p[1]].groups[p[2]]) \cap DOMAIN pool = {}
        <5>1. \A n \in DOMAIN pool : Expanded(n) \subseteq consumers
          BY DEF ClosureInv, Wants
        <5>2. \A n \in DOMAIN pool : Needed(n) \subseteq DOMAIN pool
          BY <5>1, <1>3 DEF ClosureInv, Needed
        <5>3. Closed(DOMAIN pool)
          BY <5>2, <1>3 DEF Closed, ClosureInv
        <5>4. PICK R \in SUBSET DOMAIN pool' : Closed(R)' /\ ToSet(Task[q[1]].groups[q[2]]) \cap R = {}
          BY <5>3, <4>1, <4>3, <4>5
        <5> QED BY <5>4 DEF Reasoned
      <4> QED BY <4>1, <4>4, <4>5, <3>1
    <3> QED BY <3>2, <3>3
  <2> QED BY <2>1, <2>2, <2>3, <2>4, <2>5
<1> QED BY <1>6, <1>7

\* Of numbers that are not none, the least is one of them.
LEMMA MinOfNumbers == ASSUME NEW S \in SUBSET Nat, S # {} PROVE Min(S) \in S
<1>1. \E x \in S : \A y \in S : x <= y
  BY LeastNumber
<1> QED BY <1>1 DEF Min

LEMMA ResolveStep ==
  ASSUME ComposerInv, ResolveGroup, phase' # "refused"
  PROVE  ClosureInv' /\ BranchInv'
<1>1. phase = "plan" /\ toExpand = {} /\ BegunInv /\ ClosureInv /\ BranchInv
  BY DEF ResolveGroup, ComposerInv
<1> DEFINE branches(p) == Task[p[1]].groups[p[2]]
<1>2. PICK p \in pending : \E b :
        /\ ResolveTo(p, b)
        /\ Chosen(branches(p), p[1]) = {} =>
             \/ InBundle(branches(p)) # {} /\ b = branches(p)[Min(InBundle(branches(p)))]
             \/ InBundle(branches(p)) = {}
  BY DEF ResolveGroup
<1>3. PICK b :
        /\ ResolveTo(p, b)
        /\ Chosen(branches(p), p[1]) = {} =>
             \/ InBundle(branches(p)) # {} /\ b = branches(p)[Min(InBundle(branches(p)))]
             \/ InBundle(branches(p)) = {}
  BY <1>2
<1>4. p[1] \in Nodes /\ p[2] \in DOMAIN Task[p[1]].groups
  BY <1>1 DEF BranchInv, ClosureInv
<1>5. DOMAIN branches(p) \subseteq Nat
  <2>1. branches(p) \in Seq(ToSet(branches(p)))
    BY <1>4, ComposerAssumption
  <2> HIDE DEF branches
  <2>2. DOMAIN branches(p) = 1 .. Len(branches(p)) /\ Len(branches(p)) \in Nat
    BY <2>1
  <2> QED BY <2>2
<1>6. Chosen(branches(p), p[1]) = {} =>
           b \in DOMAIN pool \/ ToSet(branches(p)) \cap DOMAIN pool = {}
  <2> HIDE DEF branches
  <2>1. CASE InBundle(branches(p)) # {} /\ b = branches(p)[Min(InBundle(branches(p)))]
    <3>1. InBundle(branches(p)) \in SUBSET Nat
      BY <1>5 DEF InBundle
    <3>2. Min(InBundle(branches(p))) \in InBundle(branches(p))
      BY <2>1, <3>1, MinOfNumbers
    <3>3. b \in DOMAIN pool
      BY <3>2, <2>1 DEF InBundle
    <3> QED BY <3>3
  <2>2. CASE InBundle(branches(p)) = {}
    BY <2>2 DEF InBundle, ToSet
  <2> QED BY <1>3, <2>1, <2>2
<1>7. ordered' = ordered /\ pool' = pool
  BY DEF ResolveGroup
<1> QED BY <1>1, <1>3, <1>6, <1>7, ResolveToStep

LEMMA ClosureStays ==
  ASSUME ordered' = ordered, UNCHANGED closure
  PROVE  /\ ClosureInv => ClosureInv'
         /\ BranchInv => BranchInv'
         /\ Instances' = Instances
         /\ \A x : InstDeps(x)' = InstDeps(x)
         /\ \A x : Users(x)' = Users(x)
<1> USE DEF closure
<1>1. \A m : Expanded(m)' = Expanded(m)
  BY DEF Expanded
<1>2. Listed' = Listed /\ Wants' = Wants
  BY <1>1 DEF Listed, Wants
<1>3. ClosureInv => ClosureInv'
  BY <1>2 DEF ClosureInv
<1>4. BranchInv => BranchInv'
  <2> SUFFICES ASSUME BranchInv PROVE BranchInv'
    OBVIOUS
  <2>1. ASSUME NEW p \in DOMAIN taken', (Chosen(Task[p[1]].groups[p[2]], p[1]) = {})'
        PROVE  Reasoned(p)'
    <3>1. Chosen(Task[p[1]].groups[p[2]], p[1]) = {}
      BY <2>1 DEF Chosen, Asked
    <3>2. Reasoned(p)
      BY <3>1 DEF BranchInv
    <3> QED BY <3>2, ReasonedStays
  <2> QED BY <2>1, <1>2 DEF BranchInv
<1>5. Instances' = Instances
  BY DEF Instances
<1>6. \A x : InstDeps(x)' = InstDeps(x)
  BY DEF InstDeps, NeedsOf
<1>7. \A x : Users(x)' = Users(x)
  BY <1>5, <1>6 DEF Users
<1> QED BY <1>3, <1>4, <1>5, <1>6, <1>7

-----------------------------------------------------------------------------
(* The order of the instances, and how long each is used.                    *)
LEMMA SequenceFacts ==
  PlaceInv =>
    /\ Len(sequence) \in Nat /\ DOMAIN sequence = 1 .. Len(sequence)
    /\ ToSet(sequence) = {sequence[i] : i \in 1 .. Len(sequence)}
    /\ \A i \in 1 .. Len(sequence) : sequence[i] \in Instances /\ Pos(sequence[i]) = i
    /\ \A x \in ToSet(sequence) : Pos(x) \in 1 .. Len(sequence) /\ sequence[Pos(x)] = x
<1> SUFFICES ASSUME PlaceInv
             PROVE  /\ Len(sequence) \in Nat /\ DOMAIN sequence = 1 .. Len(sequence)
                    /\ ToSet(sequence) = {sequence[i] : i \in 1 .. Len(sequence)}
                    /\ \A i \in 1 .. Len(sequence) : sequence[i] \in Instances /\ Pos(sequence[i]) = i
                    /\ \A x \in ToSet(sequence) : Pos(x) \in 1 .. Len(sequence) /\ sequence[Pos(x)] = x
  OBVIOUS
<1>1. Len(sequence) \in Nat /\ DOMAIN sequence = 1 .. Len(sequence)
      /\ \A i \in 1 .. Len(sequence) : sequence[i] \in Instances
  BY DEF PlaceInv
<1>2. ToSet(sequence) = {sequence[i] : i \in 1 .. Len(sequence)}
  BY <1>1 DEF ToSet
<1>3. \A i \in 1 .. Len(sequence) : Pos(sequence[i]) = i
  BY <1>1 DEF PlaceInv, Pos
<1>4. \A x \in ToSet(sequence) : Pos(x) \in 1 .. Len(sequence) /\ sequence[Pos(x)] = x
  BY <1>2, <1>3
<1> QED BY <1>1, <1>2, <1>3, <1>4

LEMMA PlaceStep ==
  ASSUME ComposerInv, PlaceNext, phase' # "refused"
  PROVE  PlaceInv'
<1>1. phase = "place" /\ PlaceInv /\ ClosureInv
  BY DEF PlaceNext, ComposerInv
<1>2. Instances' = Instances /\ \A x : InstDeps(x)' = InstDeps(x)
  BY ClosureStays DEF PlaceNext
<1>3. /\ Len(sequence) \in Nat /\ DOMAIN sequence = 1 .. Len(sequence)
      /\ ToSet(sequence) = {sequence[i] : i \in 1 .. Len(sequence)}
  BY <1>1, SequenceFacts
<1>4. CASE Remaining = {} /\ phase' = "use" /\ sequence' = sequence
  <2>1. \A i \in 1 .. Len(sequence) : sequence[i] \in Instances
    BY <1>1 DEF PlaceInv
  <2>2. ToSet(sequence) = Instances
    BY <1>3, <1>4, <2>1 DEF Remaining
  <2>3. ToSet(sequence)' = Instances'
    BY <2>2, <1>2, <1>4
  <2> QED BY <2>3, <1>1, <1>2, <1>4 DEF PlaceInv
<1>5. CASE \E x \in Placeable : sequence' = Append(sequence, x) /\ phase' = phase
  <2>1. PICK x \in Placeable : sequence' = Append(sequence, x) /\ phase' = phase
    BY <1>5
  <2>2. x \in Instances /\ x \notin ToSet(sequence) /\ InstDeps(x) \subseteq ToSet(sequence)
    BY <2>1 DEF Placeable, Remaining
  <2>3. /\ sequence' \in Seq(Instances) /\ Len(sequence') = Len(sequence) + 1
        /\ sequence'[Len(sequence) + 1] = x
        /\ \A i \in 1 .. Len(sequence) : sequence'[i] = sequence[i]
    BY <2>1, <2>2, <1>1 DEF PlaceInv
  <2>4. \A i, j \in 1 .. Len(sequence') : sequence'[i] = sequence'[j] => i = j
    BY <2>2, <2>3, <1>1, <1>3 DEF PlaceInv
  <2>5. ASSUME NEW i \in 1 .. Len(sequence'), NEW d \in InstDeps(sequence'[i])
        PROVE  \E j \in 1 .. (i - 1) : sequence'[j] = d
    <3>1. CASE i \in 1 .. Len(sequence)
      <4>1. PICK j \in 1 .. (i - 1) : sequence[j] = d
        BY <3>1, <2>3, <2>5, <1>1 DEF PlaceInv
      <4>2. j \in 1 .. Len(sequence)
        BY <3>1, <1>3
      <4> QED BY <4>1, <4>2, <2>3
    <3>2. CASE i = Len(sequence) + 1
      <4>1. d \in ToSet(sequence)
        BY <3>2, <2>2, <2>3, <2>5
      <4>2. PICK j \in 1 .. Len(sequence) : sequence[j] = d
        BY <4>1, <1>3
      <4> QED BY <4>2, <3>2, <2>3, <1>3
    <3> QED BY <3>1, <3>2, <2>3, <1>3
  <2>6. \A i \in 1 .. Len(sequence') : \A d \in InstDeps(sequence[i])' :
          \E j \in 1 .. (i - 1) : sequence'[j] = d
    <3>1. \A i : InstDeps(sequence[i])' = InstDeps(sequence'[i])
      BY DEF InstDeps, NeedsOf, PlaceNext, closure
    <3> QED BY <2>5, <3>1
  <2>7. phase' \notin AfterPlace
    BY <2>1, <1>1 DEF AfterPlace, AfterPlan
  <2> QED BY <2>3, <2>4, <2>6, <2>7, <1>2 DEF PlaceInv
<1> QED BY <1>4, <1>5 DEF PlaceNext

LEMMA UseBegins ==
  ASSUME ComposerInv, PlaceNext, phase' # "refused"
  PROVE  UseInv'
<1>1. phase = "place" /\ lastUse' = <<>> /\ PlaceInv /\ phase' \in {"place", "use"}
  BY DEF PlaceNext, ComposerInv, BegunInv
<1>2. PlaceInv'
  BY PlaceStep
<1>3. Len(sequence') \in Nat
  BY <1>2 DEF PlaceInv
<1>4. DOMAIN lastUse' = {} /\ IsFiniteSet({}) /\ Cardinality({}) = 0
  BY <1>1, FS_EmptySet
<1>5. {sequence'[i] : i \in (Len(sequence') - 0 + 1) .. Len(sequence')} = {}
  BY <1>3
<1> QED BY <1>1, <1>3, <1>4, <1>5 DEF UseInv, AfterUse, AfterPlace, AfterPlan

\* Whoever uses an instance comes after it.
LEMMA UsersComeLater ==
  PlaceInv /\ ToSet(sequence) = Instances =>
    \A x \in Instances : \A y \in Users(x) : y \in Instances /\ Pos(x) < Pos(y)
<1> SUFFICES ASSUME PlaceInv, ToSet(sequence) = Instances,
                    NEW x \in Instances, NEW y \in Users(x)
             PROVE  y \in Instances /\ Pos(x) < Pos(y)
  OBVIOUS
<1>1. y \in Instances /\ x \in InstDeps(y)
  BY DEF Users
<1>2. /\ Pos(y) \in 1 .. Len(sequence) /\ sequence[Pos(y)] = y /\ Len(sequence) \in Nat
      /\ \A i \in 1 .. Len(sequence) : Pos(sequence[i]) = i
  BY <1>1, SequenceFacts
<1>3. PICK j \in 1 .. (Pos(y) - 1) : sequence[j] = x
  BY <1>1, <1>2 DEF PlaceInv
<1>4. j \in 1 .. Len(sequence) /\ Pos(x) = j
  BY <1>2, <1>3
<1> QED BY <1>1, <1>2, <1>3, <1>4

\* With one more at the front, the known are again the last of the order.
LEMMA LastUseStep ==
  ASSUME ComposerInv, LastUseNext
  PROVE  UseInv'
<1> DEFINE known == Cardinality(DOMAIN lastUse)
           at == Len(sequence) - known
           x == sequence[at]
           most == Max({Pos(x)} \cup {lastUse[y] : y \in Users(x)})
<1>1. /\ phase = "use" /\ DOMAIN lastUse # Instances
      /\ PlaceInv /\ UseInv /\ ClosureInv
      /\ phase' = phase /\ sequence' = sequence
      /\ lastUse' = [z \in DOMAIN lastUse \cup {x} |-> IF z = x THEN most ELSE lastUse[z]]
  BY DEF LastUseNext, ComposerInv
<1>2. Instances' = Instances /\ \A z : Users(z)' = Users(z)
  BY ClosureStays DEF LastUseNext
<1>3. /\ IsFiniteSet(DOMAIN lastUse)
      /\ known <= Len(sequence)
      /\ DOMAIN lastUse = {sequence[i] : i \in (at + 1) .. Len(sequence)}
      /\ \A z \in DOMAIN lastUse :
           /\ lastUse[z] \in Nat
           /\ \A y \in Users(z) : y \in DOMAIN lastUse /\ lastUse[y] <= lastUse[z]
      /\ ToSet(sequence) = Instances
  BY <1>1 DEF UseInv, PlaceInv, AfterPlace, AfterPlan
<1>4. known \in Nat /\ Len(sequence) \in Nat
  BY <1>3, <1>1, FS_CardinalityType, SequenceFacts
<1>5. /\ ToSet(sequence) = {sequence[i] : i \in 1 .. Len(sequence)}
      /\ \A i \in 1 .. Len(sequence) : sequence[i] \in Instances /\ Pos(sequence[i]) = i
      /\ \A z \in ToSet(sequence) : Pos(z) \in 1 .. Len(sequence) /\ sequence[Pos(z)] = z
  BY <1>1, SequenceFacts
<1> HIDE DEF known
<1>6. at \in 1 .. Len(sequence)
  <2>1. CASE at = 0
    <3>1. DOMAIN lastUse = {sequence[i] : i \in 1 .. Len(sequence)}
      BY <1>3, <2>1
    <3> QED BY <3>1, <1>1, <1>3, <1>5
  <2> QED BY <2>1, <1>3, <1>4
<1> HIDE DEF at
<1>7. x \in Instances /\ Pos(x) = at /\ at \in Nat
  BY <1>5, <1>6, <1>4
<1>8. x \notin DOMAIN lastUse
  <2>1. ASSUME NEW i \in (at + 1) .. Len(sequence), sequence[i] = x PROVE FALSE
    <3>1. i \in 1 .. Len(sequence) /\ i # at
      BY <1>6, <1>4
    <3> QED BY <2>1, <3>1, <1>5, <1>7
  <2> QED BY <2>1, <1>3
<1> HIDE DEF x
<1>9. ASSUME NEW y \in Users(x) PROVE y \in DOMAIN lastUse /\ lastUse[y] \in Nat
  <2>1. y \in Instances /\ at < Pos(y)
    BY <1>1, <1>3, <1>7, UsersComeLater
  <2>2. Pos(y) \in 1 .. Len(sequence) /\ sequence[Pos(y)] = y
    BY <2>1, <1>3, <1>5
  <2>3. Pos(y) \in (at + 1) .. Len(sequence)
    BY <2>1, <2>2, <1>4, <1>6
  <2> QED BY <2>2, <2>3, <1>3
<1>10. IsFiniteSet(Users(x))
  <2>1. Users(x) \in SUBSET DOMAIN lastUse
    BY <1>9
  <2> QED BY <2>1, <1>3, FS_Subset
<1>11. most \in Nat /\ \A y \in Users(x) : lastUse[y] <= most
  <2> DEFINE all == Users(x)
             mine == Pos(x)
             uses == lastUse
  <2>1. IsFiniteSet(all) /\ mine \in Nat /\ \A y \in all : uses[y] \in Nat
    BY <1>7, <1>9, <1>10
  <2> HIDE DEF all, mine, uses
  <2>2. /\ Max({mine} \cup {uses[y] : y \in all}) \in Nat
        /\ \A y \in all : uses[y] <= Max({mine} \cup {uses[y_1] : y_1 \in all})
    BY <2>1, MaxOfOneMore
  <2> QED BY <2>2 DEF all, mine, uses
<1> HIDE DEF most
<1>12. DOMAIN lastUse' = DOMAIN lastUse \cup {x} /\ lastUse'[x] = most
       /\ \A z \in DOMAIN lastUse : lastUse'[z] = lastUse[z]
  BY <1>1, <1>8
<1>13. IsFiniteSet(DOMAIN lastUse') /\ Cardinality(DOMAIN lastUse') = known + 1
  <2> DEFINE D == DOMAIN lastUse
  <2>1. IsFiniteSet(D) /\ x \notin D
    BY <1>3, <1>8
  <2> HIDE DEF D
  <2>2. IsFiniteSet(D \cup {x}) /\ Cardinality(D \cup {x}) = Cardinality(D) + 1
    BY <2>1, FS_AddElement
  <2>3. DOMAIN lastUse' = D \cup {x} /\ Cardinality(D) = known
    BY <1>12 DEF D, known
  <2> QED BY <2>2, <2>3
<1>14. DOMAIN lastUse' = {sequence[i] : i \in at .. Len(sequence)}
  <2>1. at .. Len(sequence) = ((at + 1) .. Len(sequence)) \cup {at}
    BY <1>4, <1>6
  <2> QED BY <2>1, <1>3, <1>12 DEF x
<1>15. Len(sequence) - (known + 1) + 1 = at /\ known + 1 <= Len(sequence)
  BY <1>4, <1>6 DEF at
<1>16. \A z \in DOMAIN lastUse' :
         /\ lastUse'[z] \in Nat
         /\ \A y \in Users(z) : y \in DOMAIN lastUse' /\ lastUse'[y] <= lastUse'[z]
  <2>1. ASSUME NEW z \in DOMAIN lastUse
        PROVE  /\ lastUse'[z] \in Nat
               /\ \A y \in Users(z) : y \in DOMAIN lastUse' /\ lastUse'[y] <= lastUse'[z]
    BY <1>3, <1>12
  <2>2. \A y \in Users(x) : y \in DOMAIN lastUse' /\ lastUse'[y] <= lastUse'[x]
    BY <1>9, <1>11, <1>12
  <2> QED BY <2>1, <2>2, <1>11, <1>12
<1>17. \A z \in DOMAIN lastUse' :
         /\ lastUse'[z] \in Nat
         /\ \A y \in Users(z)' : y \in DOMAIN lastUse' /\ lastUse'[y] <= lastUse'[z]
  BY <1>16, <1>2
<1>18. phase' \notin AfterUse
  BY <1>1 DEF AfterUse, AfterPlace, AfterPlan
<1>19. /\ IsFiniteSet(DOMAIN lastUse')
       /\ Cardinality(DOMAIN lastUse') <= Len(sequence')
       /\ DOMAIN lastUse' = {sequence'[i] : i \in
            (Len(sequence') - Cardinality(DOMAIN lastUse') + 1) .. Len(sequence')}
  BY <1>1, <1>13, <1>14, <1>15
<1> QED BY <1>17, <1>18, <1>19 DEF UseInv

\* Who uses an instance, directly or not, is well defined: the least set with its users
\* and theirs.
LEMMA AllUsersFound ==
  \E u : /\ \A x : AllUsers(x) = u[x]
         /\ \A x \in Instances : u[x] = UNION {{z} \cup u[z] : z \in Users(x)}
<1> DEFINE F(u) == [y \in Instances |-> UNION {{z} \cup u[z] : z \in Users(y)}]
           Whole(R, x) == Users(x) \subseteq R /\ \A z \in R : Users(z) \subseteq R
           v == [x \in Instances |->
                   {y \in Instances : \A R \in SUBSET Instances : Whole(R, x) => y \in R}]
           u == CHOOSE u : u = F(u)
<1>1. \A x : Users(x) \subseteq Instances
  BY DEF Users
<1>2. ASSUME NEW x \in Instances PROVE v[x] = UNION {{z} \cup v[z] : z \in Users(x)}
  <2> DEFINE W == UNION {{z} \cup v[z] : z \in Users(x)}
  <2>1. ASSUME NEW z \in Users(x) PROVE z \in v[x] /\ v[z] \subseteq v[x]
    <3>1. z \in Instances
      BY <1>1
    <3>2. \A R \in SUBSET Instances : Whole(R, x) => z \in R /\ Whole(R, z)
      OBVIOUS
    <3> HIDE DEF Whole
    <3> QED BY <3>1, <3>2
  <2>2. W \subseteq v[x]
    <3> HIDE DEF v
    <3> QED BY <2>1
  <2>3. ASSUME NEW z \in Users(x), NEW y \in v[z] PROVE Users(y) \subseteq v[z]
    <3>1. z \in Instances
      BY <1>1
    <3>2. \A R \in SUBSET Instances : Whole(R, z) => Users(y) \subseteq R
      BY <2>3, <3>1
    <3>3. Users(y) \subseteq Instances
      BY <1>1
    <3> HIDE DEF Whole
    <3> QED BY <3>1, <3>2, <3>3
  <2>4. ASSUME NEW z \in Users(x) PROVE Users(z) \subseteq v[z]
    <3>1. z \in Instances
      BY <1>1
    <3>2. \A R \in SUBSET Instances : Whole(R, z) => Users(z) \subseteq R
      OBVIOUS
    <3>3. Users(z) \subseteq Instances
      BY <1>1
    <3> HIDE DEF Whole
    <3> QED BY <3>1, <3>2, <3>3
  <2>5. W \in SUBSET Instances /\ Whole(W, x)
    <3>1. \A z \in Users(x) : v[z] \subseteq Instances
      BY <1>1
    <3> HIDE DEF v
    <3>2. W \in SUBSET Instances
      BY <3>1, <1>1
    <3>3. Users(x) \subseteq W
      OBVIOUS
    <3>4. ASSUME NEW y \in W PROVE Users(y) \subseteq W
      <4>1. PICK z \in Users(x) : y = z \/ y \in v[z]
        OBVIOUS
      <4>2. Users(y) \subseteq v[z]
        BY <4>1, <2>3, <2>4
      <4> QED BY <4>2
    <3> QED BY <3>2, <3>3, <3>4
  <2>6. v[x] \subseteq W
    <3> HIDE DEF W, Whole
    <3> QED BY <2>5
  <2> QED BY <2>2, <2>6
<1>3. v = F(v)
  <2>1. DOMAIN v = Instances /\ DOMAIN F(v) = Instances
    OBVIOUS
  <2>2. \A x \in Instances : F(v)[x] = UNION {{z} \cup v[z] : z \in Users(x)}
    <3> HIDE DEF v
    <3> QED OBVIOUS
  <2>3. \A x \in Instances : v[x] = F(v)[x]
    <3> HIDE DEF v, F
    <3> QED BY <1>2, <2>2
  <2>4. v = [x \in Instances |-> v[x]] /\ F(v) = [x \in Instances |-> F(v)[x]]
    <3> DEFINE V == v
    <3>1. F(V) = [x \in Instances |-> F(V)[x]]
      <4> HIDE DEF V
      <4> QED OBVIOUS
    <3> QED BY <3>1
  <2> HIDE DEF v, F
  <2> QED BY <2>3, <2>4
<1>4. \A x : AllUsers(x) = u[x]
  BY DEF AllUsers
<1>5. u = F(u)
  <2> HIDE DEF F, v
  <2> QED BY <1>3
<1>6. \A x \in Instances : u[x] = UNION {{z} \cup u[z] : z \in Users(x)}
  <2> HIDE DEF u
  <2>1. \A x \in Instances : F(u)[x] = UNION {{z} \cup u[z] : z \in Users(x)}
    OBVIOUS
  <2> HIDE DEF F
  <2> QED BY <1>5, <2>1
<1> QED BY <1>4, <1>6

\* Whoever uses an instance, directly or not, comes after it and is used no longer.
LEMMA AllUsersComeLater ==
  PlaceInv /\ UseInv /\ phase \in AfterUse =>
    \A x \in Instances : \A y \in AllUsers(x) :
      y \in Instances /\ Pos(x) < Pos(y) /\ lastUse[y] <= lastUse[x]
<1> SUFFICES ASSUME PlaceInv, UseInv, phase \in AfterUse
             PROVE  \A x \in Instances : \A y \in AllUsers(x) :
                      y \in Instances /\ Pos(x) < Pos(y) /\ lastUse[y] <= lastUse[x]
  OBVIOUS
<1>1. PICK u : /\ \A x : AllUsers(x) = u[x]
               /\ \A x \in Instances : u[x] = UNION {{z} \cup u[z] : z \in Users(x)}
  BY AllUsersFound
<1>2. ToSet(sequence) = Instances
  BY DEF PlaceInv, AfterUse
<1>3. /\ Len(sequence) \in Nat
      /\ \A x \in Instances : Pos(x) \in 1 .. Len(sequence) /\ lastUse[x] \in Nat
      /\ \A x \in Instances : \A y \in Users(x) :
           y \in Instances /\ Pos(x) < Pos(y) /\ lastUse[y] <= lastUse[x]
  <2>1. Len(sequence) \in Nat /\ \A x \in Instances : Pos(x) \in 1 .. Len(sequence)
    BY <1>2, SequenceFacts
  <2>2. DOMAIN lastUse = Instances
    BY DEF UseInv, AfterUse
  <2>3. /\ \A x \in Instances : lastUse[x] \in Nat
        /\ \A x \in Instances : \A y \in Users(x) : lastUse[y] <= lastUse[x]
    BY <2>2 DEF UseInv, AfterUse
  <2> QED BY <1>2, <2>1, <2>3, UsersComeLater
<1> DEFINE Later(x) == \A y \in u[x] : y \in Instances /\ Pos(x) < Pos(y) /\ lastUse[y] <= lastUse[x]
           Bad == {x \in Instances : ~Later(x)}
           Ends == {Len(sequence) - Pos(x) : x \in Bad}
<1>4. Bad = {}
  <2> SUFFICES ASSUME Bad # {} PROVE FALSE
    OBVIOUS
  <2>1. Ends \in SUBSET Nat /\ Ends # {}
    BY <1>3
  <2> HIDE DEF Ends
  <2>2. PICK e \in Ends : \A d \in Ends : e <= d
    BY <2>1, LeastNumber
  <2> USE DEF Ends
  <2> HIDE DEF Bad
  <2>3. PICK x \in Bad : e = Len(sequence) - Pos(x)
    OBVIOUS
  <2>4. \A z \in Bad : Len(sequence) - Pos(x) <= Len(sequence) - Pos(z)
    BY <2>2, <2>3
  <2> USE DEF Bad
  <2>5. x \in Instances
    OBVIOUS
  <2> HIDE DEF Later
  <2>6. \A z \in Users(x) : Later(z)
    BY <2>4, <2>5, <1>3
  <2> USE DEF Later
  <2>7. ASSUME NEW y \in u[x] PROVE y \in Instances /\ Pos(x) < Pos(y) /\ lastUse[y] <= lastUse[x]
    <3>1. PICK z \in Users(x) : y = z \/ y \in u[z]
      BY <1>1, <2>5
    <3>2. CASE y = z
      BY <3>2, <1>3, <2>5
    <3>3. CASE y \in u[z]
      <4>1. z \in Instances /\ Pos(x) < Pos(z) /\ lastUse[z] <= lastUse[x]
        BY <1>3, <2>5
      <4>2. y \in Instances /\ Pos(z) < Pos(y) /\ lastUse[y] <= lastUse[z]
        BY <2>6, <3>3
      <4> QED BY <4>1, <4>2, <1>3, <2>5
    <3> QED BY <3>1, <3>2, <3>3
  <2> QED BY <2>7
<1> QED BY <1>1, <1>4

-----------------------------------------------------------------------------
(* The steps of the lifecycle.                                               *)

\* What an instance's creation adds to the steps.
LEMMA StepsAdded ==
  ASSUME steps \in Seq(StepRecord), Instances' = Instances, NEW x \in Instances,
         NEW U \in SUBSET Instances, NEW V \in SUBSET Instances,
         \/ steps' = steps \o <<StepFor("create", x, U)>> \o <<>>
         \/ steps' = steps \o <<StepFor("create", x, U)>> \o <<StepFor("verify", x, V)>>
  PROVE  /\ steps' \in Seq(StepRecord)
         /\ Len(steps) \in Nat /\ DOMAIN steps = 1 .. Len(steps)
         /\ DOMAIN steps \subseteq DOMAIN steps'
         /\ \A i \in DOMAIN steps : steps'[i] = steps[i]
         /\ Len(steps) + 1 \in DOMAIN steps'
         /\ steps'[Len(steps) + 1].does = "create" /\ steps'[Len(steps) + 1].what = x
         /\ Creations' = Creations \cup {Len(steps) + 1}
         /\ \A i \in DOMAIN steps' \ DOMAIN steps : steps'[i].does # "delete"
<1> DEFINE c == StepFor("create", x, U)
           v == StepFor("verify", x, V)
<1>1. c \in StepRecord /\ v \in StepRecord /\ StepRecord' = StepRecord
  BY DEF StepFor, StepRecord
<1>2. c.does = "create" /\ c.what = x /\ v.does = "verify"
  BY DEF StepFor
<1> HIDE DEF c, v
<1>3. Len(steps) \in Nat /\ DOMAIN steps = 1 .. Len(steps)
  OBVIOUS
<1>4. CASE steps' = steps \o <<c>> \o <<>>
  <2>1. /\ steps' \in Seq(StepRecord) /\ DOMAIN steps' = 1 .. (Len(steps) + 1)
        /\ \A i \in DOMAIN steps : steps'[i] = steps[i]
        /\ steps'[Len(steps) + 1] = c
    BY <1>1, <1>3, <1>4
  <2>2. Creations' = Creations \cup {Len(steps) + 1}
    BY <2>1, <1>2, <1>3 DEF Creations
  <2> QED BY <2>1, <2>2, <1>1, <1>2, <1>3
<1>5. CASE steps' = steps \o <<c>> \o <<v>>
  <2>1. /\ steps' \in Seq(StepRecord) /\ DOMAIN steps' = 1 .. (Len(steps) + 2)
        /\ \A i \in DOMAIN steps : steps'[i] = steps[i]
        /\ steps'[Len(steps) + 1] = c
        /\ steps'[Len(steps) + 2] = v
    BY <1>1, <1>3, <1>5
  <2>2. Creations' = Creations \cup {Len(steps) + 1}
    BY <2>1, <1>2, <1>3 DEF Creations
  <2> QED BY <2>1, <2>2, <1>1, <1>2, <1>3
<1> QED BY <1>4, <1>5 DEF c, v

LEMMA CreateAdds ==
  ASSUME ComposerInv, Create, phase' # "refused"
  PROVE  /\ phase = "create" /\ phase' = "create" /\ sequence' = sequence /\ lastUse' = lastUse
         /\ Cardinality(Creations) < Len(sequence) /\ Cardinality(Creations) \in Nat
         /\ sequence[Cardinality(Creations) + 1] \in Instances
         /\ steps' \in Seq(StepRecord)'
         /\ Len(steps) \in Nat /\ DOMAIN steps = 1 .. Len(steps)
         /\ DOMAIN steps \subseteq DOMAIN steps'
         /\ \A i \in DOMAIN steps : steps'[i] = steps[i]
         /\ Len(steps) + 1 \in DOMAIN steps'
         /\ steps'[Len(steps) + 1].does = "create"
         /\ steps'[Len(steps) + 1].what = sequence[Cardinality(Creations) + 1]
         /\ Creations' = Creations \cup {Len(steps) + 1}
         /\ IsFiniteSet(Creations') /\ Cardinality(Creations') = Cardinality(Creations) + 1
         /\ \A i \in DOMAIN steps' \ DOMAIN steps : steps'[i].does # "delete"
<1> DEFINE x == sequence[Cardinality(Creations) + 1]
           seen == {x} \cup InstDeps(x)
<1>1. /\ phase = "create" /\ Cardinality(Creations) < Len(sequence)
      /\ PlaceInv /\ CreateInv /\ ClosureInv
      /\ phase' = phase /\ sequence' = sequence /\ lastUse' = lastUse
  BY DEF Create, ComposerInv
<1>2. Instances' = Instances
  BY ClosureStays DEF Create
<1>3. Len(sequence) \in Nat /\ Cardinality(Creations) \in Nat
  BY <1>1, SequenceFacts, FS_CardinalityType DEF CreateInv
<1>4. Cardinality(Creations) + 1 \in 1 .. Len(sequence)
  BY <1>1, <1>3
<1>5. x \in Instances
  BY <1>1, <1>4 DEF PlaceInv
<1>6. InstDeps(x) \subseteq Instances
  <2>1. \A d \in InstDeps(x) : \E j \in 1 .. Cardinality(Creations) : sequence[j] = d
    <3>1. PICK i \in 1 .. Len(sequence) : i = Cardinality(Creations) + 1
      BY <1>4
    <3>2. x = sequence[i] /\ 1 .. (i - 1) = 1 .. Cardinality(Creations)
      BY <3>1, <1>3
    <3>3. \A d \in InstDeps(sequence[i]) : \E j \in 1 .. (i - 1) : sequence[j] = d
      BY <1>1 DEF PlaceInv
    <3> QED BY <3>2, <3>3
  <2>2. \A j \in 1 .. Cardinality(Creations) : sequence[j] \in Instances
    BY <1>1, <1>3 DEF PlaceInv
  <2> QED BY <2>1, <2>2
<1>7. \/ steps' = steps \o <<StepFor("create", x, InstDeps(x))>> \o <<>>
      \/ steps' = steps \o <<StepFor("create", x, InstDeps(x))>> \o <<StepFor("verify", x, seen)>>
  BY <1>1 DEF Create
<1>8. steps \in Seq(StepRecord) /\ IsFiniteSet(Creations)
  BY <1>1 DEF CreateInv
<1> HIDE DEF x
<1>9. /\ steps' \in Seq(StepRecord)
      /\ Len(steps) \in Nat /\ DOMAIN steps = 1 .. Len(steps)
      /\ DOMAIN steps \subseteq DOMAIN steps'
      /\ \A i \in DOMAIN steps : steps'[i] = steps[i]
      /\ Len(steps) + 1 \in DOMAIN steps'
      /\ steps'[Len(steps) + 1].does = "create" /\ steps'[Len(steps) + 1].what = x
      /\ Creations' = Creations \cup {Len(steps) + 1}
      /\ \A i \in DOMAIN steps' \ DOMAIN steps : steps'[i].does # "delete"
  <2>1. InstDeps(x) \in SUBSET Instances /\ seen \in SUBSET Instances
    BY <1>5, <1>6
  <2> HIDE DEF seen
  <2> QED BY <1>2, <1>5, <1>7, <1>8, <2>1, StepsAdded
<1>10. IsFiniteSet(Creations') /\ Cardinality(Creations') = Cardinality(Creations) + 1
  <2> DEFINE C == Creations
             D == Creations'
             new == Len(steps) + 1
  <2>1. new \notin C
    BY <1>9 DEF Creations
  <2>2. D = C \cup {new} /\ IsFiniteSet(C)
    BY <1>8, <1>9
  <2> HIDE DEF C, D, new
  <2>3. IsFiniteSet(D) /\ Cardinality(D) = Cardinality(C) + 1
    BY <2>1, <2>2, FS_AddElement
  <2> QED BY <2>3 DEF C, D
<1>11. steps' \in Seq(StepRecord)'
  BY <1>2, <1>9 DEF StepRecord
<1> QED BY <1>1, <1>3, <1>5, <1>9, <1>10, <1>11 DEF x

LEMMA CreateStep ==
  ASSUME ComposerInv, Create, phase' # "refused"
  PROVE  CreateInv' /\ DeleteInv'
<1> DEFINE soFar == Cardinality(Creations)
           x == sequence[soFar + 1]
           new == Len(steps) + 1
<1>1. /\ phase = "create" /\ phase' = "create" /\ sequence' = sequence /\ lastUse' = lastUse
      /\ soFar < Len(sequence) /\ soFar \in Nat
      /\ x \in Instances
      /\ steps' \in Seq(StepRecord)'
      /\ Len(steps) \in Nat /\ DOMAIN steps = 1 .. Len(steps)
      /\ DOMAIN steps \subseteq DOMAIN steps'
      /\ \A i \in DOMAIN steps : steps'[i] = steps[i]
      /\ new \in DOMAIN steps'
      /\ steps'[new].does = "create"
      /\ steps'[new].what = x
      /\ Creations' = Creations \cup {new}
      /\ IsFiniteSet(Creations') /\ Cardinality(Creations') = soFar + 1
      /\ \A i \in DOMAIN steps' \ DOMAIN steps : steps'[i].does # "delete"
  BY CreateAdds
<1>2. PlaceInv /\ CreateInv /\ DeleteInv
  BY <1>1 DEF ComposerInv
<1>3. /\ Len(sequence) \in Nat
      /\ \A i \in 1 .. Len(sequence) : Pos(sequence[i]) = i
  BY <1>2, SequenceFacts
<1>4. new \notin DOMAIN steps /\ Creations \subseteq DOMAIN steps
  BY <1>1 DEF Creations
<1>5. /\ \A i \in Creations : \E j \in 1 .. soFar : steps[i].what = sequence[j]
      /\ \A j \in 1 .. soFar : \E i \in Creations : steps[i].what = sequence[j]
      /\ \A i, k \in Creations : i < k => Pos(steps[i].what) < Pos(steps[k].what)
  BY <1>2 DEF CreateInv
<1>6. \A i \in Creations : steps'[i] = steps[i]
  BY <1>1, <1>4
<1>7. CreateInv'
  <2> DEFINE all == soFar + 1
  <2>1. all \in Nat /\ all <= Len(sequence) /\ 1 .. all = (1 .. soFar) \cup {all} /\ all \in 1 .. Len(sequence)
    BY <1>1, <1>3
  <2>2. x = sequence[all] /\ Pos(x) = all
    BY <2>1, <1>3
  <2>3. Creations' = Creations \cup {new} /\ Cardinality(Creations') = all /\ steps'[new].what = x
    BY <1>1
  <2> HIDE DEF x, new, all
  <2>4. ASSUME NEW i \in Creations' PROVE \E j \in 1 .. all : steps'[i].what = sequence[j]
    <3>1. CASE i = new
      <4>1. all \in 1 .. all
        BY <2>1
      <4> QED BY <4>1, <3>1, <2>2, <2>3
    <3>2. CASE i \in Creations
      <4>1. PICK j \in 1 .. soFar : steps[i].what = sequence[j]
        BY <3>2, <1>5
      <4> QED BY <4>1, <3>2, <2>1, <1>6
    <3> QED BY <3>1, <3>2, <2>3
  <2>5. \A j \in 1 .. all : \E i \in Creations' : steps'[i].what = sequence[j]
    BY <2>1, <2>2, <2>3, <1>5, <1>6
  <2>6. \A i \in Creations : Pos(steps[i].what) < all
    <3> TAKE i \in Creations
    <3>1. PICK j \in 1 .. soFar : steps[i].what = sequence[j]
      BY <1>5
    <3>2. j \in 1 .. Len(sequence) /\ j < all
      BY <1>1, <1>3 DEF all
    <3> QED BY <3>1, <3>2, <1>3
  <2>7. ASSUME NEW i \in Creations', NEW k \in Creations', i < k
        PROVE  Pos(steps'[i].what) < Pos(steps'[k].what)
    <3>1. i \in Creations
      <4>1. CASE i = new
        <5>1. k \in DOMAIN steps
          BY <4>1, <2>3, <2>7, <1>1, <1>4 DEF new
        <5> QED BY <5>1, <4>1, <2>7, <1>1 DEF new
      <4> QED BY <4>1, <2>3
    <3>2. CASE k \in Creations
      BY <3>1, <3>2, <2>7, <1>5, <1>6
    <3>3. CASE k = new
      BY <3>1, <3>3, <2>2, <2>3, <2>6, <1>6
    <3> QED BY <3>2, <3>3, <2>3
  <2>8. \A i : Pos(steps[i].what)' = Pos(steps'[i].what)
    BY <1>1 DEF Pos
  <2>9. \A i, k \in Creations' : i < k => Pos(steps[i].what)' < Pos(steps[k].what)'
    BY <2>7, <2>8
  <2>10. phase' \notin AfterCreate
    BY <1>1 DEF AfterCreate, AfterUse, AfterPlace, AfterPlan
  <2> QED BY <1>1, <2>1, <2>3, <2>4, <2>5, <2>9, <2>10 DEF CreateInv
<1>8. DeleteInv'
  <2>1. phase \notin AfterCreate
    BY <1>1 DEF AfterCreate, AfterUse, AfterPlace, AfterPlan
  <2>2. \A i \in DOMAIN steps : steps[i].does # "delete"
    BY <2>1, <1>2 DEF DeleteInv
  <2>3. \A i \in DOMAIN steps' : steps'[i].does # "delete"
    BY <2>2, <1>1
  <2> QED BY <2>3, <1>1 DEF DeleteInv
<1> QED BY <1>7, <1>8

\* A block is the next that is cut where it is cut from.
LEMMA BlockStep ==
  ASSUME ComposerInv, Create, phase' # "refused"
  PROVE  BlockInv'
<1> DEFINE soFar == Cardinality(Creations)
           x == sequence[soFar + 1]
           from == Parent(x)
           cut(w) == {y \in DOMAIN blocks : blocks[y].from = w}
<1>1. /\ sequence' = sequence
      /\ soFar < Len(sequence) /\ soFar \in Nat
      /\ Cardinality(Creations') = soFar + 1
      /\ phase = "create"
  BY CreateAdds
<1>2. PlaceInv /\ BlockInv
  BY <1>1 DEF ComposerInv
<1>3. Len(sequence) \in Nat
  BY <1>2, SequenceFacts
<1>4. \A y \in DOMAIN blocks : \E j \in 1 .. (soFar + 1) : sequence'[j] = y
  <2>1. \A j \in 1 .. soFar : j \in 1 .. (soFar + 1)
    BY <1>1
  <2> QED BY <2>1, <1>1, <1>2 DEF BlockInv
<1>5. \A w : IsFiniteSet(cut(w)) /\ CutFrom(w) = Cardinality(cut(w)) /\ CutFrom(w) \in Nat
  <2> TAKE w
  <2>1. IsFiniteSet(DOMAIN blocks)
    BY <1>2 DEF BlockInv
  <2>2. IsFiniteSet(cut(w))
    BY <2>1, FS_Subset
  <2>3. Cardinality(cut(w)) \in Nat
    BY <2>2, FS_CardinalityType
  <2> QED BY <2>2, <2>3 DEF CutFrom
<1>6. CASE blocks' = blocks
  <2>1. \A w : CutFrom(w)' = CutFrom(w)
    BY <1>6 DEF CutFrom
  <2>2. \A y : CutFrom(blocks[y].from)' = CutFrom(blocks[y].from)
    BY <1>6 DEF CutFrom
  <2> QED BY <2>2, <1>1, <1>2, <1>4, <1>6 DEF BlockInv
<1>7. CASE blocks' = [y \in DOMAIN blocks \cup {x} |->
             IF y = x THEN [from |-> from, index |-> CutFrom(from)] ELSE blocks[y]]
  <2>1. x \notin DOMAIN blocks
    <3>1. ASSUME NEW j \in 1 .. soFar PROVE sequence[j] # x
      <4>1. j \in 1 .. Len(sequence) /\ soFar + 1 \in 1 .. Len(sequence) /\ j # soFar + 1
        BY <1>1, <1>3
      <4> QED BY <4>1, <1>2 DEF PlaceInv
    <3> QED BY <3>1, <1>2 DEF BlockInv
  <2>2. \E j \in 1 .. (soFar + 1) : sequence'[j] = x
    <3>1. soFar + 1 \in 1 .. (soFar + 1)
      BY <1>1
    <3> QED BY <3>1, <1>1
  <2> DEFINE n == CutFrom(from)
  <2>3. n \in Nat
    BY <1>5
  <2> HIDE DEF x, from, n
  <2>4. /\ DOMAIN blocks' = DOMAIN blocks \cup {x}
        /\ blocks'[x] = [from |-> from, index |-> n]
        /\ \A y \in DOMAIN blocks : blocks'[y] = blocks[y]
    BY <1>7, <2>1 DEF n
  <2>5. IsFiniteSet(DOMAIN blocks')
    <3>1. IsFiniteSet(DOMAIN blocks)
      BY <1>2 DEF BlockInv
    <3> QED BY <3>1, <2>4, FS_AddElement
  <2>6. \A w : CutFrom(w)' = IF w = from THEN n + 1 ELSE CutFrom(w)
    <3> TAKE w
    <3> DEFINE C == cut(w)
               D == {y \in DOMAIN blocks' : blocks'[y].from = w}
    <3>1. CutFrom(w)' = Cardinality(D)
      BY DEF CutFrom
    <3>2. IsFiniteSet(C) /\ CutFrom(w) = Cardinality(C)
      BY <1>5
    <3>3. CASE w = from
      <4>1. D = C \cup {x} /\ x \notin C
        BY <2>1, <2>4, <3>3
      <4> HIDE DEF C, D
      <4>2. Cardinality(D) = Cardinality(C) + 1
        BY <4>1, <3>2, FS_AddElement
      <4> QED BY <4>2, <3>1, <3>2, <3>3 DEF n
    <3>4. CASE w # from
      <4>1. D = C
        BY <2>1, <2>4, <3>4
      <4> HIDE DEF C, D
      <4> QED BY <4>1, <3>1, <3>2, <3>4
    <3> QED BY <3>3, <3>4
  <2>7. ASSUME NEW y \in DOMAIN blocks'
        PROVE  blocks'[y].index \in Nat /\ blocks'[y].index < CutFrom(blocks[y].from)'
    <3>1. \A w : (w = blocks'[y].from) => CutFrom(blocks[y].from)' = IF w = from THEN n + 1 ELSE CutFrom(w)
      <4>1. CutFrom(blocks[y].from)' = Cardinality({z \in DOMAIN blocks' : blocks'[z].from = blocks'[y].from})
        BY DEF CutFrom
      <4>2. \A w : CutFrom(w)' = Cardinality({z \in DOMAIN blocks' : blocks'[z].from = w})
        BY DEF CutFrom
      <4> QED BY <4>1, <4>2, <2>6
    <3>2. CASE y = x
      BY <3>1, <3>2, <2>3, <2>4
    <3>3. CASE y \in DOMAIN blocks
      <4>1. blocks[y].index \in Nat /\ blocks[y].index < CutFrom(blocks[y].from)
        BY <3>3, <1>2 DEF BlockInv
      <4>2. CutFrom(blocks[y].from) = n \/ blocks[y].from # from
        BY DEF n
      <4> QED BY <3>1, <3>3, <4>1, <4>2, <2>3, <2>4
    <3> QED BY <3>2, <3>3, <2>4
  <2>8. ASSUME NEW y \in DOMAIN blocks PROVE blocks'[y] # blocks'[x]
    <3>1. blocks[y].index < CutFrom(blocks[y].from) /\ blocks[y].index \in Nat
      BY <1>2 DEF BlockInv
    <3>2. blocks[y].from = from => blocks[y].index < n
      BY <3>1 DEF n
    <3> QED BY <3>1, <3>2, <2>3, <2>4
  <2>9. \A y, z \in DOMAIN blocks' : blocks'[y] = blocks'[z] => y = z
    BY <2>4, <2>8, <1>2 DEF BlockInv
  <2>10. \A y \in DOMAIN blocks' : \E j \in 1 .. (soFar + 1) : sequence'[j] = y
    BY <2>2, <2>4, <1>4
  <2> HIDE DEF soFar
  <2> QED BY <2>5, <2>7, <2>9, <2>10, <1>1 DEF BlockInv
<1>8. blocks' = blocks \/ blocks' = [y \in DOMAIN blocks \cup {x} |->
             IF y = x THEN [from |-> from, index |-> CutFrom(from)] ELSE blocks[y]]
  BY DEF Create
<1> QED BY <1>6, <1>7, <1>8

LEMMA TearDownStep ==
  ASSUME ComposerInv, TearDown
  PROVE  CreateInv' /\ DeleteInv' /\ BlockInv'
<1>1. /\ phase = "delete" /\ ordered' = ordered /\ UNCHANGED closure
      /\ sequence' = sequence /\ lastUse' = lastUse /\ blocks' = blocks
      /\ PlaceInv /\ UseInv /\ CreateInv /\ DeleteInv /\ BlockInv
  BY DEF TearDown, ComposerInv
<1>2. Instances' = Instances /\ StepRecord' = StepRecord /\ Removable' = Removable
  BY <1>1, ClosureStays DEF StepRecord, Removable
<1>3. phase \in AfterCreate /\ phase \in AfterPlace
  BY <1>1 DEF AfterCreate, AfterUse, AfterPlace, AfterPlan
<1>4. ToSet(sequence) = Instances
  BY <1>1, <1>3 DEF PlaceInv
<1>5. CASE ToTearDown = {} /\ phase' = "validate" /\ steps' = steps
  <2>1. Creations' = Creations /\ ToTearDown' = ToTearDown
    BY <1>1, <1>5 DEF Creations, ToTearDown, DeletedAlready
  <2>2. CreateInv'
    <3>1. \A i, k \in Creations : i < k => Pos(steps[i].what)' < Pos(steps[k].what)'
      <4>1. \A i : Pos(steps[i].what)' = Pos(steps[i].what)
        BY <1>1, <1>5 DEF Pos
      <4> QED BY <4>1, <1>1 DEF CreateInv
    <3>2. Cardinality(Creations)' = Cardinality(Creations)
      BY <2>1
    <3> QED BY <3>1, <3>2, <2>1, <1>1, <1>2, <1>3, <1>5 DEF CreateInv
  <2>3. DeleteInv'
    <3>1. \A i, j : DeletedBefore(steps[i].what, steps[j].what)' = DeletedBefore(steps[i].what, steps[j].what)
      BY <1>1, <1>5 DEF DeletedBefore, Pos
    <3>2. phase' \in AfterCreate
      BY <1>5 DEF AfterCreate, AfterUse, AfterPlace, AfterPlan
    <3> QED BY <3>1, <3>2, <2>1, <1>1, <1>2, <1>5 DEF DeleteInv
  <2>4. BlockInv'
    <3>1. \A y : CutFrom(blocks[y].from)' = CutFrom(blocks[y].from)
      BY <1>1 DEF CutFrom
    <3>2. Cardinality(Creations)' = Cardinality(Creations)
      BY <2>1
    <3> QED BY <3>1, <3>2, <1>1 DEF BlockInv
  <2> QED BY <2>2, <2>3, <2>4
<1>6. ASSUME NEW x \in ToTearDown, \A y \in ToTearDown \ {x} : DeletedBefore(x, y),
             steps' = Append(steps, StepFor("delete", x, {x})), phase' = phase
      PROVE  CreateInv' /\ DeleteInv' /\ BlockInv'
  <2> DEFINE new == Len(steps) + 1
             d == StepFor("delete", x, {x})
  <2>1. x \in Removable /\ x \in Instances
    BY <1>4 DEF ToTearDown, Removable
  <2>2. d \in StepRecord /\ d.does = "delete" /\ d.what = x
    BY <2>1 DEF StepRecord, StepFor
  <2>3. steps \in Seq(StepRecord)
    BY <1>1 DEF CreateInv
  <2> HIDE DEF d
  <2>4. /\ steps' \in Seq(StepRecord) /\ Len(steps) \in Nat
        /\ DOMAIN steps = 1 .. Len(steps) /\ DOMAIN steps' = DOMAIN steps \cup {new}
        /\ steps'[new] = d /\ \A i \in DOMAIN steps : steps'[i] = steps[i] /\ i < new
        /\ new \notin DOMAIN steps
    <3>1. /\ steps' \in Seq(StepRecord) /\ Len(steps) \in Nat
          /\ DOMAIN steps = 1 .. Len(steps) /\ DOMAIN steps' = 1 .. new
          /\ steps'[new] = d /\ \A i \in DOMAIN steps : steps'[i] = steps[i]
      BY <2>2, <2>3, <1>6 DEF d
    <3> QED BY <3>1
  <2> HIDE DEF new
  <2>5. Creations' = Creations
    BY <2>2, <2>4 DEF Creations
  <2>6. DeletedAlready' = DeletedAlready \cup {x} /\ ToTearDown' = ToTearDown \ {x}
    <3>1. DeletedAlready' = DeletedAlready \cup {x}
      BY <2>2, <2>4 DEF DeletedAlready
    <3> QED BY <3>1, <1>1 DEF ToTearDown
  <2>7. CreateInv'
    <3>1. \A i \in Creations : steps'[i] = steps[i]
      BY <2>4 DEF Creations
    <3>2. \A i, k \in Creations : i < k => Pos(steps[i].what)' < Pos(steps[k].what)'
      <4>1. \A i \in Creations : Pos(steps[i].what)' = Pos(steps[i].what)
        <5>1. \A i : Pos(steps[i].what)' = Pos(steps'[i].what)
          BY <1>1 DEF Pos
        <5> QED BY <3>1, <5>1
      <4> QED BY <4>1, <1>1 DEF CreateInv
    <3>3. Cardinality(Creations)' = Cardinality(Creations)
      BY <2>5
    <3>4. /\ IsFiniteSet(Creations) /\ Cardinality(Creations) <= Len(sequence)
          /\ \A i \in Creations : \E j \in 1 .. Cardinality(Creations) : steps'[i].what = sequence[j]
          /\ \A j \in 1 .. Cardinality(Creations) : \E i \in Creations : steps'[i].what = sequence[j]
          /\ Cardinality(Creations) = Len(sequence)
      BY <3>1, <1>1, <1>3 DEF CreateInv
    <3> QED BY <3>2, <3>3, <3>4, <2>4, <2>5, <1>1, <1>2 DEF CreateInv
  <2>8. DeleteInv'
    <3>1. \A y, z : DeletedBefore(y, z)' = DeletedBefore(y, z)
      BY <1>1 DEF DeletedBefore, Pos
    <3>2. \A i, j : DeletedBefore(steps[i].what, steps[j].what)' =
                      DeletedBefore(steps'[i].what, steps'[j].what)
      BY <1>1 DEF DeletedBefore, Pos
    <3>3. \A i, y : DeletedBefore(steps[i].what, y)' = DeletedBefore(steps'[i].what, y)
      BY <1>1 DEF DeletedBefore, Pos
    <3>4. \A i, j \in DOMAIN steps :
            steps[i].does = "delete" /\ steps[j].does = "delete" /\ i < j
              => DeletedBefore(steps[i].what, steps[j].what)
      BY <1>1 DEF DeleteInv
    <3>5. \A i \in DOMAIN steps : steps[i].does = "delete" =>
            /\ steps[i].what \in Removable
            /\ \A y \in ToTearDown : DeletedBefore(steps[i].what, y)
            /\ \A j \in DOMAIN steps : steps[j].does = "verify" => j < i
      BY <1>1 DEF DeleteInv
    <3>6. ASSUME NEW i \in DOMAIN steps', NEW j \in DOMAIN steps',
                 steps'[i].does = "delete", steps'[j].does = "delete", i < j
          PROVE  DeletedBefore(steps'[i].what, steps'[j].what)
      <4>1. i \in DOMAIN steps
        <5>1. ASSUME i = new PROVE FALSE
          <6>1. j \in DOMAIN steps /\ j < new /\ new \in Nat /\ j \in Nat
            BY <5>1, <3>6, <2>4 DEF new
          <6> QED BY <6>1, <5>1, <3>6
        <5> QED BY <5>1, <2>4
      <4>2. CASE j \in DOMAIN steps
        BY <4>1, <4>2, <3>4, <3>6, <2>4
      <4>3. CASE j = new
        BY <4>1, <4>3, <3>5, <3>6, <2>2, <2>4
      <4> QED BY <4>2, <4>3, <2>4
    <3>7. ASSUME NEW i \in DOMAIN steps', steps'[i].does = "delete"
          PROVE  /\ steps'[i].what \in Removable
                 /\ \A y \in ToTearDown' : DeletedBefore(steps'[i].what, y)
                 /\ \A j \in DOMAIN steps' : steps'[j].does = "verify" => j < i
      <4>1. CASE i \in DOMAIN steps
        BY <4>1, <3>5, <3>7, <2>2, <2>4, <2>6
      <4>2. CASE i = new
        BY <4>2, <1>6, <2>1, <2>2, <2>4, <2>6
      <4> QED BY <4>1, <4>2, <2>4
    <3>8. phase' \in AfterCreate /\ phase' \notin {"validate", "done"}
      BY <1>1, <1>3, <1>6
    <3>9. \A i, j \in DOMAIN steps' :
            steps'[i].does = "delete" /\ steps'[j].does = "delete" /\ i < j
              => DeletedBefore(steps[i].what, steps[j].what)'
      BY <3>2, <3>6
    <3>10. \A i \in DOMAIN steps' : steps'[i].does = "delete" =>
            /\ steps'[i].what \in Removable'
            /\ \A y \in ToTearDown' : DeletedBefore(steps[i].what, y)'
            /\ \A j \in DOMAIN steps' : steps'[j].does = "verify" => j < i
      BY <3>3, <3>7, <1>2
    <3> QED BY <3>8, <3>9, <3>10 DEF DeleteInv
  <2>9. BlockInv'
    <3>1. \A y : CutFrom(blocks[y].from)' = CutFrom(blocks[y].from)
      BY <1>1 DEF CutFrom
    <3>2. Cardinality(Creations)' = Cardinality(Creations)
      BY <2>5
    <3> QED BY <3>1, <3>2, <1>1 DEF BlockInv
  <2> QED BY <2>7, <2>8, <2>9
<1> QED BY <1>5, <1>6 DEF TearDown

-----------------------------------------------------------------------------
(* What a step leaves alone stays as it is.                                  *)
LEMMA OrdersStay ==
  ASSUME ordered' = ordered, UNCHANGED closure, sequence' = sequence, lastUse' = lastUse,
         PlaceInv, UseInv,
         phase' \in AfterPlace => phase \in AfterPlace,
         phase' \in AfterUse => DOMAIN lastUse = Instances
  PROVE  PlaceInv' /\ UseInv'
<1>1. Instances' = Instances /\ \A x : Users(x)' = Users(x)
  BY ClosureStays
<1>2. \A i : InstDeps(sequence[i])' = InstDeps(sequence[i])
  BY DEF closure, InstDeps, NeedsOf
<1>3. PlaceInv'
  <2>1. \A i \in 1 .. Len(sequence) : \A d \in InstDeps(sequence[i])' :
          \E j \in 1 .. (i - 1) : sequence[j] = d
    <3>1. \A i \in 1 .. Len(sequence) : \A d \in InstDeps(sequence[i]) :
            \E j \in 1 .. (i - 1) : sequence[j] = d
      BY DEF PlaceInv
    <3>2. ASSUME NEW i \in 1 .. Len(sequence), NEW d \in InstDeps(sequence[i])'
          PROVE  \E j \in 1 .. (i - 1) : sequence[j] = d
      <4>1. InstDeps(sequence[i])' = InstDeps(sequence[i])
        BY <1>2
      <4>2. d \in InstDeps(sequence[i])
        BY <3>2, <4>1
      <4> QED BY <3>1, <4>2
    <3> QED BY <3>2
  <2>2. phase' \in AfterPlace => ToSet(sequence) = Instances
    BY DEF PlaceInv
  <2>3. /\ sequence \in Seq(Instances)
        /\ \A i, j \in 1 .. Len(sequence) : sequence[i] = sequence[j] => i = j
    BY DEF PlaceInv
  <2> QED BY <1>1, <2>1, <2>2, <2>3 DEF PlaceInv
<1>4. UseInv'
  <2>1. ASSUME phase' \in AfterPlace
        PROVE  /\ IsFiniteSet(DOMAIN lastUse)
               /\ Cardinality(DOMAIN lastUse) <= Len(sequence)
               /\ DOMAIN lastUse =
                    {sequence[i] : i \in (Len(sequence) - Cardinality(DOMAIN lastUse) + 1) .. Len(sequence)}
               /\ \A x \in DOMAIN lastUse :
                    /\ lastUse[x] \in Nat
                    /\ \A y \in Users(x)' : y \in DOMAIN lastUse /\ lastUse[y] <= lastUse[x]
    BY <2>1, <1>1 DEF UseInv
  <2> QED BY <2>1, <1>1 DEF UseInv
<1> QED BY <1>3, <1>4

LEMMA StepsStay ==
  ASSUME ordered' = ordered, UNCHANGED closure, sequence' = sequence, lastUse' = lastUse,
         steps' = steps, blocks' = blocks, CreateInv, DeleteInv, BlockInv,
         phase' \in AfterCreate => Cardinality(Creations) = Len(sequence),
         phase \in AfterCreate => phase' \in AfterCreate,
         phase' \in {"validate", "done"} => ToTearDown = {}
  PROVE  CreateInv' /\ DeleteInv' /\ BlockInv'
<1>1. Instances' = Instances
  BY ClosureStays
<1>2. /\ StepRecord' = StepRecord /\ Removable' = Removable /\ Creations' = Creations
      /\ ToTearDown' = ToTearDown
  BY <1>1 DEF StepRecord, Removable, Creations, ToTearDown, DeletedAlready
<1>3. Cardinality(Creations)' = Cardinality(Creations)
  BY <1>2
<1>4. CreateInv'
  <2>1. \A i : Pos(steps[i].what)' = Pos(steps[i].what)
    BY DEF Pos
  <2> QED BY <1>2, <1>3, <2>1 DEF CreateInv
<1>5. DeleteInv'
  <2>1. \A i, j : DeletedBefore(steps[i].what, steps[j].what)' = DeletedBefore(steps[i].what, steps[j].what)
    BY DEF DeletedBefore, Pos
  <2>2. \A i, y : DeletedBefore(steps[i].what, y)' = DeletedBefore(steps[i].what, y)
    BY DEF DeletedBefore, Pos
  <2>3. \A i, j \in DOMAIN steps :
          steps[i].does = "delete" /\ steps[j].does = "delete" /\ i < j
            => DeletedBefore(steps[i].what, steps[j].what)'
    BY <2>1 DEF DeleteInv
  <2>4. \A i \in DOMAIN steps : steps[i].does = "delete" =>
          /\ steps[i].what \in Removable
          /\ \A y \in ToTearDown : DeletedBefore(steps[i].what, y)'
          /\ \A j \in DOMAIN steps : steps[j].does = "verify" => j < i
    BY <2>2 DEF DeleteInv
  <2>5. phase' \notin AfterCreate => \A i \in DOMAIN steps : steps[i].does # "delete"
    BY DEF DeleteInv
  <2> QED BY <1>2, <2>3, <2>4, <2>5 DEF DeleteInv
<1>6. BlockInv'
  <2>1. \A y : CutFrom(blocks[y].from)' = CutFrom(blocks[y].from)
    BY DEF CutFrom
  <2> QED BY <1>3, <2>1 DEF BlockInv
<1> QED BY <1>4, <1>5, <1>6

LEMMA BegunStep ==
  ASSUME ComposerInv, ComposerNext, phase # "refused", phase' # "refused"
  PROVE  BegunInv'
<1>1. BegunInv
  BY DEF ComposerInv
<1> USE <1>1 DEF BegunInv, AfterPlan
<1>2. CASE Expand
  BY <1>2 DEF Expand
<1>3. CASE ResolveGroup
  <2>1. phase = "plan" /\ phase' = "plan"
    BY <1>3 DEF ResolveGroup, ResolveTo
  <2> QED BY <2>1, <1>3 DEF ResolveGroup
<1>4. CASE Planned
  BY <1>4 DEF Planned, closure
<1>5. CASE PlaceNext
  BY <1>5 DEF PlaceNext, closure
<1>6. CASE LastUseNext
  BY <1>6 DEF LastUseNext, closure
<1>7. CASE LookedUp
  BY <1>7 DEF LookedUp, closure
<1>8. CASE Create
  <2>1. phase = "create" /\ phase' = "create"
    BY <1>8, CreateAdds
  <2> QED BY <2>1, <1>8 DEF Create, closure
<1>9. CASE AllCreated
  BY <1>9 DEF AllCreated, closure
<1>10. CASE TearDown
  <2>1. phase = "delete" /\ phase' \in {"delete", "validate"}
    BY <1>10 DEF TearDown
  <2> QED BY <2>1, <1>10 DEF TearDown, closure
<1>11. CASE ValidateComposed
  BY <1>11 DEF ValidateComposed, closure
<1> QED BY <1>2, <1>3, <1>4, <1>5, <1>6, <1>7, <1>8, <1>9, <1>10, <1>11 DEF ComposerNext

LEMMA ComposerStepInv ==
  ComposerInv /\ [ComposerNext]_composerVars => ComposerInv'
<1> SUFFICES ASSUME ComposerInv, [ComposerNext]_composerVars, phase' # "refused"
             PROVE  ComposerInv'
  BY DEF ComposerInv
<1>1. CASE UNCHANGED composerVars
  <2>1. ordered' = ordered /\ UNCHANGED closure /\ phase' = phase /\ sequence' = sequence
        /\ lastUse' = lastUse /\ steps' = steps /\ blocks' = blocks
    BY <1>1 DEF composerVars, closure
  <2>2. /\ BegunInv /\ ClosureInv /\ BranchInv /\ PlaceInv /\ UseInv /\ CreateInv
        /\ DeleteInv /\ BlockInv
    BY <2>1 DEF ComposerInv
  <2>3. ClosureInv' /\ BranchInv'
    BY <2>1, <2>2, ClosureStays
  <2>4. BegunInv'
    BY <2>1, <2>2 DEF BegunInv, closure
  <2>5. PlaceInv' /\ UseInv'
    <3>1. phase \in AfterUse => DOMAIN lastUse = Instances
      BY <2>2 DEF UseInv, AfterUse
    <3> QED BY <2>1, <2>2, <3>1, OrdersStay
  <2>6. CreateInv' /\ DeleteInv' /\ BlockInv'
    <3>1. phase \in AfterCreate => Cardinality(Creations) = Len(sequence)
      BY <2>2 DEF CreateInv
    <3>2. phase \in {"validate", "done"} => ToTearDown = {}
      BY <2>2 DEF DeleteInv
    <3> QED BY <2>1, <2>2, <3>1, <3>2, StepsStay
  <2> QED BY <2>3, <2>4, <2>5, <2>6 DEF ComposerInv
<1>2. CASE ComposerNext
  <2>1. phase # "refused"
    BY <1>2 DEF ComposerNext, Expand, ResolveGroup, Planned, PlaceNext, LastUseNext, LookedUp,
                Create, AllCreated, TearDown, ValidateComposed
  <2>2. /\ BegunInv /\ ClosureInv /\ BranchInv /\ PlaceInv /\ UseInv /\ CreateInv
        /\ DeleteInv /\ BlockInv
    BY <2>1 DEF ComposerInv
  <2>3. BegunInv'
    BY <2>1, <1>2, BegunStep
  <2>4. (phase = "plan" /\ sequence = <<>> /\ lastUse = <<>> /\ steps = <<>> /\ blocks = <<>>
           => PlaceInv /\ UseInv /\ CreateInv /\ DeleteInv /\ BlockInv)'
    BY NothingBegun, PTL
  <2>5. (phase \notin AfterCreate /\ steps = <<>> /\ blocks = <<>> /\ Len(sequence) \in Nat
           => CreateInv /\ DeleteInv /\ BlockInv)'
    BY NothingMade, PTL
  <2>6. Len(sequence) \in Nat
    BY <2>2 DEF PlaceInv
  <2>7. CASE Expand
    <3>1. ClosureInv' /\ BranchInv'
      BY <2>7, ExpandStep
    <3>2. phase' = "plan" /\ sequence' = <<>> /\ lastUse' = <<>> /\ steps' = <<>> /\ blocks' = <<>>
      BY <2>2, <2>7 DEF Expand, BegunInv
    <3> QED BY <2>3, <2>4, <3>1, <3>2 DEF ComposerInv
  <2>8. CASE ResolveGroup
    <3>1. ClosureInv' /\ BranchInv'
      BY <2>8, ResolveStep
    <3>2. phase' = "plan" /\ sequence' = <<>> /\ lastUse' = <<>> /\ steps' = <<>> /\ blocks' = <<>>
      BY <2>2, <2>8 DEF ResolveGroup, BegunInv
    <3> QED BY <2>3, <2>4, <3>1, <3>2 DEF ComposerInv
  <2>9. ASSUME ordered' = ordered, UNCHANGED closure PROVE ClosureInv' /\ BranchInv'
    BY <2>2, <2>9, ClosureStays
  <2>10. CASE Planned
    <3>1. phase = "plan" /\ phase' = "place" /\ sequence' = sequence /\ lastUse' = lastUse
          /\ steps' = steps /\ blocks' = blocks /\ ordered' = ordered /\ UNCHANGED closure
      BY <2>10 DEF Planned
    <3>2. PlaceInv' /\ UseInv'
      BY <2>2, <3>1, OrdersStay DEF AfterUse, AfterPlace, AfterPlan
    <3>3. CreateInv' /\ DeleteInv' /\ BlockInv'
      BY <2>2, <2>5, <2>6, <3>1 DEF BegunInv, AfterCreate, AfterUse, AfterPlace, AfterPlan
    <3> QED BY <2>3, <2>9, <3>1, <3>2, <3>3 DEF ComposerInv
  <2>11. CASE PlaceNext
    <3>1. PlaceInv' /\ UseInv'
      BY <2>11, PlaceStep, UseBegins
    <3>2. phase = "place" /\ phase' \in {"place", "use"} /\ steps' = steps /\ blocks' = blocks
          /\ ordered' = ordered /\ UNCHANGED closure
      BY <2>11 DEF PlaceNext
    <3>3. Len(sequence)' \in Nat
      BY <3>1 DEF PlaceInv
    <3>4. CreateInv' /\ DeleteInv' /\ BlockInv'
      BY <2>2, <2>5, <3>2, <3>3 DEF BegunInv, AfterCreate, AfterUse, AfterPlace, AfterPlan
    <3> QED BY <2>3, <2>9, <3>1, <3>2, <3>4 DEF ComposerInv
  <2>12. CASE LastUseNext
    <3>1. phase = "use" /\ phase' = phase /\ sequence' = sequence /\ steps' = steps
          /\ blocks' = blocks /\ ordered' = ordered /\ UNCHANGED closure
      BY <2>12 DEF LastUseNext
    <3>2. UseInv'
      BY <2>12, LastUseStep
    <3>3. PlaceInv'
      <4>1. Instances' = Instances
        BY <3>1, ClosureStays
      <4>2. \A i : InstDeps(sequence[i])' = InstDeps(sequence[i])
        BY <3>1 DEF closure, InstDeps, NeedsOf
      <4> QED BY <2>2, <3>1, <4>1, <4>2 DEF PlaceInv
    <3>4. CreateInv' /\ DeleteInv' /\ BlockInv'
      BY <2>2, <2>5, <2>6, <3>1 DEF BegunInv, AfterCreate, AfterUse, AfterPlace, AfterPlan
    <3> QED BY <2>3, <2>9, <3>1, <3>2, <3>3, <3>4 DEF ComposerInv
  <2>13. CASE LookedUp
    <3>1. phase = "use" /\ phase' = "create" /\ sequence' = sequence /\ lastUse' = lastUse
          /\ steps' = steps /\ blocks' = blocks /\ ordered' = ordered /\ UNCHANGED closure
          /\ DOMAIN lastUse = Instances
      BY <2>13 DEF LookedUp
    <3>2. PlaceInv' /\ UseInv'
      BY <2>2, <3>1, OrdersStay DEF AfterPlace, AfterPlan
    <3>3. CreateInv' /\ DeleteInv' /\ BlockInv'
      BY <2>2, <2>5, <2>6, <3>1 DEF BegunInv, AfterCreate, AfterUse, AfterPlace, AfterPlan
    <3> QED BY <2>3, <2>9, <3>1, <3>2, <3>3 DEF ComposerInv
  <2>14. phase \in AfterUse => DOMAIN lastUse = Instances
    BY <2>2 DEF UseInv, AfterUse
  <2>15. CASE Create
    <3>1. phase = "create" /\ phase' = "create" /\ sequence' = sequence /\ lastUse' = lastUse
      BY <2>15, CreateAdds
    <3>2. ordered' = ordered /\ UNCHANGED closure
      BY <2>15 DEF Create
    <3>3. PlaceInv' /\ UseInv'
      BY <2>2, <2>14, <3>1, <3>2, OrdersStay
    <3>4. CreateInv' /\ DeleteInv' /\ BlockInv'
      BY <2>15, CreateStep, BlockStep
    <3> QED BY <2>3, <2>9, <3>2, <3>3, <3>4 DEF ComposerInv
  <2>16. CASE AllCreated
    <3>1. phase = "create" /\ phase' = "delete" /\ sequence' = sequence /\ lastUse' = lastUse
          /\ steps' = steps /\ blocks' = blocks /\ ordered' = ordered /\ UNCHANGED closure
          /\ Cardinality(Creations) = Len(sequence)
      BY <2>16 DEF AllCreated
    <3>2. PlaceInv' /\ UseInv'
      BY <2>2, <2>14, <3>1, OrdersStay DEF AfterUse, AfterPlace, AfterPlan
    <3>3. CreateInv' /\ DeleteInv' /\ BlockInv'
      BY <2>2, <3>1, StepsStay DEF AfterCreate, AfterUse, AfterPlace, AfterPlan
    <3> QED BY <2>3, <2>9, <3>1, <3>2, <3>3 DEF ComposerInv
  <2>17. CASE TearDown
    <3>1. phase = "delete" /\ phase' \in {"delete", "validate"} /\ sequence' = sequence
          /\ lastUse' = lastUse /\ ordered' = ordered /\ UNCHANGED closure
      BY <2>17 DEF TearDown
    <3>2. PlaceInv' /\ UseInv'
      BY <2>2, <2>14, <3>1, OrdersStay DEF AfterUse, AfterPlace, AfterPlan
    <3>3. CreateInv' /\ DeleteInv' /\ BlockInv'
      BY <2>17, TearDownStep
    <3> QED BY <2>3, <2>9, <3>1, <3>2, <3>3 DEF ComposerInv
  <2>18. CASE ValidateComposed
    <3>1. phase = "validate" /\ phase' = "done" /\ sequence' = sequence /\ lastUse' = lastUse
          /\ steps' = steps /\ blocks' = blocks /\ ordered' = ordered /\ UNCHANGED closure
      BY <2>18 DEF ValidateComposed
    <3>2. PlaceInv' /\ UseInv'
      BY <2>2, <2>14, <3>1, OrdersStay DEF AfterUse, AfterPlace, AfterPlan
    <3>3. Cardinality(Creations) = Len(sequence) /\ ToTearDown = {}
      BY <2>2, <3>1 DEF CreateInv, DeleteInv, AfterCreate, AfterUse, AfterPlace, AfterPlan
    <3>4. CreateInv' /\ DeleteInv' /\ BlockInv'
      BY <2>2, <3>1, <3>3, StepsStay DEF AfterCreate, AfterUse, AfterPlace, AfterPlan
    <3> QED BY <2>3, <2>9, <3>1, <3>2, <3>4 DEF ComposerInv
  <2> QED BY <1>2, <2>7, <2>8, <2>10, <2>11, <2>12, <2>13, <2>15, <2>16, <2>17, <2>18
          DEF ComposerNext
<1> QED BY <1>1, <1>2

-----------------------------------------------------------------------------
(* What comes out.                                                           *)
LEMMA NoNeedless ==
  ClosureInv /\ toExpand = {} =>
    Needless = {} /\ \A t \in ordered.targets : <<t, 1>> \in Instances
<1> SUFFICES ASSUME ClosureInv, toExpand = {}
             PROVE  Needless = {} /\ \A t \in ordered.targets : <<t, 1>> \in Instances
  OBVIOUS
<1>1. Listed = DOMAIN pool
  BY DEF Listed
<1>2. \A t \in ordered.targets : <<t, 1>> \in Instances
  <2> TAKE t \in ordered.targets
  <2>1. t \in DOMAIN pool /\ pool[t] \in Nat \ {0}
    BY <1>1 DEF ClosureInv
  <2>2. 1 \in 1 .. pool[t]
    BY <2>1
  <2> QED BY <2>1, <2>2 DEF Instances
<1>3. ASSUME NEW x \in Needless PROVE FALSE
  <2>1. PICK n \in DOMAIN pool : \E i \in 1 .. pool[n] : x = <<n, i>>
    BY DEF Needless, Instances
  <2>2. PICK i \in 1 .. pool[n] : x = <<n, i>>
    BY <2>1
  <2>3. pool[n] \in Nat \ {0} /\ i \in Nat /\ 1 <= i /\ i <= pool[n]
    BY <2>2 DEF ClosureInv
  <2>4. /\ ~(n \in ordered.targets /\ i = 1)
        /\ \A w \in consumers : w.needs = n => ~ i <= w.count
    BY <2>2 DEF Needless, IsTarget
  <2>5. CASE \E w \in consumers : w.needs = n /\ w.count = pool[n]
    BY <2>3, <2>4, <2>5
  <2>6. CASE pool[n] = 1
    <3>1. i = 1
      BY <2>3, <2>6
    <3>2. n \in ordered.targets \/ \E w \in consumers : w.needs = n
      BY <1>1 DEF ClosureInv
    <3>3. \A w \in consumers : w.count \in Nat \ {0}
      BY DEF ClosureInv
    <3> QED BY <2>4, <3>1, <3>2, <3>3
  <2> QED BY <2>5, <2>6 DEF ClosureInv
<1> QED BY <1>2, <1>3

\* A branch that is there for its group alone has a reason that does not look at what is
\* needed anyway: it was asked for, or none of its group's is.
LEMMA NoneAlone ==
  ClosureInv /\ BranchInv /\ toExpand = {} =>
    \A p \in DOMAIN taken :
      LET branches == Task[p[1]].groups[p[2]]
      IN  Chosen(branches, p[1]) = {} /\ ToSet(branches) \cap Anyway # {} => ~MadeFor(p)
<1> SUFFICES ASSUME ClosureInv, BranchInv, toExpand = {}, NEW p \in DOMAIN taken,
                    Chosen(Task[p[1]].groups[p[2]], p[1]) = {},
                    ToSet(Task[p[1]].groups[p[2]]) \cap Anyway # {}, MadeFor(p)
             PROVE  FALSE
  OBVIOUS
<1>1. Reasoned(p)
  BY DEF BranchInv
<1>2. taken[p] \in DOMAIN pool
  BY DEF BranchInv, Listed
<1>3. CASE taken[p] \in ordered.targets
  <2>1. taken[p] \in Anyway
    BY <1>2, <1>3 DEF Anyway, Closed
  <2> QED BY <2>1 DEF MadeFor
<1>4. CASE \E n \in DOMAIN pool : taken[p] \in Needed(n)
  <2>1. PICK n \in DOMAIN pool : taken[p] \in Needed(n)
    BY <1>4
  <2>2. PICK w \in Expanded(n) : w.needs = taken[p]
    BY <2>1 DEF Needed
  <2>3. w \in consumers /\ n \in Nodes
    BY DEF ClosureInv, Wants
  <2>4. w.node = n
    BY <2>3, ExpandedFacts
  <2> QED BY <2>1, <2>2, <2>3, <2>4 DEF MadeFor
<1>5. CASE \E q \in DOMAIN taken \ {p} : taken[q] = taken[p]
  BY <1>5 DEF MadeFor
<1>6. CASE \E R \in SUBSET DOMAIN pool : Closed(R) /\ ToSet(Task[p[1]].groups[p[2]]) \cap R = {}
  <2>1. PICK R \in SUBSET DOMAIN pool : Closed(R) /\ ToSet(Task[p[1]].groups[p[2]]) \cap R = {}
    BY <1>6
  <2>2. Anyway \subseteq R
    BY <2>1 DEF Anyway
  <2> QED BY <2>1, <2>2
<1> QED BY <1>1, <1>3, <1>4, <1>5, <1>6 DEF Reasoned

\* Each instance is created by one step.
LEMMA OneCreation ==
  PlaceInv /\ CreateInv /\ phase = "done" =>
    \A x \in Instances : \E i \in Creations : steps[i].what = x /\ StepOf("create", x) = {i}
<1> SUFFICES ASSUME PlaceInv, CreateInv, phase = "done", NEW x \in Instances
             PROVE  \E i \in Creations : steps[i].what = x /\ StepOf("create", x) = {i}
  OBVIOUS
<1>1. Cardinality(Creations) = Len(sequence) /\ ToSet(sequence) = Instances
  BY DEF CreateInv, PlaceInv, AfterCreate, AfterUse, AfterPlace, AfterPlan
<1>2. /\ Pos(x) \in 1 .. Len(sequence) /\ sequence[Pos(x)] = x
  BY <1>1, SequenceFacts
<1>3. PICK i \in Creations : steps[i].what = x
  BY <1>1, <1>2 DEF CreateInv
<1>4. ASSUME NEW k \in Creations, steps[k].what = x, k # i PROVE FALSE
  <2>1. steps \in Seq(StepRecord)
    BY DEF CreateInv
  <2>2. DOMAIN steps = 1 .. Len(steps) /\ Len(steps) \in Nat
    BY <2>1
  <2>3. i \in Nat /\ k \in Nat
    BY <2>2 DEF Creations
  <2>4. Pos(x) \in Nat
    BY <1>2
  <2>5. i < k => Pos(steps[i].what) < Pos(steps[k].what)
    BY DEF CreateInv
  <2>6. k < i => Pos(steps[k].what) < Pos(steps[i].what)
    BY DEF CreateInv
  <2>7. i < k \/ k < i
    BY <2>3, <1>4
  <2> QED BY <2>4, <2>5, <2>6, <2>7, <1>3, <1>4
<1>5. StepOf("create", x) = {k \in Creations : steps[k].what = x}
  BY DEF StepOf, Creations
<1>6. StepOf("create", x) = {i}
  BY <1>3, <1>4, <1>5
<1> QED BY <1>3, <1>6

\* What can be deleted is deleted by one step, and nothing else is.
LEMMA OneDeletion ==
  PlaceInv /\ UseInv /\ CreateInv /\ DeleteInv /\ phase = "done" =>
    \A x \in Instances :
      /\ Task[x[1]].deleted => \E i : StepOf("delete", x) = {i}
      /\ ~Task[x[1]].deleted => StepOf("delete", x) = {}
<1> SUFFICES ASSUME PlaceInv, UseInv, CreateInv, DeleteInv, phase = "done", NEW x \in Instances
             PROVE  /\ Task[x[1]].deleted => \E i : StepOf("delete", x) = {i}
                    /\ ~Task[x[1]].deleted => StepOf("delete", x) = {}
  OBVIOUS
<1>1. ToSet(sequence) = Instances /\ ToTearDown = {} /\ DOMAIN lastUse = Instances
  BY DEF PlaceInv, DeleteInv, UseInv, AfterUse, AfterPlace, AfterPlan
<1>2. CASE Task[x[1]].deleted
  <2>1. x \in DeletedAlready
    BY <1>1, <1>2 DEF ToTearDown
  <2>2. PICK i \in DOMAIN steps : steps[i].does = "delete" /\ steps[i].what = x
    BY <2>1 DEF DeletedAlready
  <2>3. ASSUME NEW k \in StepOf("delete", x), k # i PROVE FALSE
    <3>1. k \in DOMAIN steps /\ steps[k].does = "delete" /\ steps[k].what = x
      BY DEF StepOf
    <3>2. steps \in Seq(StepRecord)
      BY DEF CreateInv
    <3>3. DOMAIN steps = 1 .. Len(steps) /\ Len(steps) \in Nat
      BY <3>2
    <3>4. i < k \/ k < i
      BY <2>3, <3>1, <3>3
    <3>5. DeletedBefore(x, x)
      BY <2>2, <3>1, <3>4 DEF DeleteInv
    <3>6. Pos(x) \in Nat /\ lastUse[x] \in Nat
      BY <1>1, SequenceFacts DEF UseInv, AfterPlace, AfterPlan
    <3> QED BY <3>5, <3>6 DEF DeletedBefore
  <2>4. i \in StepOf("delete", x)
    BY <2>2 DEF StepOf
  <2>5. StepOf("delete", x) = {i}
    BY <2>3, <2>4
  <2> QED BY <1>2, <2>5
<1>3. CASE ~Task[x[1]].deleted
  <2>1. ASSUME NEW i \in StepOf("delete", x) PROVE FALSE
    <3>1. x \in Removable
      BY DEF StepOf, DeleteInv
    <3> QED BY <3>1, <1>3 DEF Removable
  <2> QED BY <1>3, <2>1
<1> QED BY <1>2, <1>3

\* The plan, and the lifecycle composed from it: in the end all that is said of it holds.
LEMMA DoneIsSound == ComposerInv => PlanSound
<1> SUFFICES ASSUME ComposerInv, phase = "done" PROVE PlanSound
  BY DEF PlanSound
<1>1. /\ BegunInv /\ ClosureInv /\ BranchInv /\ PlaceInv /\ UseInv /\ CreateInv
      /\ DeleteInv /\ BlockInv
  BY DEF ComposerInv
<1>2. /\ phase \in AfterUse /\ toExpand = {}
      /\ DOMAIN lastUse = Instances /\ ToSet(sequence) = Instances
  BY <1>1 DEF BegunInv, UseInv, PlaceInv, AfterUse, AfterPlace, AfterPlan
<1>3. Needless = {} /\ \A t \in ordered.targets : <<t, 1>> \in Instances
  BY <1>1, <1>2, NoNeedless
<1>4. \A p \in DOMAIN taken :
        LET branches == Task[p[1]].groups[p[2]]
        IN  Chosen(branches, p[1]) = {} /\ ToSet(branches) \cap Anyway # {} => ~MadeFor(p)
  BY <1>1, <1>2, NoneAlone
<1>5. /\ Len(sequence) \in Nat /\ DOMAIN steps = 1 .. Len(steps) /\ Len(steps) \in Nat
      /\ \A x \in Instances : /\ Pos(x) \in 1 .. Len(sequence) /\ sequence[Pos(x)] = x
                              /\ lastUse[x] \in Nat
      /\ \A i \in 1 .. Len(sequence) : Pos(sequence[i]) = i
  <2>1. steps \in Seq(StepRecord)
    BY <1>1 DEF CreateInv
  <2>2. \A x \in Instances : lastUse[x] \in Nat
    BY <1>1, <1>2 DEF UseInv, AfterUse
  <2> QED BY <1>1, <1>2, <2>1, <2>2, SequenceFacts
<1>6. \A x \in Instances : Cardinality(StepOf("create", x)) = 1
  <2> TAKE x \in Instances
  <2>1. PICK i : StepOf("create", x) = {i}
    BY <1>1, OneCreation
  <2>2. Cardinality({i}) = 1
    BY FS_Singleton
  <2> QED BY <2>1, <2>2
<1>7. \A x \in Instances :
        Cardinality(StepOf("delete", x)) = IF Task[x[1]].deleted THEN 1 ELSE 0
  <2> TAKE x \in Instances
  <2>1. CASE Task[x[1]].deleted
    <3>1. PICK i : StepOf("delete", x) = {i}
      BY <1>1, <2>1, OneDeletion
    <3>2. Cardinality({i}) = 1
      BY FS_Singleton
    <3> QED BY <2>1, <3>1, <3>2
  <2>2. CASE ~Task[x[1]].deleted
    <3>1. StepOf("delete", x) = {}
      BY <1>1, <2>2, OneDeletion
    <3>2. Cardinality({}) = 0
      BY FS_EmptySet
    <3> QED BY <2>2, <3>1, <3>2
  <2> QED BY <2>1, <2>2
<1>8. ASSUME NEW x \in Instances, NEW i \in StepOf("create", x), NEW d \in InstDeps(x),
             NEW j \in StepOf("create", d)
      PROVE  j < i
  <2>1. PICK k \in 1 .. (Pos(x) - 1) : sequence[k] = d
    BY <1>1, <1>5 DEF PlaceInv
  <2>2. k \in 1 .. Len(sequence) /\ Pos(d) = k /\ Pos(d) < Pos(x) /\ Pos(x) \in Nat
    BY <1>5, <2>1
  <2>3. i \in Creations /\ steps[i].what = x /\ j \in Creations /\ steps[j].what = d
        /\ i \in Nat /\ j \in Nat
    BY <1>5 DEF StepOf, Creations
  <2>4. i < j => Pos(x) < Pos(d)
    BY <1>1, <2>3 DEF CreateInv
  <2>5. i # j
    BY <2>2, <2>3
  <2> QED BY <2>2, <2>3, <2>4, <2>5
<1>9. ASSUME NEW x \in Instances, NEW i \in StepOf("delete", x), NEW y \in AllUsers(x),
             NEW j \in StepOf("delete", y)
      PROVE  j < i
  <2>1. y \in Instances /\ Pos(x) < Pos(y) /\ lastUse[y] <= lastUse[x]
    BY <1>1, <1>2, AllUsersComeLater
  <2>2. /\ i \in DOMAIN steps /\ steps[i].does = "delete" /\ steps[i].what = x
        /\ j \in DOMAIN steps /\ steps[j].does = "delete" /\ steps[j].what = y
        /\ i \in Nat /\ j \in Nat
    BY <1>5 DEF StepOf
  <2>3. Pos(x) \in Nat /\ Pos(y) \in Nat /\ lastUse[x] \in Nat /\ lastUse[y] \in Nat
    BY <1>5, <2>1
  <2>4. i < j => DeletedBefore(x, y)
    BY <1>1, <2>2 DEF DeleteInv
  <2>5. ~DeletedBefore(x, y)
    BY <2>1, <2>3 DEF DeletedBefore
  <2>6. i # j
    BY <2>1, <2>2, <2>3
  <2> QED BY <2>2, <2>4, <2>5, <2>6
<1>10. ASSUME NEW x \in Instances, NEW i \in StepOf("delete", x), NEW j \in DOMAIN steps,
              steps[j].does = "verify"
       PROVE  j < i
  BY <1>1, <1>10 DEF DeleteInv, StepOf
<1>11. \A x, y \in DOMAIN blocks : blocks[x] = blocks[y] => x = y
  BY <1>1 DEF BlockInv
<1> QED BY <1>3, <1>4, <1>6, <1>7, <1>8, <1>9, <1>10, <1>11 DEF PlanSound

\* The inductive invariant of the composition.
THEOREM ComposerInduction == ComposerSpec => []ComposerInv
<1> QED BY ComposerInitInv, ComposerStepInv, PTL DEF ComposerSpec

\* Whatever model the nodes are from and whatever is asked for, the lifecycle that comes
\* out stands on its own (compose and plan of composer.py): nothing is missing or made
\* without need, and everything is created, used and deleted in an order that is possible.
THEOREM PlansAreSound == ComposerSpec => []PlanSound
<1> QED BY ComposerInduction, DoneIsSound, PTL
-----------------------------------------------------------------------------
(* The events *)

Ways == {"step", "append", "look", "flush", "client", "key"}
LogTypes ==
  /\ DOMAIN emitter \subseteq Emitters
  /\ emitter \in [DOMAIN emitter -> [at : Ways, made : Nat, list : Nat \ {0}]]
  /\ \A e \in DOMAIN emitter :
       /\ emitter[e].made <= PerLifecycle
       /\ At(e, "append") => emitter[e].made < PerLifecycle
       /\ emitter[e].list <= buffer
  /\ lists \in Seq(SUBSET ((DOMAIN emitter) \X Nat))
  /\ buffer = Len(lists) /\ buffer \in Nat \ {0}
  /\ seq \in Nat /\ clock \in Nat

\* An event is in one list, from the moment it is made.
EventInv ==
  /\ \A l, m \in DOMAIN lists : l # m => lists[l] \cap lists[m] = {}
  /\ \A e \in DOMAIN emitter, n \in Nat :
       (\E l \in DOMAIN lists : <<e, n>> \in lists[l]) <=> n \in 1 .. emitter[e].made

\* A list that was taken is one thread's, who stores it once.
Takes(e, l) == emitter[e].at \in {"client", "key"} /\ emitter[e].list = l
TakenInv ==
  /\ \A e \in DOMAIN emitter, l \in DOMAIN lists : Takes(e, l) =>
       /\ l < buffer
       /\ \A d \in DOMAIN emitter : Takes(d, l) => d = e
       /\ \A s \in sent : s.list # l
  /\ \A s \in sent :
       /\ s.list \in 1 .. buffer - 1 /\ s.batch \subseteq lists[s.list]
       /\ s.key \in Nat \X Nat
  /\ \A s, t \in sent : s.list = t.list => s = t
  /\ \A l \in 1 .. buffer - 1 :
       \/ l \in unstored \cup wiped
       \/ \E s \in sent : s.list = l
       \/ \E e \in DOMAIN emitter : Takes(e, l)

\* What is not there any more went under a key that was used again.
StoredInv ==
  /\ objects \subseteq sent
  /\ \A s \in sent \ objects : \E t \in sent : t.key = s.key /\ t.list # s.list

\* A thread that made its last event leaves none in the buffer.
LastInv ==
  \A e \in DOMAIN emitter : Made(e) /\ emitter[e].at \in {"step", "client", "key"} =>
    \A n \in Nat : <<e, n>> \notin lists[buffer]

\* A thread by itself: nobody takes or empties a list between its calls, and no key is
\* used twice.
Alone == \A d, e \in DOMAIN emitter : d = e
AloneInv ==
  Alone =>
    /\ \A e \in DOMAIN emitter :
         /\ At(e, "append") => emitter[e].list = buffer
         /\ emitter[e].at \in {"client", "key"} => lists[buffer] = {}
         /\ At(e, "key") => \A s \in sent : s.key[2] < seq
    /\ \A l \in wiped : l \in 1 .. buffer - 1 /\ lists[l] = {}
    /\ \A s \in sent : s.batch = lists[s.list] /\ s.key[2] <= seq
    /\ sent \subseteq objects

LogInv == LogTypes /\ EventInv /\ TakenInv /\ StoredInv /\ LastInv /\ AloneInv

LEMMA LogInitially == ResourceLogInit => LogInv
<1> SUFFICES ASSUME ResourceLogInit PROVE LogInv
  OBVIOUS
<1>1. PICK E \in SUBSET Emitters \ {{}} :
        emitter = [e \in E |-> [at |-> "step", made |-> 0, list |-> 1]]
  BY DEF ResourceLogInit
<1>2. /\ DOMAIN emitter = E /\ E \subseteq Emitters
      /\ emitter \in [DOMAIN emitter -> [at : Ways, made : Nat, list : Nat \ {0}]]
      /\ \A e \in DOMAIN emitter : /\ emitter[e].at = "step" /\ emitter[e].made = 0
                                   /\ emitter[e].list = 1
  BY <1>1 DEF Ways
<1>3. /\ lists = <<{}>> /\ buffer = 1 /\ seq = 0 /\ clock = 0
      /\ objects = {} /\ unstored = {} /\ wiped = {} /\ sent = {}
  BY DEF ResourceLogInit
<1>4. /\ lists \in Seq(SUBSET ((DOMAIN emitter) \X Nat)) /\ Len(lists) = 1
      /\ DOMAIN lists = {1} /\ lists[1] = {}
  BY <1>3
<1>5. LogTypes
  BY <1>2, <1>3, <1>4, ResourceLogAssumption DEF LogTypes, At
<1>6. EventInv
  BY <1>2, <1>4 DEF EventInv
<1>7. TakenInv /\ StoredInv /\ LastInv /\ AloneInv
  BY <1>2, <1>3, <1>4 DEF TakenInv, StoredInv, LastInv, AloneInv, Takes, At
<1> QED BY <1>5, <1>6, <1>7 DEF LogInv

\* The record of the thread that moves, and the others'.
Others(e) == DOMAIN emitter' = DOMAIN emitter /\ \A d \in (DOMAIN emitter) \ {e} : emitter'[d] = emitter[d]

LEMMA Moved ==
  ASSUME LogTypes, NEW e \in DOMAIN emitter, NEW place \in Ways, Moves(e, place)
  PROVE  /\ Others(e)
         /\ emitter' \in [DOMAIN emitter -> [at : Ways, made : Nat, list : Nat \ {0}]]
         /\ emitter'[e].at = place /\ emitter'[e].made = emitter[e].made
         /\ emitter'[e].list = emitter[e].list
<1> QED BY DEF LogTypes, Moves, Others

LEMMA Looked ==
  ASSUME LogTypes, NEW e \in DOMAIN emitter, NEW place \in Ways, NEW l \in Nat \ {0},
         emitter' = [emitter EXCEPT ![e].at = place, ![e].list = l]
  PROVE  /\ Others(e)
         /\ emitter' \in [DOMAIN emitter -> [at : Ways, made : Nat, list : Nat \ {0}]]
         /\ emitter'[e].at = place /\ emitter'[e].made = emitter[e].made
         /\ emitter'[e].list = l
<1> QED BY DEF LogTypes, Others

\* A new buffer.
LEMMA Renewed ==
  ASSUME LogTypes, NewBuffer
  PROVE  /\ lists' \in Seq(SUBSET ((DOMAIN emitter) \X Nat))
         /\ Len(lists') = buffer + 1 /\ buffer' = buffer + 1
         /\ DOMAIN lists = 1 .. buffer /\ DOMAIN lists' = 1 .. buffer + 1
         /\ \A l \in 1 .. buffer : lists'[l] = lists[l]
         /\ lists'[buffer + 1] = {}
<1>1. {} \in SUBSET ((DOMAIN emitter) \X Nat)
  OBVIOUS
<1> QED BY <1>1 DEF LogTypes, NewBuffer

\* A thread looks a list up, or sees what there is to do next.
LEMMA LooksKeep ==
  ASSUME LogInv, NEW e \in DOMAIN emitter, LookUp(e) \/ Look(e)
  PROVE  LogInv'
<1>1. /\ UNCHANGED <<lists, buffer, seq, clock, objects, unstored, wiped, sent>>
      /\ LogTypes
  BY DEF LookUp, Look, LogInv
<1>2. buffer \in Nat \ {0} /\ PerLifecycle \in Nat
  BY <1>1, ResourceLogAssumption DEF LogTypes
<1>3. /\ Others(e)
      /\ emitter' \in [DOMAIN emitter -> [at : Ways, made : Nat, list : Nat \ {0}]]
      /\ emitter'[e].made = emitter[e].made
      /\ \/ /\ emitter'[e].at = "append" /\ emitter'[e].list = buffer
            /\ emitter[e].made < PerLifecycle
         \/ /\ emitter'[e].at = "step" /\ ~Made(e) /\ emitter'[e].list = emitter[e].list
         \/ /\ emitter'[e].at = "flush" /\ emitter'[e].list = emitter[e].list
      /\ emitter[e].at \in {"step", "look"}
  <2>1. CASE LookUp(e)
    <3>1. /\ emitter' = [emitter EXCEPT ![e].at = "append", ![e].list = buffer]
          /\ emitter[e].at = "step" /\ emitter[e].made < PerLifecycle
      BY <2>1 DEF LookUp, At
    <3>2. "append" \in Ways
      BY DEF Ways
    <3>3. /\ Others(e)
          /\ emitter' \in [DOMAIN emitter -> [at : Ways, made : Nat, list : Nat \ {0}]]
          /\ emitter'[e].at = "append" /\ emitter'[e].made = emitter[e].made
          /\ emitter'[e].list = buffer
      BY <1>1, <1>2, <3>1, <3>2, Looked
    <3> QED BY <3>1, <3>3
  <2>2. CASE Look(e)
    <3>1. /\ emitter[e].at = "look"
          /\ Moves(e, "flush") \/ (~Made(e) /\ Moves(e, "step"))
      BY <2>2 DEF Look, At
    <3>2. "flush" \in Ways /\ "step" \in Ways
      BY DEF Ways
    <3> QED BY <1>1, <3>1, <3>2, Moved
  <2> QED BY <2>1, <2>2
<1>4. LogTypes'
  <2>1. DOMAIN emitter' = DOMAIN emitter
    BY <1>3 DEF Others
  <2>2. ASSUME NEW d \in DOMAIN emitter
        PROVE  /\ emitter'[d].made <= PerLifecycle /\ emitter'[d].list <= buffer
               /\ emitter'[d].at = "append" => emitter'[d].made < PerLifecycle
    <3>1. /\ emitter[d].made <= PerLifecycle /\ emitter[d].list <= buffer
          /\ emitter[d].at = "append" => emitter[d].made < PerLifecycle
      BY <1>1 DEF LogTypes, At
    <3>2. CASE d = e
      BY <3>1, <3>2, <1>2, <1>3
    <3>3. CASE d # e
      BY <3>1, <3>3, <1>3 DEF Others
    <3> QED BY <3>2, <3>3
  <2> QED BY <2>1, <2>2, <1>1, <1>3 DEF LogTypes, At
<1>5. \A d \in DOMAIN emitter, l \in DOMAIN lists : Takes(d, l)' <=> Takes(d, l)
  BY <1>3 DEF Takes, Others
<1>6. EventInv'
  <2>1. \A d \in DOMAIN emitter : emitter'[d].made = emitter[d].made
    BY <1>3 DEF Others
  <2>2. DOMAIN emitter' = DOMAIN emitter
    BY <1>3 DEF Others
  <2> QED BY <1>1, <2>1, <2>2 DEF LogInv, EventInv
<1>7. TakenInv'
  <2>1. DOMAIN emitter' = DOMAIN emitter /\ 1 .. buffer - 1 \subseteq DOMAIN lists
    BY <1>1, <1>2, <1>3 DEF Others, LogTypes
  <2> QED BY <1>1, <1>5, <2>1 DEF LogInv, TakenInv
<1>8. StoredInv'
  BY <1>1 DEF LogInv, StoredInv
<1>9. LastInv'
  BY <1>1, <1>3 DEF LogInv, LastInv, Made, Others
<1>10. AloneInv'
  BY <1>1, <1>3 DEF LogInv, AloneInv, Alone, At, Others
<1> QED BY <1>4, <1>6, <1>7, <1>8, <1>9, <1>10 DEF LogInv

LEMMA AppendKeeps ==
  ASSUME LogInv, NEW e \in DOMAIN emitter, AppendEvent(e)
  PROVE  LogInv'
<1> DEFINE n == emitter[e].made + 1
           at == emitter[e].list
           v == <<e, n>>
<1>1. /\ UNCHANGED <<buffer, seq, clock, objects, unstored, wiped, sent>>
      /\ LogTypes /\ emitter[e].at = "append"
      /\ lists' = [lists EXCEPT ![at] = lists[at] \cup {v}]
      /\ emitter' = [emitter EXCEPT ![e].at = "look", ![e].made = n]
  BY DEF AppendEvent, LogInv, At
<1>2. /\ buffer \in Nat \ {0} /\ PerLifecycle \in Nat /\ buffer = Len(lists)
      /\ lists \in Seq(SUBSET ((DOMAIN emitter) \X Nat)) /\ DOMAIN lists = 1 .. buffer
      /\ emitter \in [DOMAIN emitter -> [at : Ways, made : Nat, list : Nat \ {0}]]
      /\ emitter[e].made < PerLifecycle /\ emitter[e].made \in Nat
      /\ at \in 1 .. buffer
  BY <1>1, ResourceLogAssumption DEF LogTypes, At
<1>3. /\ Others(e)
      /\ emitter' \in [DOMAIN emitter -> [at : Ways, made : Nat, list : Nat \ {0}]]
      /\ emitter'[e].at = "look" /\ emitter'[e].made = n /\ emitter'[e].list = at
      /\ n \in Nat /\ n <= PerLifecycle
  <2>1. n \in Nat /\ n <= PerLifecycle
    BY <1>2
  <2> HIDE DEF n
  <2>2. /\ DOMAIN emitter' = DOMAIN emitter /\ \A d \in (DOMAIN emitter) \ {e} : emitter'[d] = emitter[d]
        /\ emitter'[e] = [emitter[e] EXCEPT !.at = "look", !.made = n]
    BY <1>1
  <2>3. /\ emitter[e] \in [at : Ways, made : Nat, list : Nat \ {0}] /\ "look" \in Ways
    BY <1>2 DEF Ways
  <2>4. /\ emitter'[e] \in [at : Ways, made : Nat, list : Nat \ {0}]
        /\ emitter'[e].at = "look" /\ emitter'[e].made = n /\ emitter'[e].list = at
    BY <2>1, <2>2, <2>3
  <2>5. emitter' \in [DOMAIN emitter -> [at : Ways, made : Nat, list : Nat \ {0}]]
    <3>1. \A d \in DOMAIN emitter : emitter'[d] \in [at : Ways, made : Nat, list : Nat \ {0}]
      BY <2>2, <2>4, <1>2
    <3>2. emitter' = [d \in DOMAIN emitter |-> emitter'[d]]
      BY <1>1
    <3> QED BY <3>1, <3>2
  <2> QED BY <2>1, <2>2, <2>4, <2>5 DEF Others
<1>4. v \in (DOMAIN emitter) \X Nat
  BY <1>2
<1> HIDE DEF v, at, n
<1>5. /\ DOMAIN lists' = DOMAIN lists /\ Len(lists') = Len(lists)
      /\ lists' \in Seq(SUBSET ((DOMAIN emitter) \X Nat))
      /\ lists'[at] = lists[at] \cup {v}
      /\ \A l \in DOMAIN lists : l # at => lists'[l] = lists[l]
  BY <1>1, <1>2, <1>4
<1>6. LogTypes'
  BY <1>1, <1>2, <1>3, <1>5 DEF LogTypes, Others, At
<1>7. \A l \in DOMAIN lists : v \notin lists[l]
  <2>1. n \notin 1 .. emitter[e].made
    BY <1>2 DEF n
  <2> QED BY <2>1, <1>3 DEF v, LogInv, EventInv
<1>8. EventInv'
  <2>1. \A l, m \in DOMAIN lists' : l # m => lists'[l] \cap lists'[m] = {}
    BY <1>5, <1>7 DEF LogInv, EventInv
  <2>2. ASSUME NEW d \in DOMAIN emitter, NEW k \in Nat
        PROVE  (\E l \in DOMAIN lists' : <<d, k>> \in lists'[l]) <=> k \in 1 .. emitter'[d].made
    <3>1. (\E l \in DOMAIN lists : <<d, k>> \in lists[l]) <=> k \in 1 .. emitter[d].made
      BY DEF LogInv, EventInv
    <3>2. (\E l \in DOMAIN lists' : <<d, k>> \in lists'[l]) <=>
            (\E l \in DOMAIN lists : <<d, k>> \in lists[l]) \/ <<d, k>> = v
      BY <1>2, <1>5
    <3>3. <<d, k>> = v <=> d = e /\ k = n
      BY DEF v
    <3>4. CASE d = e
      <4>1. k \in 1 .. n <=> k \in 1 .. emitter[e].made \/ k = n
        BY <1>2 DEF n
      <4> QED BY <4>1, <3>1, <3>2, <3>3, <3>4, <1>3
    <3>5. CASE d # e
      <4>1. emitter'[d] = emitter[d]
        BY <3>5, <1>3 DEF Others
      <4> QED BY <4>1, <3>1, <3>2, <3>3, <3>5
    <3> QED BY <3>4, <3>5
  <2>3. DOMAIN emitter' = DOMAIN emitter
    BY <1>3 DEF Others
  <2> QED BY <2>1, <2>2, <2>3 DEF EventInv
<1>9. \A d \in DOMAIN emitter, l \in DOMAIN lists : Takes(d, l)' <=> Takes(d, l)
  BY <1>1, <1>3 DEF Takes, Others
<1>10. TakenInv'
  <2>1. DOMAIN emitter' = DOMAIN emitter /\ 1 .. buffer - 1 \subseteq DOMAIN lists
    BY <1>2, <1>3 DEF Others
  <2>2. \A l \in DOMAIN lists : lists[l] \subseteq lists'[l]
    BY <1>5
  <2>3. /\ \A d \in DOMAIN emitter', l \in DOMAIN lists' : Takes(d, l)' =>
             /\ l < buffer'
             /\ \A c \in DOMAIN emitter' : Takes(c, l)' => c = d
             /\ \A s \in sent' : s.list # l
    BY <1>1, <1>5, <1>9, <2>1 DEF LogInv, TakenInv
  <2>4. \A s \in sent' : /\ s.list \in 1 .. buffer' - 1 /\ s.batch \subseteq lists'[s.list]
                         /\ s.key \in Nat \X Nat
    BY <1>1, <2>1, <2>2 DEF LogInv, TakenInv
  <2>5. \A l \in 1 .. buffer' - 1 :
          \/ l \in unstored' \cup wiped'
          \/ \E s \in sent' : s.list = l
          \/ \E d \in DOMAIN emitter' : Takes(d, l)'
    BY <1>1, <1>9, <2>1 DEF LogInv, TakenInv
  <2> QED BY <1>1, <2>3, <2>4, <2>5 DEF LogInv, TakenInv
<1>11. StoredInv'
  BY <1>1 DEF LogInv, StoredInv
<1>12. LastInv'
  <2> SUFFICES ASSUME NEW d \in DOMAIN emitter, NEW k \in Nat, d # e, Made(d),
                      emitter[d].at \in {"step", "client", "key"}
               PROVE  <<d, k>> \notin lists'[buffer]
    BY <1>1, <1>3 DEF LastInv, Made, Others
  <2>1. <<d, k>> \notin lists[buffer] /\ buffer \in DOMAIN lists
    BY <1>2 DEF LogInv, LastInv
  <2> QED BY <2>1, <1>5 DEF v
<1>13. AloneInv'
  <2> SUFFICES ASSUME Alone PROVE AloneInv'
    BY <1>3 DEF AloneInv, Alone, Others
  <2>1. DOMAIN emitter' = DOMAIN emitter /\ \A d \in DOMAIN emitter : d = e
    BY <1>3 DEF Others, Alone
  <2>2. at = buffer
    BY <1>1 DEF LogInv, AloneInv, At, at
  <2>3. \A l \in 1 .. buffer - 1 : lists'[l] = lists[l]
    BY <2>2, <1>2, <1>5
  <2>4. /\ \A l \in wiped : l \in 1 .. buffer - 1 /\ lists'[l] = {}
        /\ \A s \in sent : s.batch = lists'[s.list] /\ s.key[2] <= seq
        /\ sent \subseteq objects
    BY <2>3 DEF LogInv, AloneInv, TakenInv
  <2> QED BY <2>1, <2>4, <1>1, <1>3 DEF AloneInv, At
<1> QED BY <1>6, <1>8, <1>10, <1>11, <1>12, <1>13 DEF LogInv

\* What holds of the lists when another one is begun, whoever begins it.
LEMMA EventsStay ==
  ASSUME LogInv, NewBuffer, DOMAIN emitter' = DOMAIN emitter,
         \A d \in DOMAIN emitter : emitter'[d].made = emitter[d].made
  PROVE  EventInv'
<1>1. /\ buffer \in Nat \ {0} /\ DOMAIN lists = 1 .. buffer /\ DOMAIN lists' = 1 .. buffer + 1
      /\ \A l \in 1 .. buffer : lists'[l] = lists[l]
      /\ lists'[buffer + 1] = {}
  BY Renewed DEF LogInv, LogTypes
<1>2. \A l \in 1 .. buffer + 1 : l \in 1 .. buffer \/ l = buffer + 1
  BY <1>1
<1>3. 1 .. buffer \subseteq 1 .. buffer + 1
  BY <1>1
<1>4. \A l, m \in 1 .. buffer + 1 : l # m => lists'[l] \cap lists'[m] = {}
  <2>1. \A l, m \in 1 .. buffer : l # m => lists'[l] \cap lists'[m] = {}
    BY <1>1 DEF LogInv, EventInv
  <2> QED BY <2>1, <1>1, <1>2
<1>5. \A v : (\E l \in 1 .. buffer + 1 : v \in lists'[l]) <=> (\E l \in 1 .. buffer : v \in lists[l])
  BY <1>1, <1>2, <1>3
<1> QED BY <1>1, <1>4, <1>5 DEF LogInv, EventInv

\* A thread takes the buffer, or finds it empty.
LEMMA FlushKeeps ==
  ASSUME LogInv, NEW e \in DOMAIN emitter, Flush(e)
  PROVE  LogInv'
<1>1. /\ UNCHANGED <<seq, clock, objects, unstored, wiped, sent>>
      /\ LogTypes /\ emitter[e].at = "flush"
  BY DEF Flush, LogInv, At
<1>2. /\ buffer \in Nat \ {0} /\ buffer = Len(lists) /\ DOMAIN lists = 1 .. buffer
      /\ emitter[e].made \in Nat
  BY <1>1 DEF LogTypes
<1>3. CASE lists[buffer] = {}
  <2>1. Moves(e, "step") /\ UNCHANGED <<lists, buffer>>
    BY <1>3 DEF Flush
  <2>2. /\ Others(e)
        /\ emitter' \in [DOMAIN emitter -> [at : Ways, made : Nat, list : Nat \ {0}]]
        /\ emitter'[e].at = "step" /\ emitter'[e].made = emitter[e].made
        /\ emitter'[e].list = emitter[e].list
    <3>1. "step" \in Ways
      BY DEF Ways
    <3> QED BY <1>1, <2>1, <3>1, Moved
  <2>3. DOMAIN emitter' = DOMAIN emitter
    BY <2>2 DEF Others
  <2>4. \A d \in DOMAIN emitter :
          /\ emitter'[d].made = emitter[d].made /\ emitter'[d].list = emitter[d].list
          /\ emitter'[d].at \in {"append", "client", "key"} => emitter'[d].at = emitter[d].at
    BY <2>2 DEF Others
  <2>5. \A d \in DOMAIN emitter, l \in DOMAIN lists : Takes(d, l)' <=> Takes(d, l)
    BY <1>1, <2>2 DEF Takes, Others
  <2>6. LogTypes'
    BY <1>1, <2>1, <2>2, <2>3, <2>4 DEF LogTypes, At
  <2>7. EventInv'
    BY <2>1, <2>3, <2>4 DEF LogInv, EventInv
  <2>8. TakenInv'
    <3>1. 1 .. buffer - 1 \subseteq DOMAIN lists
      BY <1>2
    <3> QED BY <1>1, <2>1, <2>3, <2>5, <3>1 DEF LogInv, TakenInv
  <2>9. StoredInv'
    BY <1>1 DEF LogInv, StoredInv
  <2>10. LastInv'
    BY <1>3, <2>1 DEF LastInv
  <2>11. AloneInv'
    BY <1>1, <2>1, <2>3, <2>4 DEF LogInv, AloneInv, Alone, At
  <2> QED BY <2>6, <2>7, <2>8, <2>9, <2>10, <2>11 DEF LogInv
<1>4. CASE lists[buffer] # {}
  <2>1. /\ NewBuffer
        /\ emitter' = [emitter EXCEPT ![e].at = "client", ![e].list = buffer]
    BY <1>4 DEF Flush, Swap
  <2>2. /\ Others(e)
        /\ emitter' \in [DOMAIN emitter -> [at : Ways, made : Nat, list : Nat \ {0}]]
        /\ emitter'[e].at = "client" /\ emitter'[e].made = emitter[e].made
        /\ emitter'[e].list = buffer
    <3>1. "client" \in Ways
      BY DEF Ways
    <3> QED BY <1>1, <1>2, <2>1, <3>1, Looked
  <2>3. /\ lists' \in Seq(SUBSET ((DOMAIN emitter) \X Nat))
        /\ Len(lists') = buffer + 1 /\ buffer' = buffer + 1
        /\ DOMAIN lists' = 1 .. buffer + 1
        /\ \A l \in 1 .. buffer : lists'[l] = lists[l]
        /\ lists'[buffer + 1] = {}
    BY <1>1, <2>1, Renewed
  <2>4. DOMAIN emitter' = DOMAIN emitter
    BY <2>2 DEF Others
  <2>5. \A d \in DOMAIN emitter : emitter'[d].made = emitter[d].made
    BY <2>2 DEF Others
  <2>6. buffer' \in Nat \ {0} /\ buffer <= buffer' /\ 1 .. buffer' - 1 = 1 .. buffer
    BY <1>2, <2>3
  <2>7. LogTypes'
    <3>1. ASSUME NEW d \in DOMAIN emitter
          PROVE  /\ emitter'[d].made <= PerLifecycle /\ emitter'[d].list <= buffer'
                 /\ emitter'[d].at = "append" => emitter'[d].made < PerLifecycle
      <4>1. /\ emitter[d].made <= PerLifecycle /\ emitter[d].list <= buffer
            /\ emitter[d].at = "append" => emitter[d].made < PerLifecycle
            /\ emitter[d].list \in Nat
        BY <1>1 DEF LogTypes, At
      <4>2. CASE d = e
        BY <4>1, <4>2, <2>2, <2>6
      <4>3. CASE d # e
        <5>1. emitter'[d] = emitter[d]
          BY <4>3, <2>2 DEF Others
        <5>2. emitter[d].list <= buffer'
          BY <4>1, <1>2, <2>3
        <5> QED BY <4>1, <5>1, <5>2
      <4> QED BY <4>2, <4>3
    <3> QED BY <3>1, <1>1, <2>2, <2>3, <2>4, <2>6 DEF LogTypes, At
  <2>8. EventInv'
    BY <2>1, <2>4, <2>5, EventsStay
  <2>9. \A d \in DOMAIN emitter, l \in 1 .. buffer :
          Takes(d, l)' <=> Takes(d, l) \/ (d = e /\ l = buffer)
    <3>1. \A l : Takes(e, l)' <=> l = buffer
      BY <2>2 DEF Takes
    <3>2. \A l : ~Takes(e, l)
      BY <1>1 DEF Takes
    <3>3. \A d \in DOMAIN emitter, l \in 1 .. buffer : d # e => (Takes(d, l)' <=> Takes(d, l))
      BY <2>2 DEF Takes, Others
    <3> QED BY <3>1, <3>2, <3>3
  <2>10. \A d \in DOMAIN emitter, l \in Nat : l = buffer + 1 => ~Takes(d, l)'
    <3>1. \A d \in DOMAIN emitter : emitter'[d].list # buffer + 1
      <4> SUFFICES ASSUME NEW d \in DOMAIN emitter PROVE emitter'[d].list <= buffer
        BY <1>2, <2>2
      <4>1. emitter[d].list <= buffer
        BY <1>1 DEF LogTypes
      <4> QED BY <4>1, <1>2, <2>2 DEF Others
    <3> QED BY <3>1 DEF Takes
  <2>11. TakenInv'
    <3>1. /\ \A d \in DOMAIN emitter, l \in 1 .. buffer : Takes(d, l) =>
               /\ l < buffer
               /\ \A c \in DOMAIN emitter : Takes(c, l) => c = d
               /\ \A s \in sent : s.list # l
          /\ \A s \in sent : s.list \in 1 .. buffer - 1 /\ s.batch \subseteq lists[s.list]
                             /\ s.key \in Nat \X Nat
      BY <1>2 DEF LogInv, TakenInv
    <3>2. /\ \A s, t \in sent : s.list = t.list => s = t
          /\ \A l \in 1 .. buffer - 1 :
               \/ l \in unstored \cup wiped
               \/ \E s \in sent : s.list = l
               \/ \E d \in DOMAIN emitter : Takes(d, l)
      BY DEF LogInv, TakenInv
    <3>3. \A d \in DOMAIN emitter, l \in 1 .. buffer : Takes(d, l)' =>
               /\ l < buffer'
               /\ \A c \in DOMAIN emitter : Takes(c, l)' => c = d
               /\ \A s \in sent : s.list # l
      <4> SUFFICES ASSUME NEW d \in DOMAIN emitter, NEW l \in 1 .. buffer, Takes(d, l)'
                   PROVE  /\ l < buffer'
                          /\ \A c \in DOMAIN emitter : Takes(c, l)' => c = d
                          /\ \A s \in sent : s.list # l
        OBVIOUS
      <4>1. l < buffer'
        BY <1>2, <2>3
      <4>2. CASE Takes(d, l)
        <5>1. l # buffer
          BY <4>2, <3>1, <1>2
        <5> QED BY <4>1, <4>2, <5>1, <2>9, <3>1
      <4>3. CASE ~Takes(d, l)
        <5>1. d = e /\ l = buffer
          BY <4>3, <2>9
        <5>2. \A c \in DOMAIN emitter : ~Takes(c, buffer)
          BY <3>1, <1>2
        <5>3. \A s \in sent : s.list # buffer
          BY <3>1, <1>2
        <5> QED BY <4>1, <5>1, <5>2, <5>3, <2>9
      <4> QED BY <4>2, <4>3
    <3>4. \A d \in DOMAIN emitter', l \in DOMAIN lists' : Takes(d, l)' =>
               /\ l < buffer'
               /\ \A c \in DOMAIN emitter' : Takes(c, l)' => c = d
               /\ \A s \in sent' : s.list # l
      <4>1. \A l \in 1 .. buffer + 1 : l \in Nat /\ (l \in 1 .. buffer \/ l = buffer + 1)
        BY <1>2
      <4> QED BY <4>1, <3>3, <2>3, <2>4, <2>10, <1>1
    <3>5. \A s \in sent' : s.list \in 1 .. buffer' - 1 /\ s.batch \subseteq lists'[s.list]
                           /\ s.key \in Nat \X Nat
      <4>1. \A l \in 1 .. buffer - 1 : l \in 1 .. buffer
        BY <1>2
      <4> QED BY <4>1, <3>1, <2>3, <2>6, <1>1
    <3>6. \A l \in 1 .. buffer' - 1 :
            \/ l \in unstored' \cup wiped'
            \/ \E s \in sent' : s.list = l
            \/ \E d \in DOMAIN emitter' : Takes(d, l)'
      <4>1. \A l \in 1 .. buffer : l \in 1 .. buffer - 1 \/ l = buffer
        BY <1>2
      <4>2. \A l : l = buffer => Takes(e, l)'
        BY <2>2 DEF Takes
      <4>3. \A l \in 1 .. buffer - 1, d \in DOMAIN emitter : Takes(d, l) => Takes(d, l)'
        BY <2>9, <1>2
      <4> SUFFICES ASSUME NEW l \in 1 .. buffer
                   PROVE  \/ l \in unstored \cup wiped
                          \/ \E s \in sent : s.list = l
                          \/ \E d \in DOMAIN emitter : Takes(d, l)'
        BY <2>4, <2>6, <1>1
      <4>4. CASE l = buffer
        BY <4>2, <4>4
      <4>5. CASE l \in 1 .. buffer - 1
        BY <4>3, <4>5, <3>2
      <4> QED BY <4>1, <4>4, <4>5
    <3> QED BY <3>2, <3>4, <3>5, <3>6, <1>1 DEF TakenInv
  <2>12. StoredInv'
    BY <1>1 DEF LogInv, StoredInv
  <2>13. LastInv'
    BY <2>3 DEF LastInv
  <2>14. AloneInv'
    <3> SUFFICES ASSUME Alone PROVE AloneInv'
      BY <2>4 DEF AloneInv, Alone
    <3>1. \A d \in DOMAIN emitter : d = e
      BY DEF Alone
    <3>2. /\ \A l \in wiped : l \in 1 .. buffer - 1 /\ lists[l] = {}
          /\ \A s \in sent : s.batch = lists[s.list] /\ s.key[2] <= seq
          /\ sent \subseteq objects
      BY DEF LogInv, AloneInv
    <3>3. \A s \in sent : s.list \in 1 .. buffer - 1
      BY DEF LogInv, TakenInv
    <3>4. \A l \in 1 .. buffer - 1 : l \in 1 .. buffer' - 1 /\ lists'[l] = lists[l]
      BY <1>2, <2>3, <2>6
    <3> QED BY <3>1, <3>2, <3>3, <3>4, <2>2, <2>3, <2>4, <1>1 DEF AloneInv, At
  <2> QED BY <2>7, <2>8, <2>11, <2>12, <2>13, <2>14 DEF LogInv
<1> QED BY <1>3, <1>4

LEMMA MakeClientKeeps ==
  ASSUME LogInv, NEW e \in DOMAIN emitter, MakeClient(e)
  PROVE  LogInv'
<1>1. /\ UNCHANGED <<clock, objects, sent>> /\ LogTypes /\ emitter[e].at = "client"
  BY DEF MakeClient, LogInv, At
<1>2. /\ buffer \in Nat \ {0} /\ buffer = Len(lists) /\ DOMAIN lists = 1 .. buffer
      /\ emitter[e].list \in Nat \ {0} /\ emitter[e].list <= buffer /\ seq \in Nat
  BY <1>1 DEF LogTypes
<1>3. CASE /\ Moves(e, "key") /\ seq' = seq + 1
           /\ UNCHANGED <<lists, buffer, outages, unstored, wiped>>
  <2>1. /\ Others(e)
        /\ emitter' \in [DOMAIN emitter -> [at : Ways, made : Nat, list : Nat \ {0}]]
        /\ emitter'[e].at = "key" /\ emitter'[e].made = emitter[e].made
        /\ emitter'[e].list = emitter[e].list
    <3>1. "key" \in Ways
      BY DEF Ways
    <3> QED BY <1>1, <1>3, <3>1, Moved
  <2>2. DOMAIN emitter' = DOMAIN emitter
    BY <2>1 DEF Others
  <2>3. \A d \in DOMAIN emitter :
          /\ emitter'[d].made = emitter[d].made /\ emitter'[d].list = emitter[d].list
          /\ emitter'[d].at = "append" => emitter[d].at = "append"
          /\ emitter'[d].at \in {"client", "key"} <=> emitter[d].at \in {"client", "key"}
          /\ emitter'[d].at = "step" => emitter[d].at = "step"
    BY <1>1, <2>1 DEF Others
  <2>4. \A d \in DOMAIN emitter, l \in DOMAIN lists : Takes(d, l)' <=> Takes(d, l)
    BY <2>3 DEF Takes
  <2>5. LogTypes'
    BY <1>1, <1>2, <1>3, <2>1, <2>2, <2>3 DEF LogTypes, At
  <2>6. EventInv'
    BY <1>3, <2>2, <2>3 DEF LogInv, EventInv
  <2>7. TakenInv'
    <3>1. 1 .. buffer - 1 \subseteq DOMAIN lists
      BY <1>2
    <3> QED BY <1>1, <1>3, <2>2, <2>4, <3>1 DEF LogInv, TakenInv
  <2>8. StoredInv'
    BY <1>1 DEF LogInv, StoredInv
  <2>9. LastInv'
    BY <1>3, <2>2, <2>3 DEF LogInv, LastInv, Made
  <2>10. AloneInv'
    <3> SUFFICES ASSUME Alone PROVE AloneInv'
      BY <2>2 DEF AloneInv, Alone
    <3>1. /\ \A d \in DOMAIN emitter : emitter[d].at = "append" => emitter[d].list = buffer
          /\ \A d \in DOMAIN emitter : emitter[d].at \in {"client", "key"} => lists[buffer] = {}
          /\ \A l \in wiped : l \in 1 .. buffer - 1 /\ lists[l] = {}
          /\ \A s \in sent : s.batch = lists[s.list] /\ s.key[2] <= seq
          /\ sent \subseteq objects
      BY DEF LogInv, AloneInv, At
    <3>2. \A s \in sent : s.key[2] \in Nat
      BY DEF LogInv, TakenInv
    <3>3. \A s \in sent : s.key[2] < seq + 1 /\ s.key[2] <= seq + 1
      BY <3>1, <3>2, <1>2
    <3> QED BY <3>1, <3>3, <2>2, <2>3, <1>1, <1>3 DEF AloneInv, At
  <2> QED BY <2>5, <2>6, <2>7, <2>8, <2>9, <2>10 DEF LogInv
<1>4. CASE /\ Moves(e, "step") /\ NewBuffer /\ UNCHANGED seq
           /\ unstored' = unstored \cup {emitter[e].list} /\ wiped' = wiped \cup {buffer}
  <2>1. /\ Others(e)
        /\ emitter' \in [DOMAIN emitter -> [at : Ways, made : Nat, list : Nat \ {0}]]
        /\ emitter'[e].at = "step" /\ emitter'[e].made = emitter[e].made
        /\ emitter'[e].list = emitter[e].list
    <3>1. "step" \in Ways
      BY DEF Ways
    <3> QED BY <1>1, <1>4, <3>1, Moved
  <2>2. DOMAIN emitter' = DOMAIN emitter
    BY <2>1 DEF Others
  <2>3. \A d \in DOMAIN emitter :
          /\ emitter'[d].made = emitter[d].made /\ emitter'[d].list = emitter[d].list
          /\ emitter'[d].at = "append" => emitter[d].at = "append"
    BY <1>1, <2>1 DEF Others
  <2>4. /\ lists' \in Seq(SUBSET ((DOMAIN emitter) \X Nat))
        /\ Len(lists') = buffer + 1 /\ buffer' = buffer + 1
        /\ DOMAIN lists' = 1 .. buffer + 1
        /\ \A l \in 1 .. buffer : lists'[l] = lists[l]
        /\ lists'[buffer + 1] = {}
    BY <1>1, <1>4, Renewed
  <2>5. buffer' \in Nat \ {0} /\ 1 .. buffer' - 1 = 1 .. buffer
    BY <1>2, <2>4
  <2>6. LogTypes'
    <3>1. ASSUME NEW d \in DOMAIN emitter
          PROVE  /\ emitter'[d].made <= PerLifecycle /\ emitter'[d].list <= buffer'
                 /\ emitter'[d].at = "append" => emitter'[d].made < PerLifecycle
      <4>1. /\ emitter[d].made <= PerLifecycle /\ emitter[d].list <= buffer
            /\ emitter[d].at = "append" => emitter[d].made < PerLifecycle
            /\ emitter[d].list \in Nat
        BY <1>1 DEF LogTypes, At
      <4>2. emitter[d].list <= buffer + 1
        BY <4>1, <1>2
      <4> QED BY <4>1, <4>2, <2>3, <2>4
    <3> QED BY <3>1, <1>1, <1>4, <2>1, <2>2, <2>4, <2>5 DEF LogTypes, At
  <2>7. EventInv'
    BY <1>4, <2>2, <2>3, EventsStay
  <2>8. \A d \in DOMAIN emitter : \A l : Takes(d, l)' <=> Takes(d, l) /\ d # e
    BY <2>1 DEF Takes, Others
  <2>9. TakenInv'
    <3>1. /\ \A d \in DOMAIN emitter, l \in 1 .. buffer : Takes(d, l) =>
               /\ l < buffer
               /\ \A c \in DOMAIN emitter : Takes(c, l) => c = d
               /\ \A s \in sent : s.list # l
          /\ \A s \in sent : s.list \in 1 .. buffer - 1 /\ s.batch \subseteq lists[s.list]
                             /\ s.key \in Nat \X Nat
      BY <1>2 DEF LogInv, TakenInv
    <3>2. /\ \A s, t \in sent : s.list = t.list => s = t
          /\ \A l \in 1 .. buffer - 1 :
               \/ l \in unstored \cup wiped
               \/ \E s \in sent : s.list = l
               \/ \E d \in DOMAIN emitter : Takes(d, l)
      BY DEF LogInv, TakenInv
    <3>3. \A d \in DOMAIN emitter, l \in 1 .. buffer + 1 : Takes(d, l) => l \in 1 .. buffer
      <4> SUFFICES ASSUME NEW d \in DOMAIN emitter PROVE emitter[d].list \in 1 .. buffer
        BY DEF Takes
      <4> QED BY <1>1, <1>2 DEF LogTypes
    <3>4. \A d \in DOMAIN emitter', l \in DOMAIN lists' : Takes(d, l)' =>
               /\ l < buffer'
               /\ \A c \in DOMAIN emitter' : Takes(c, l)' => c = d
               /\ \A s \in sent' : s.list # l
      <4> SUFFICES ASSUME NEW d \in DOMAIN emitter, NEW l \in 1 .. buffer + 1, Takes(d, l)
                   PROVE  /\ l < buffer + 1
                          /\ \A c \in DOMAIN emitter : Takes(c, l) => c = d
                          /\ \A s \in sent : s.list # l
        BY <2>2, <2>4, <2>8, <1>1
      <4>1. l \in 1 .. buffer
        BY <3>3
      <4>2. l < buffer + 1
        BY <4>1, <1>2
      <4> QED BY <4>1, <4>2, <3>1
    <3>5. \A s \in sent' : s.list \in 1 .. buffer' - 1 /\ s.batch \subseteq lists'[s.list]
                           /\ s.key \in Nat \X Nat
      <4>1. \A l \in 1 .. buffer - 1 : l \in 1 .. buffer
        BY <1>2
      <4> QED BY <4>1, <3>1, <2>4, <2>5, <1>1
    <3>6. \A l \in 1 .. buffer' - 1 :
            \/ l \in unstored' \cup wiped'
            \/ \E s \in sent' : s.list = l
            \/ \E d \in DOMAIN emitter' : Takes(d, l)'
      <4> SUFFICES ASSUME NEW l \in 1 .. buffer
                   PROVE  \/ l \in unstored \cup {emitter[e].list} \cup wiped \cup {buffer}
                          \/ \E s \in sent : s.list = l
                          \/ \E d \in DOMAIN emitter : Takes(d, l)'
        BY <2>2, <2>5, <1>1, <1>4
      <4>1. CASE l = buffer
        BY <4>1
      <4>2. CASE l \in 1 .. buffer - 1
        <5>1. CASE \E d \in DOMAIN emitter : Takes(d, l)
          <6>1. PICK d \in DOMAIN emitter : Takes(d, l)
            BY <5>1
          <6>2. CASE d = e
            BY <6>1, <6>2 DEF Takes
          <6>3. CASE d # e
            BY <6>1, <6>3, <2>8
          <6> QED BY <6>2, <6>3
        <5>2. CASE ~\E d \in DOMAIN emitter : Takes(d, l)
          BY <4>2, <5>2, <3>2
        <5> QED BY <5>1, <5>2
      <4>3. l = buffer \/ l \in 1 .. buffer - 1
        BY <1>2
      <4> QED BY <4>1, <4>2, <4>3
    <3> QED BY <3>2, <3>4, <3>5, <3>6, <1>1 DEF TakenInv
  <2>10. StoredInv'
    BY <1>1 DEF LogInv, StoredInv
  <2>11. LastInv'
    BY <2>4 DEF LastInv
  <2>12. AloneInv'
    <3> SUFFICES ASSUME Alone PROVE AloneInv'
      BY <2>2 DEF AloneInv, Alone
    <3>1. \A d \in DOMAIN emitter : d = e
      BY DEF Alone
    <3>2. /\ \A l \in wiped : l \in 1 .. buffer - 1 /\ lists[l] = {}
          /\ \A s \in sent : s.batch = lists[s.list] /\ s.key[2] <= seq
          /\ sent \subseteq objects
          /\ lists[buffer] = {}
      BY <1>1 DEF LogInv, AloneInv
    <3>3. \A s \in sent : s.list \in 1 .. buffer - 1
      BY DEF LogInv, TakenInv
    <3>4. /\ \A l \in 1 .. buffer - 1 : l \in 1 .. buffer' - 1 /\ lists'[l] = lists[l]
          /\ buffer \in 1 .. buffer' - 1 /\ lists'[buffer] = lists[buffer]
      BY <1>2, <2>4, <2>5
    <3>5. \A l \in wiped' : l \in 1 .. buffer' - 1 /\ lists'[l] = {}
      BY <3>2, <3>4, <1>4
    <3> QED BY <3>1, <3>2, <3>3, <3>4, <3>5, <2>1, <2>2, <1>1, <1>4 DEF AloneInv, At
  <2> QED BY <2>6, <2>7, <2>9, <2>10, <2>11, <2>12 DEF LogInv
<1> QED BY <1>3, <1>4 DEF MakeClient

LEMMA StoreKeeps ==
  ASSUME LogInv, NEW e \in DOMAIN emitter, Store(e)
  PROVE  LogInv'
<1> DEFINE l == emitter[e].list
           o == [key |-> <<clock, seq>>, list |-> l, batch |-> lists[l]]
<1>1. /\ UNCHANGED <<lists, buffer, seq, clock, wiped>> /\ LogTypes
      /\ emitter[e].at = "key" /\ Moves(e, "step")
  BY DEF Store, LogInv, At
<1>2. \/ /\ objects' = {p \in objects : p.key # <<clock, seq>>} \cup {o} /\ sent' = sent \cup {o}
         /\ unstored' = unstored
      \/ /\ unstored' = unstored \cup {l} /\ objects' = objects /\ sent' = sent
  BY DEF Store, Key
<1>3. /\ buffer \in Nat \ {0} /\ DOMAIN lists = 1 .. buffer
      /\ l \in 1 .. buffer /\ seq \in Nat /\ clock \in Nat
  BY <1>1 DEF LogTypes
<1>4. /\ l \in 1 .. buffer - 1
      /\ \A d \in DOMAIN emitter : Takes(d, l) => d = e
      /\ \A s \in sent : s.list # l
  <2>1. Takes(e, l)
    BY <1>1 DEF Takes
  <2>2. l < buffer
    BY <1>3, <2>1 DEF LogInv, TakenInv
  <2> QED BY <1>3, <2>1, <2>2 DEF LogInv, TakenInv
<1>5. o.key = <<clock, seq>> /\ o.list = l /\ o.batch = lists[l]
  OBVIOUS
<1> HIDE DEF o, l
<1>6. /\ Others(e)
      /\ emitter' \in [DOMAIN emitter -> [at : Ways, made : Nat, list : Nat \ {0}]]
      /\ emitter'[e].at = "step" /\ emitter'[e].made = emitter[e].made
      /\ emitter'[e].list = emitter[e].list
  <2>1. "step" \in Ways
    BY DEF Ways
  <2> QED BY <1>1, <2>1, Moved
<1>7. DOMAIN emitter' = DOMAIN emitter
  BY <1>6 DEF Others
<1>8. \A d \in DOMAIN emitter :
        /\ emitter'[d].made = emitter[d].made /\ emitter'[d].list = emitter[d].list
        /\ emitter'[d].at \in {"append", "client", "key"} =>
             emitter'[d].at = emitter[d].at /\ emitter'[d] = emitter[d]
  BY <1>1, <1>6 DEF Others
<1>9. \A d \in DOMAIN emitter : \A m : Takes(d, m)' <=> Takes(d, m) /\ d # e
  BY <1>6 DEF Takes, Others
<1>10. LogTypes'
  BY <1>1, <1>6, <1>7, <1>8 DEF LogTypes, At
<1>11. EventInv'
  BY <1>1, <1>7, <1>8 DEF LogInv, EventInv
<1>12. TakenInv'
  <2>1. /\ \A d \in DOMAIN emitter, m \in DOMAIN lists : Takes(d, m) =>
             /\ m < buffer
             /\ \A c \in DOMAIN emitter : Takes(c, m) => c = d
             /\ \A s \in sent : s.list # m
        /\ \A s \in sent : s.list \in 1 .. buffer - 1 /\ s.batch \subseteq lists[s.list]
                           /\ s.key \in Nat \X Nat
        /\ \A s, t \in sent : s.list = t.list => s = t
        /\ \A m \in 1 .. buffer - 1 :
             \/ m \in unstored \cup wiped
             \/ \E s \in sent : s.list = m
             \/ \E d \in DOMAIN emitter : Takes(d, m)
    BY DEF LogInv, TakenInv
  <2>2. \A s \in sent' : s \in sent \/ s = o
    BY <1>2
  <2>3. \A d \in DOMAIN emitter', m \in DOMAIN lists' : Takes(d, m)' =>
             /\ m < buffer'
             /\ \A c \in DOMAIN emitter' : Takes(c, m)' => c = d
             /\ \A s \in sent' : s.list # m
    <3> SUFFICES ASSUME NEW d \in DOMAIN emitter, NEW m \in DOMAIN lists, Takes(d, m), d # e
                 PROVE  /\ m < buffer
                        /\ \A c \in DOMAIN emitter : Takes(c, m) => c = d
                        /\ \A s \in sent' : s.list # m
      BY <1>1, <1>7, <1>9
    <3>1. m # l
      BY <1>4
    <3> QED BY <3>1, <2>1, <2>2, <1>5
  <2>4. \A s \in sent' : s.list \in 1 .. buffer' - 1 /\ s.batch \subseteq lists'[s.list]
                         /\ s.key \in Nat \X Nat
    <3>1. o.list \in 1 .. buffer - 1 /\ o.batch \subseteq lists[o.list] /\ o.key \in Nat \X Nat
      BY <1>3, <1>4, <1>5
    <3> QED BY <2>1, <2>2, <3>1, <1>1
  <2>5. \A s, t \in sent' : s.list = t.list => s = t
    BY <2>1, <2>2, <1>4, <1>5
  <2>6. \A m \in 1 .. buffer' - 1 :
          \/ m \in unstored' \cup wiped'
          \/ \E s \in sent' : s.list = m
          \/ \E d \in DOMAIN emitter' : Takes(d, m)'
    <3> SUFFICES ASSUME NEW m \in 1 .. buffer - 1
                 PROVE  \/ m \in unstored' \cup wiped
                        \/ \E s \in sent' : s.list = m
                        \/ \E d \in DOMAIN emitter : Takes(d, m)'
      BY <1>1, <1>7
    <3>1. CASE m = l
      BY <3>1, <1>2, <1>5
    <3>2. CASE m # l
      <4>1. ~Takes(e, m)
        BY <3>2 DEF Takes, l
      <4>2. unstored \subseteq unstored' /\ sent \subseteq sent'
        BY <1>2
      <4> QED BY <4>1, <4>2, <2>1, <1>9
    <3> QED BY <3>1, <3>2
  <2> QED BY <2>3, <2>4, <2>5, <2>6 DEF TakenInv
<1>13. StoredInv'
  <2>1. /\ objects \subseteq sent
        /\ \A s \in sent \ objects : \E t \in sent : t.key = s.key /\ t.list # s.list
    BY DEF LogInv, StoredInv
  <2>2. CASE /\ objects' = {p \in objects : p.key # <<clock, seq>>} \cup {o}
             /\ sent' = sent \cup {o}
    <3>1. objects' \subseteq sent'
      BY <2>1, <2>2
    <3>2. ASSUME NEW s \in sent' \ objects' PROVE \E t \in sent' : t.key = s.key /\ t.list # s.list
      <4>1. s \in sent /\ o \in sent' /\ sent \subseteq sent'
        BY <2>2
      <4>2. CASE s \in objects
        <5>1. s.key = <<clock, seq>>
          BY <4>2, <2>2
        <5>2. o.key = s.key /\ o.list # s.list
          BY <4>1, <5>1, <1>4, <1>5
        <5> QED BY <4>1, <5>2
      <4>3. CASE s \notin objects
        BY <4>1, <4>3, <2>1
      <4> QED BY <4>2, <4>3
    <3> QED BY <3>1, <3>2 DEF StoredInv
  <2>3. CASE objects' = objects /\ sent' = sent
    BY <2>1, <2>3 DEF StoredInv
  <2> QED BY <2>2, <2>3, <1>2
<1>14. LastInv'
  <2> SUFFICES ASSUME NEW d \in DOMAIN emitter, NEW k \in Nat, emitter[d].made = PerLifecycle,
                      emitter'[d].at \in {"step", "client", "key"}
               PROVE  <<d, k>> \notin lists[buffer]
    BY <1>1, <1>7, <1>8 DEF LastInv, Made
  <2>1. emitter[d].at \in {"step", "client", "key"}
    BY <1>1, <1>6 DEF Others
  <2> QED BY <2>1 DEF LogInv, LastInv, Made
<1>15. AloneInv'
  <2> SUFFICES ASSUME Alone PROVE AloneInv'
    BY <1>7 DEF AloneInv, Alone
  <2>1. \A d \in DOMAIN emitter : d = e
    BY DEF Alone
  <2>2. /\ \A m \in wiped : m \in 1 .. buffer - 1 /\ lists[m] = {}
        /\ \A s \in sent : s.batch = lists[s.list] /\ s.key[2] <= seq
        /\ sent \subseteq objects
        /\ \A s \in sent : s.key[2] < seq
    BY <1>1 DEF LogInv, AloneInv, At
  <2>3. \A s \in sent : s.key[2] \in Nat
    BY DEF LogInv, TakenInv
  <2>4. \A s \in sent' : s.batch = lists[s.list] /\ s.key[2] <= seq
    <3>1. \A s \in sent' : s \in sent \/ s = o
      BY <1>2
    <3>2. o.batch = lists[o.list] /\ o.key[2] <= seq
      BY <1>3, <1>5
    <3> QED BY <3>1, <3>2, <2>2
  <2>5. sent' \subseteq objects'
    <3>1. \A s \in sent : s.key[2] # seq
      BY <2>2, <2>3, <1>3
    <3>2. \A s \in sent : s.key # <<clock, seq>>
      BY <3>1
    <3> QED BY <3>2, <2>2, <1>2
  <2> QED BY <2>1, <2>2, <2>4, <2>5, <1>1, <1>6, <1>7 DEF AloneInv, At
<1> QED BY <1>10, <1>11, <1>12, <1>13, <1>14, <1>15 DEF LogInv

\* The invariant of the log, over every step.
THEOREM LogInduction == ResourceLogSpec => []LogInv
<1>1. LogInv /\ [ResourceLogNext]_logVars => LogInv'
  <2> SUFFICES ASSUME LogInv, [ResourceLogNext]_logVars PROVE LogInv'
    OBVIOUS
  <2>1. ASSUME NEW e \in DOMAIN emitter,
               LookUp(e) \/ AppendEvent(e) \/ Look(e) \/ Flush(e) \/ MakeClient(e) \/ Store(e)
        PROVE  LogInv'
    BY <2>1, LooksKeep, AppendKeeps, FlushKeeps, MakeClientKeeps, StoreKeeps
  <2>2. CASE Tick \/ UNCHANGED logVars
    <3>1. /\ UNCHANGED <<lists, buffer, seq, objects, emitter, unstored, wiped, sent>>
          /\ clock' \in Nat
      BY <2>2 DEF Tick, logVars, LogInv, LogTypes
    <3>2. LogTypes' /\ EventInv' /\ TakenInv'
      BY <3>1 DEF LogInv, LogTypes, EventInv, TakenInv, Takes, At
    <3>3. StoredInv' /\ LastInv' /\ AloneInv'
      BY <3>1 DEF LogInv, StoredInv, LastInv, Made, AloneInv, Alone, At
    <3> QED BY <3>2, <3>3 DEF LogInv
  <2> QED BY <2>1, <2>2 DEF ResourceLogNext
<1> QED BY <1>1, LogInitially, PTL DEF ResourceLogSpec

\* When all have ended, every event was made and is in a list that was taken.
LEMMA AllTaken ==
  ASSUME LogInv, AllEnded, NEW v \in Events
  PROVE  \E l \in 1 .. buffer - 1 :
           /\ v \in lists[l] /\ l \in DOMAIN lists
           /\ l \in unstored \cup wiped \/ \E s \in sent : s.list = l
<1>1. PICK d \in DOMAIN emitter, n \in 1 .. PerLifecycle : v = <<d, n>>
  BY DEF Events
<1>2. emitter[d].at = "step" /\ emitter[d].made = PerLifecycle
  BY DEF AllEnded, At, Made
<1>3. PICK l \in DOMAIN lists : v \in lists[l]
  BY <1>1, <1>2, ResourceLogAssumption DEF LogInv, EventInv
<1>4. l # buffer
  BY <1>1, <1>2, <1>3, ResourceLogAssumption DEF LogInv, LastInv, Made
<1>5. l \in 1 .. buffer - 1
  BY <1>4 DEF LogInv, LogTypes
<1>6. ~\E e \in DOMAIN emitter : Takes(e, l)
  BY DEF AllEnded, At, Takes
<1> QED BY <1>3, <1>5, <1>6 DEF LogInv, TakenInv

\* An object that was overwritten went under a key of another list.
LEMMA LossesKnown == LogInv => LostInKnownWays
<1> SUFFICES ASSUME LogInv, NEW v \in Events
             PROVE  /\ Cardinality(Stored(v)) <= 1
                    /\ AllEnded /\ Stored(v) = {} =>
                         \E l \in DOMAIN lists :
                           /\ v \in lists[l]
                           /\ \/ l \in unstored \cup wiped
                              \/ \E s \in sent : s.list = l /\ v \notin s.batch
                              \/ \E s, t \in sent : s.list = l /\ t.list # l /\ s.key = t.key
  BY DEF LostInKnownWays
<1>1. Cardinality(Stored(v)) <= 1
  <2>1. ASSUME NEW p \in Stored(v), NEW q \in Stored(v) PROVE p = q
    <3>1. p \in sent /\ q \in sent /\ v \in p.batch /\ v \in q.batch
      BY DEF Stored, LogInv, StoredInv
    <3>2. /\ p.list \in 1 .. buffer - 1 /\ q.list \in 1 .. buffer - 1
          /\ v \in lists[p.list] /\ v \in lists[q.list]
      BY <3>1 DEF LogInv, TakenInv
    <3>3. p.list \in DOMAIN lists /\ q.list \in DOMAIN lists
      BY <3>2 DEF LogInv, LogTypes
    <3>4. p.list = q.list
      BY <3>2, <3>3 DEF LogInv, EventInv
    <3> QED BY <3>1, <3>4 DEF LogInv, TakenInv
  <2>2. CASE Stored(v) = {}
    <3>1. Cardinality(Stored(v)) = 0
      BY <2>2, FS_EmptySet
    <3> QED BY <3>1
  <2>3. CASE Stored(v) # {}
    <3>1. PICK p \in Stored(v) : TRUE
      BY <2>3
    <3>2. Stored(v) = {p}
      BY <2>1, <3>1
    <3>3. Cardinality({p}) = 1
      BY FS_Singleton
    <3> QED BY <3>2, <3>3
  <2> QED BY <2>2, <2>3
<1>2. ASSUME AllEnded, Stored(v) = {}
      PROVE  \E l \in DOMAIN lists :
               /\ v \in lists[l]
               /\ \/ l \in unstored \cup wiped
                  \/ \E s \in sent : s.list = l /\ v \notin s.batch
                  \/ \E s, t \in sent : s.list = l /\ t.list # l /\ s.key = t.key
  <2>1. PICK l \in 1 .. buffer - 1 :
          /\ v \in lists[l] /\ l \in DOMAIN lists
          /\ l \in unstored \cup wiped \/ \E s \in sent : s.list = l
    BY <1>2, AllTaken
  <2>2. CASE l \in unstored \cup wiped
    BY <2>1, <2>2
  <2>3. CASE \E s \in sent : s.list = l
    <3>1. PICK s \in sent : s.list = l
      BY <2>3
    <3>2. CASE v \in s.batch
      <4>1. s \notin objects
        BY <1>2, <3>2 DEF Stored
      <4>2. PICK t \in sent : t.key = s.key /\ t.list # s.list
        BY <4>1, <3>1 DEF LogInv, StoredInv
      <4> QED BY <4>2, <3>1, <2>1
    <3>3. CASE v \notin s.batch
      BY <3>1, <3>3, <2>1
    <3> QED BY <3>2, <3>3
  <2> QED BY <2>1, <2>2, <2>3
<1> QED BY <1>1, <1>2

LEMMA AloneLoses == LogInv => AloneKeepsAll
<1> SUFFICES ASSUME LogInv, Cardinality(DOMAIN emitter) = 1, AllEnded, NEW v \in Events
             PROVE  Stored(v) # {} \/ \E l \in unstored : v \in lists[l]
  BY DEF AloneKeepsAll
<1>1. Alone
  <2>1. IsFiniteSet(DOMAIN emitter)
    BY ResourceLogAssumption, FS_Subset DEF LogInv, LogTypes
  <2>2. PICK e \in DOMAIN emitter : TRUE
    <3>1. DOMAIN emitter # {}
      BY FS_EmptySet
    <3> QED BY <3>1
  <2>3. {e} \in SUBSET DOMAIN emitter /\ Cardinality({e}) = 1
    BY FS_Singleton
  <2>4. DOMAIN emitter = {e}
    BY <2>1, <2>3, FS_Subset
  <2> QED BY <2>4 DEF Alone
<1>2. PICK l \in 1 .. buffer - 1 :
        /\ v \in lists[l] /\ l \in DOMAIN lists
        /\ l \in unstored \cup wiped \/ \E s \in sent : s.list = l
  BY AllTaken
<1>3. CASE l \in unstored
  BY <1>2, <1>3
<1>4. CASE l \in wiped
  BY <1>1, <1>2, <1>4 DEF LogInv, AloneInv
<1>5. CASE \E s \in sent : s.list = l
  <2>1. PICK s \in sent : s.list = l
    BY <1>5
  <2>2. v \in s.batch /\ s \in objects
    BY <1>1, <1>2, <2>1 DEF LogInv, AloneInv
  <2> QED BY <2>2 DEF Stored
<1> QED BY <1>2, <1>3, <1>4, <1>5

\* StreamKept: whatever threads find, take and empty between each other's calls, an
\* event is lost in one of the four known ways and is never in two objects; a thread
\* by itself loses one only with its batch.
THEOREM StreamIsKept == ResourceLogSpec => []StreamKept
<1>1. LogInv => StreamKept
  BY LossesKnown, AloneLoses DEF StreamKept
<1> QED BY <1>1, LogInduction, PTL

-----------------------------------------------------------------------------
(* ResultsStore.  What a reader finds depends on four things besides the     *)
(* types: a worker writes to its own shard only; a text has an observation  *)
(* once; every observation is somewhere, and once the merge is at deleting, *)
(* in the canonical file; and a shard that the merge will delete shares     *)
(* nothing with the canonical file until it is folded.  All but for what    *)
(* was dropped, and for what a merge did not get to delete.                 *)

Entries == Observations \cup {CutOff}
InShards == UNION {Seen(shard[w]) : w \in Shards}
Once(text, but) ==
  \A i, j \in DOMAIN text : text[i] = text[j] /\ text[i] \notin but /\ text[i] # CutOff => i = j

ResultsTypes ==
  /\ session \in [number : 1..Sessions, at : {"tests", "fold", "unlink", "over"}, from : Nat]
  /\ made \in [Shards -> [1..Sessions -> 0..PerSession]]
  /\ toDo \subseteq Shards
  /\ canonical \in Seq(Entries) /\ shard \in [Shards -> Seq(Entries)]
OwnInv == \A w \in Shards : \A o \in Seen(shard[w]) : o[2] = w
OnceInv == Once(canonical, stayed) /\ \A w \in Shards : Once(shard[w], stayed)
\* What is in the canonical file whatever becomes of the merge.
Kept == {canonical[i] : i \in 1..session.from}
FoundInv ==
  /\ session.at \in {"tests", "over"} =>
       Observations \subseteq dropped \cup Seen(canonical) \cup InShards
  /\ session.at = "fold" =>
       /\ Observations \subseteq dropped \cup Kept \cup InShards
       /\ session.from <= Len(canonical)
       /\ \A w \in Shards \ toDo : Seen(shard[w]) \subseteq dropped \cup Seen(canonical)
  /\ session.at = "unlink" => Observations \subseteq dropped \cup Seen(canonical)
ApartInv ==
  /\ session.at \in {"tests", "over"} => Seen(canonical) \cap InShards \subseteq stayed
  /\ session.at = "fold" => \A w \in toDo : Seen(canonical) \cap Seen(shard[w]) \subseteq stayed
  /\ session.at = "unlink" => \A w \in Shards \ toDo : Seen(shard[w]) \subseteq stayed
ResultsInv == ResultsTypes /\ OwnInv /\ OnceInv /\ FoundInv /\ ApartInv

\* What is seen of a text that something is appended to, or of the beginning of a text.
LEMMA SeenJoined ==
  ASSUME NEW S, NEW s \in Seq(S), NEW t \in Seq(S)
  PROVE  Seen(s \o t) = Seen(s) \cup Seen(t)
<1>1. /\ DOMAIN (s \o t) = 1..(Len(s) + Len(t)) /\ DOMAIN s = 1..Len(s) /\ DOMAIN t = 1..Len(t)
      /\ Len(s) \in Nat /\ Len(t) \in Nat
      /\ \A i \in DOMAIN (s \o t) : (s \o t)[i] = IF i <= Len(s) THEN s[i] ELSE t[i - Len(s)]
  OBVIOUS
<1>2. \A i \in 1..Len(s) : i \in DOMAIN (s \o t) /\ (s \o t)[i] = s[i]
  BY <1>1
<1>3. \A i \in 1..Len(t) :
        Len(s) + i \in DOMAIN (s \o t) /\ (s \o t)[Len(s) + i] = t[i]
  <2> TAKE i \in 1..Len(t)
  <2>1. Len(s) + i \in 1..(Len(s) + Len(t)) /\ ~(Len(s) + i <= Len(s)) /\ (Len(s) + i) - Len(s) = i
    BY <1>1
  <2> QED BY <2>1, <1>1
<1>4. \A i \in DOMAIN (s \o t) :
        \/ i \in DOMAIN s /\ (s \o t)[i] = s[i]
        \/ i - Len(s) \in DOMAIN t /\ (s \o t)[i] = t[i - Len(s)]
  BY <1>1
<1> HIDE <1>1
<1>5. Seen(s \o t) \subseteq Seen(s) \cup Seen(t)
  BY <1>4 DEF Seen
<1>6. Seen(s) \subseteq Seen(s \o t)
  BY <1>1, <1>2 DEF Seen
<1>7. Seen(t) \subseteq Seen(s \o t)
  BY <1>1, <1>3 DEF Seen
<1> QED BY <1>5, <1>6, <1>7

LEMMA SeenOne ==
  ASSUME NEW S, NEW e \in S
  PROVE  <<e>> \in Seq(S) /\ Seen(<<e>>) = {e} \ {CutOff} /\ Seen(<<>>) = {}
<1>1. DOMAIN <<e>> = {1} /\ <<e>>[1] = e /\ <<e>> \in Seq(S)
  OBVIOUS
<1>2. Seen(<<>>) = {}
  BY DEF Seen
<1> QED BY <1>1, <1>2 DEF Seen

LEMMA SeenBefore ==
  ASSUME NEW S, NEW s \in Seq(S), NEW k \in 0..Len(s)
  PROVE  /\ SubSeq(s, 1, k) \in Seq(S) /\ Len(SubSeq(s, 1, k)) = k
         /\ \A i \in 1..k : SubSeq(s, 1, k)[i] = s[i]
         /\ Seen(SubSeq(s, 1, k)) \subseteq Seen(s)
<1>1. /\ SubSeq(s, 1, k) \in Seq(S) /\ Len(SubSeq(s, 1, k)) = k
      /\ \A i \in 1..k : SubSeq(s, 1, k)[i] = s[i]
  OBVIOUS
<1>2. DOMAIN SubSeq(s, 1, k) = 1..k /\ 1..k \subseteq DOMAIN s
  BY <1>1
<1> QED BY <1>1, <1>2 DEF Seen

\* Two texts that share nothing can be joined; the beginning of a text is one.
LEMMA OnceJoined ==
  ASSUME NEW S, NEW s \in Seq(S), NEW t \in Seq(S), NEW but,
         Once(s, but), Once(t, but), Seen(s) \cap Seen(t) \subseteq but
  PROVE  Once(s \o t, but)
<1>1. /\ DOMAIN (s \o t) = 1..(Len(s) + Len(t)) /\ DOMAIN s = 1..Len(s) /\ DOMAIN t = 1..Len(t)
      /\ Len(s) \in Nat /\ Len(t) \in Nat
      /\ \A i \in DOMAIN (s \o t) : (s \o t)[i] = IF i <= Len(s) THEN s[i] ELSE t[i - Len(s)]
  OBVIOUS
<1>2. \A i \in DOMAIN (s \o t) :
        \/ i \in DOMAIN s /\ (s \o t)[i] = s[i]
        \/ i - Len(s) \in DOMAIN t /\ (s \o t)[i] = t[i - Len(s)]
  BY <1>1
<1> SUFFICES ASSUME NEW i \in DOMAIN (s \o t), NEW j \in DOMAIN (s \o t),
                    (s \o t)[i] = (s \o t)[j], (s \o t)[i] \notin but, (s \o t)[i] # CutOff
             PROVE  i = j
  BY DEF Once
<1>3. CASE i \in DOMAIN s /\ (s \o t)[i] = s[i] /\ j \in DOMAIN s /\ (s \o t)[j] = s[j]
  BY <1>3 DEF Once
<1>4. CASE /\ i - Len(s) \in DOMAIN t /\ (s \o t)[i] = t[i - Len(s)]
           /\ j - Len(s) \in DOMAIN t /\ (s \o t)[j] = t[j - Len(s)]
  <2>1. i - Len(s) = j - Len(s)
    BY <1>4 DEF Once
  <2> QED BY <2>1, <1>1
<1>5. CASE \/ /\ i \in DOMAIN s /\ (s \o t)[i] = s[i]
              /\ j - Len(s) \in DOMAIN t /\ (s \o t)[j] = t[j - Len(s)]
           \/ /\ j \in DOMAIN s /\ (s \o t)[j] = s[j]
              /\ i - Len(s) \in DOMAIN t /\ (s \o t)[i] = t[i - Len(s)]
  <2>1. (s \o t)[i] \in Seen(s) \cap Seen(t)
    BY <1>5 DEF Seen
  <2> QED BY <2>1
<1> QED BY <1>2, <1>3, <1>4, <1>5

LEMMA OnceBefore ==
  ASSUME NEW S, NEW s \in Seq(S), NEW k \in 0..Len(s), NEW but, Once(s, but)
  PROVE  Once(SubSeq(s, 1, k), but)
<1>1. DOMAIN SubSeq(s, 1, k) = 1..k /\ \A i \in 1..k : SubSeq(s, 1, k)[i] = s[i]
  BY SeenBefore
<1>2. 1..k \subseteq DOMAIN s
  OBVIOUS
<1> QED BY <1>1, <1>2 DEF Once

\* A line that was cut off is nothing seen, and can be anywhere.
LEMMA OnceOne ==
  ASSUME NEW e, NEW but
  PROVE  Once(<<e>>, but) /\ Once(<<>>, but)
<1>1. DOMAIN <<e>> = {1}
  OBVIOUS
<1> QED BY <1>1 DEF Once

LEMMA SeqWider ==
  ASSUME NEW S, NEW T, S \subseteq T, NEW s \in Seq(S)
  PROVE  s \in Seq(T)
OBVIOUS

LEMMA SeenEntries ==
  ASSUME NEW s \in Seq(Entries)
  PROVE  Seen(s) \subseteq Observations
BY DEF Seen, Entries

LEMMA CutIsNone == CutOff \notin Observations
<1>1. \A o \in (1..Sessions) \X Shards \X (1..PerSession) : o # CutOff
  <2> TAKE o \in (1..Sessions) \X Shards \X (1..PerSession)
  <2>1. Len(o) = 3 /\ Len(<<"torn">>) = 1
    OBVIOUS
  <2> QED BY <2>1 DEF CutOff
<1> QED BY <1>1 DEF Observations

LEMMA ResultsInitInv ==
  ResultsInit => ResultsInv
<1> SUFFICES ASSUME ResultsInit PROVE ResultsInv
  OBVIOUS
<1>1. Observations = {}
  <2> SUFFICES ASSUME NEW o \in Observations PROVE FALSE
    OBVIOUS
  <2>1. o[1] \in 1..Sessions /\ o[2] \in Shards /\ o[3] \in 1..PerSession /\ o[3] <= made[o[2]][o[1]]
    BY DEF Observations
  <2>2. made[o[2]][o[1]] = 0
    BY <2>1 DEF ResultsInit
  <2> QED BY <2>1, <2>2
<1>2. Seen(<<>>) = {} /\ Once(<<>>, stayed) /\ <<>> \in Seq(Entries)
  BY DEF Seen, Once
<1>3. ResultsTypes
  <2>1. 1 \in 1..Sessions /\ 0 \in 0..PerSession
    BY ResultsAssumption
  <2>2. session \in [number : 1..Sessions, at : {"tests", "fold", "unlink", "over"}, from : Nat]
    BY <2>1 DEF ResultsInit
  <2> QED BY <1>2, <2>1, <2>2 DEF ResultsInit, ResultsTypes
<1>4. session.at = "tests" /\ canonical = <<>> /\ \A w \in Shards : shard[w] = <<>>
  BY DEF ResultsInit
<1>5. OwnInv /\ OnceInv
  BY <1>2, <1>4 DEF OwnInv, OnceInv
<1>6. FoundInv /\ ApartInv
  BY <1>1, <1>2, <1>4 DEF FoundInv, ApartInv
<1> QED BY <1>3, <1>5, <1>6 DEF ResultsInv

LEMMA RecordInv ==
  ASSUME NEW w \in Shards
  PROVE  ResultsInv /\ Record(w) => ResultsInv'
<1> SUFFICES ASSUME ResultsInv, Record(w) PROVE ResultsInv'
  OBVIOUS
<1> USE DEF ResultsInv
<1> DEFINE n == session.number
           k == made[w][n] + 1
           o == <<n, w, k>>
           more(x) == [shard EXCEPT ![w] = Append(shard[w], x)]
<1>1. n \in 1..Sessions /\ made[w][n] \in Nat /\ k \in 1..PerSession /\ session.at = "tests"
  BY ResultsAssumption DEF ResultsTypes, Record
<1>2. /\ made' = [made EXCEPT ![w] = [made[w] EXCEPT ![n] = k]]
      /\ session' = session /\ canonical' = canonical /\ toDo' = toDo /\ stayed' = stayed
  BY DEF Record
<1>3. made' \in [Shards -> [1..Sessions -> 0..PerSession]]
  <2>1. [made[w] EXCEPT ![n] = k] \in [1..Sessions -> 0..PerSession]
    BY <1>1, ResultsAssumption DEF ResultsTypes
  <2> QED BY <1>2, <2>1 DEF ResultsTypes
<1>4. /\ made'[w][n] = k
      /\ \A v \in Shards, m \in 1..Sessions : ~(v = w /\ m = n) => made'[v][m] = made[v][m]
  BY <1>1, <1>2 DEF ResultsTypes
<1>5. o[1] = n /\ o[2] = w /\ o[3] = k /\ o # CutOff
  <2>1. o # CutOff
    <3>1. Len(o) = 3 /\ Len(<<"torn">>) = 1
      OBVIOUS
    <3> QED BY <3>1 DEF CutOff
  <2> QED BY <2>1
<1>6. \E x : /\ \/ x = o /\ dropped' = dropped
                \/ x = CutOff /\ dropped' = dropped \cup {o}
             /\ (shard' = more(x) \/ (x = CutOff /\ shard' = shard))
  <2>1. o = <<session.number, w, made'[w][session.number]>>
    BY <1>4
  <2>2. CASE shard' = [shard EXCEPT ![w] = Append(@, o)] /\ UNCHANGED <<misses, dropped>>
    BY <2>2
  <2>3. CASE /\ Miss
             /\ shard' \in {shard, [shard EXCEPT ![w] = Append(@, CutOff)]}
             /\ dropped' = dropped \cup {o}
    BY <2>3
  <2> HIDE DEF o
  <2> QED BY <2>1, <2>2, <2>3 DEF Record
<1> HIDE DEF o, k, n
<1>7. Observations' = Observations \cup {o} /\ o \notin Observations
  <2> DEFINE All == (1..Sessions) \X Shards \X (1..PerSession)
  <2>1. o \in All
    BY <1>1 DEF o
  <2>2. \A p \in All :
          /\ p[1] \in 1..Sessions /\ p[2] \in Shards /\ p[3] \in 1..PerSession
          /\ p[2] = w /\ p[1] = n /\ p[3] = k => p = o
    BY DEF o
  <2>3. Observations = {p \in All : p[3] <= made[p[2]][p[1]]}
    BY DEF Observations
  <2>4. Observations' = {p \in All : p[3] <= made'[p[2]][p[1]]}
    BY DEF Observations
  <2> HIDE DEF All
  <2>5. ASSUME NEW p \in All PROVE p[3] <= made'[p[2]][p[1]] <=> p[3] <= made[p[2]][p[1]] \/ p = o
    <3>1. CASE ~(p[2] = w /\ p[1] = n)
      BY <3>1, <2>2, <1>4, <1>5
    <3>2. CASE p[2] = w /\ p[1] = n
      <4>1. made'[p[2]][p[1]] = k /\ k = made[p[2]][p[1]] + 1
        BY <3>2, <1>4 DEF k
      <4>2. p[3] \in Nat /\ made[p[2]][p[1]] \in Nat
        BY <2>2, <3>2, <1>1
      <4>3. p[3] = k <=> p = o
        BY <3>2, <2>2, <1>5
      <4> QED BY <4>1, <4>2, <4>3
    <3> QED BY <3>1, <3>2
  <2>6. ~(o[3] <= made[o[2]][o[1]])
    BY <1>5, <1>1 DEF k
  <2> QED BY <2>1, <2>3, <2>4, <2>5, <2>6
<1>8. PICK x : /\ \/ x = o /\ dropped' = dropped
                  \/ x = CutOff /\ dropped' = dropped \cup {o}
               /\ (shard' = more(x) \/ (x = CutOff /\ shard' = shard))
  BY <1>6
<1>9. /\ Entries \subseteq Entries' /\ x \in Entries'
      /\ canonical \in Seq(Entries') /\ \A v \in Shards : shard[v] \in Seq(Entries')
  <2>1. Entries \subseteq Entries' /\ x \in Entries'
    BY <1>7, <1>8 DEF Entries, CutOff
  <2>2. canonical \in Seq(Entries) /\ \A v \in Shards : shard[v] \in Seq(Entries)
    BY DEF ResultsTypes
  <2> HIDE DEF ResultsInv
  <2> QED BY <2>1, <2>2, SeqWider
<1>10. ASSUME NEW v \in Shards
       PROVE  \/ shard'[v] = shard[v] /\ (v # w \/ x = CutOff)
              \/ v = w /\ shard'[v] = Append(shard[v], x)
  BY <1>8 DEF ResultsTypes
<1>11. /\ shard[w] \in Seq(Entries') /\ <<x>> \in Seq(Entries')
       /\ Append(shard[w], x) = shard[w] \o <<x>> /\ Append(shard[w], x) \in Seq(Entries')
  BY <1>9
<1>12. Seen(<<x>>) = {x} \ {CutOff} /\ Seen(Append(shard[w], x)) = Seen(shard[w]) \cup ({x} \ {CutOff})
  <2> DEFINE E == Entries'
  <2>1. shard[w] \in Seq(E) /\ <<x>> \in Seq(E) /\ x \in E /\ Append(shard[w], x) = shard[w] \o <<x>>
    BY <1>9, <1>11
  <2> HIDE DEF E
  <2>2. Seen(<<x>>) = {x} \ {CutOff}
    BY <2>1, SeenOne
  <2>3. Seen(shard[w] \o <<x>>) = Seen(shard[w]) \cup Seen(<<x>>)
    BY <2>1, SeenJoined
  <2> QED BY <2>1, <2>2, <2>3
<1>13. \A v \in Shards : Seen(shard[v]) \subseteq Observations
  BY SeenEntries DEF ResultsTypes
<1>14. Once(Append(shard[w], x), stayed)
  <2>1. Seen(shard[w]) \cap Seen(<<x>>) \subseteq stayed
    BY <1>12, <1>13, <1>8, <1>7
  <2>2. Once(shard[w], stayed) /\ Once(<<x>>, stayed)
    BY OnceOne DEF OnceInv
  <2> QED BY <1>11, <2>1, <2>2, OnceJoined
<1>15. /\ \A v \in Shards : Seen(shard'[v]) \in {Seen(shard[v]), Seen(shard[v]) \cup ({x} \ {CutOff})}
       /\ \A v \in Shards \ {w} : shard'[v] = shard[v]
       /\ Seen(shard'[w]) = Seen(shard[w]) \cup ({x} \ {CutOff})
  BY <1>10, <1>12
<1>16. ResultsTypes'
  <2>1. \A v \in Shards : shard'[v] \in Seq(Entries')
    BY <1>9, <1>10, <1>11
  <2>2. shard' = [v \in Shards |-> shard'[v]]
    BY <1>8 DEF ResultsTypes
  <2>3. shard' \in [Shards -> Seq(Entries')]
    BY <2>1, <2>2
  <2> QED BY <1>2, <1>3, <1>9, <2>3 DEF ResultsTypes
<1>17. OwnInv'
  <2> SUFFICES ASSUME NEW v \in Shards, NEW p \in Seen(shard'[v]) PROVE p[2] = v
    BY DEF OwnInv, Seen, CutOff
  <2>1. p \in Seen(shard[v]) \/ (v = w /\ p = o)
    BY <1>15, <1>8
  <2> QED BY <2>1, <1>5 DEF OwnInv
<1>18. OnceInv'
  <2>1. \A v \in Shards : Once(shard'[v], stayed)
    BY <1>10, <1>14 DEF OnceInv
  <2>2. Once(canonical, stayed)
    BY DEF OnceInv
  <2> QED BY <2>1, <2>2, <1>2 DEF OnceInv, Once, CutOff
<1>19. \A p \in Seen(canonical) : p # o
  BY <1>7, SeenEntries DEF ResultsTypes
<1>20. FoundInv'
  <2>1. Observations \subseteq dropped \cup Seen(canonical) \cup InShards
    BY <1>1 DEF FoundInv
  <2>2. InShards \subseteq UNION {Seen(shard'[v]) : v \in Shards}
    BY <1>15 DEF InShards
  <2>3. o \in dropped' \cup UNION {Seen(shard'[v]) : v \in Shards}
    BY <1>8, <1>15, <1>5
  <2>4. Observations' \subseteq dropped' \cup Seen(canonical) \cup UNION {Seen(shard'[v]) : v \in Shards}
    BY <2>1, <2>2, <2>3, <1>7, <1>8
  <2>5. InShards' = UNION {Seen(shard'[v]) : v \in Shards} /\ Seen(canonical)' = Seen(canonical)
    BY <1>2 DEF InShards, Seen, CutOff
  <2>6. session'.at = "tests"
    BY <1>1, <1>2
  <2> QED BY <2>4, <2>5, <2>6 DEF FoundInv
<1>21. ApartInv'
  <2>1. Seen(canonical) \cap InShards \subseteq stayed
    BY <1>1 DEF ApartInv
  <2>2. UNION {Seen(shard'[v]) : v \in Shards} \subseteq InShards \cup {o}
    BY <1>15, <1>8 DEF InShards
  <2>3. InShards' = UNION {Seen(shard'[v]) : v \in Shards} /\ Seen(canonical)' = Seen(canonical)
    BY <1>2 DEF InShards, Seen, CutOff
  <2>6. session'.at = "tests"
    BY <1>1, <1>2
  <2> QED BY <2>1, <2>2, <2>3, <2>6, <1>19, <1>2 DEF ApartInv
<1> QED BY <1>16, <1>17, <1>18, <1>20, <1>21

\* What nothing is appended to stays as it is.
LEMMA SameTexts ==
  ASSUME ResultsInv, made' = made, canonical' = canonical, shard' = shard, stayed' = stayed,
         toDo' \subseteq Shards,
         session' \in [number : 1..Sessions, at : {"tests", "fold", "unlink", "over"}, from : Nat]
  PROVE  /\ ResultsTypes' /\ OwnInv' /\ OnceInv'
         /\ Observations' = Observations /\ InShards' = InShards
         /\ Seen(canonical)' = Seen(canonical) /\ \A w \in Shards : Seen(shard'[w]) = Seen(shard[w])
<1>1. Observations' = Observations /\ Entries' = Entries
  BY DEF Observations, Entries, CutOff
<1> QED BY <1>1 DEF ResultsInv, ResultsTypes, OwnInv, OnceInv, Once, InShards, Seen, CutOff

LEMMA MergeBeginsInv ==
  ResultsInv /\ MergeBegins => ResultsInv'
<1> SUFFICES ASSUME ResultsInv, MergeBegins PROVE ResultsInv'
  OBVIOUS
<1>1. /\ session.at = "tests" /\ session'.at = IF There = {} THEN "over" ELSE "fold"
      /\ session'.from = Len(canonical) /\ Len(canonical) \in Nat
      /\ session' \in [number : 1..Sessions, at : {"tests", "fold", "unlink", "over"}, from : Nat]
  <2> DEFINE at == IF There = {} THEN "over" ELSE "fold"
  <2>1. /\ session \in [number : 1..Sessions, at : {"tests", "fold", "unlink", "over"}, from : Nat]
        /\ Len(canonical) \in Nat
    BY DEF ResultsInv, ResultsTypes
  <2>2. at \in {"tests", "fold", "unlink", "over"}
    OBVIOUS
  <2>3. session.at = "tests" /\ session' = [session EXCEPT !.at = at, !.from = Len(canonical)]
    BY DEF MergeBegins
  <2> HIDE DEF at
  <2>4. session'.at = at /\ session'.from = Len(canonical) /\ session'.number = session.number
    BY <2>1, <2>3
  <2>5. session' \in [number : 1..Sessions, at : {"tests", "fold", "unlink", "over"}, from : Nat]
    BY <2>1, <2>2, <2>3
  <2> QED BY <2>1, <2>3, <2>4, <2>5 DEF at
<1>2. /\ made' = made /\ canonical' = canonical /\ shard' = shard /\ stayed' = stayed
      /\ toDo' = There /\ dropped' = dropped
  BY DEF MergeBegins
<1>3. There \subseteq Shards
  BY DEF There
<1>4. /\ ResultsTypes' /\ OwnInv' /\ OnceInv'
      /\ Observations' = Observations /\ InShards' = InShards
      /\ Seen(canonical)' = Seen(canonical) /\ \A w \in Shards : Seen(shard'[w]) = Seen(shard[w])
  BY <1>1, <1>2, <1>3, SameTexts
<1>5. Observations \subseteq dropped \cup Seen(canonical) \cup InShards
  BY <1>1 DEF ResultsInv, FoundInv
<1>6. Seen(canonical) \cap InShards \subseteq stayed
  BY <1>1 DEF ResultsInv, ApartInv
<1>7. \A w \in Shards \ There : Seen(shard[w]) = {}
  BY DEF There, Seen
<1>8. Seen(canonical) \subseteq Kept'
  <2>1. DOMAIN canonical = 1..Len(canonical)
    BY DEF ResultsInv, ResultsTypes
  <2> QED BY <2>1, <1>1, <1>2 DEF Kept, Seen
<1>9. FoundInv'
  <2>1. Observations' \subseteq dropped' \cup Kept' \cup InShards'
    BY <1>5, <1>8, <1>4, <1>2
  <2>2. session'.from <= Len(canonical')
    BY <1>1, <1>2
  <2>3. \A w \in Shards \ toDo' : Seen(shard'[w]) = {}
    BY <1>2, <1>4, <1>7
  <2>4. session'.at \in {"over", "fold"}
    BY <1>1
  <2>5. Observations' \subseteq dropped' \cup Seen(canonical)' \cup InShards'
    BY <1>5, <1>4, <1>2
  <2> QED BY <2>1, <2>2, <2>3, <2>4, <2>5 DEF FoundInv, Seen, CutOff
<1>10. ApartInv'
  <2>1. \A w \in toDo' : Seen(shard'[w]) \subseteq InShards
    BY <1>2, <1>3, <1>4 DEF InShards
  <2>2. \A w \in toDo' : Seen(canonical)' \cap Seen(shard'[w]) \subseteq stayed'
    BY <2>1, <1>6, <1>4, <1>2
  <2>3. Seen(canonical)' \cap InShards' \subseteq stayed'
    BY <1>6, <1>4, <1>2
  <2>4. session'.at \in {"over", "fold"}
    BY <1>1
  <2> QED BY <2>2, <2>3, <2>4 DEF ApartInv, Seen, CutOff
<1> QED BY <1>4, <1>9, <1>10 DEF ResultsInv

LEMMA FoldedInv ==
  ResultsInv /\ Folded => ResultsInv'
<1> SUFFICES ASSUME ResultsInv, Folded PROVE ResultsInv'
  OBVIOUS
<1>1. /\ session.at = "fold" /\ session'.at = "unlink" /\ toDo = {}
      /\ session' \in [number : 1..Sessions, at : {"tests", "fold", "unlink", "over"}, from : Nat]
  BY DEF Folded, ResultsInv, ResultsTypes
<1>2. /\ made' = made /\ canonical' = canonical /\ shard' = shard /\ stayed' = stayed
      /\ toDo' = There /\ dropped' = dropped
  BY DEF Folded, ToUnlink
<1>3. There \subseteq Shards
  BY DEF There
<1>4. /\ ResultsTypes' /\ OwnInv' /\ OnceInv'
      /\ Observations' = Observations /\ InShards' = InShards
      /\ Seen(canonical)' = Seen(canonical) /\ \A w \in Shards : Seen(shard'[w]) = Seen(shard[w])
  BY <1>1, <1>2, <1>3, SameTexts
<1>5. /\ Observations \subseteq dropped \cup Kept \cup InShards
      /\ session.from <= Len(canonical)
      /\ \A w \in Shards : Seen(shard[w]) \subseteq dropped \cup Seen(canonical)
  BY <1>1 DEF ResultsInv, FoundInv
<1>6. Kept \subseteq Seen(canonical) \cup {CutOff}
  <2>1. DOMAIN canonical = 1..Len(canonical) /\ session.from \in Nat /\ Len(canonical) \in Nat
    BY DEF ResultsInv, ResultsTypes
  <2>2. 1..session.from \subseteq DOMAIN canonical
    BY <2>1, <1>5
  <2> QED BY <2>2 DEF Kept, Seen
<1>7. CutOff \notin Observations
  BY CutIsNone
<1>8. Observations \subseteq dropped \cup Seen(canonical)
  BY <1>5, <1>6, <1>7 DEF InShards
<1>9. \A w \in Shards \ toDo' : Seen(shard'[w]) = {}
  <2>1. \A w \in Shards \ There : Seen(shard[w]) = {}
    BY DEF There, Seen
  <2> QED BY <2>1, <1>2, <1>4
<1>10. FoundInv'
  BY <1>8, <1>4, <1>2, <1>1 DEF FoundInv
<1>11. ApartInv'
  BY <1>9, <1>1 DEF ApartInv, Seen, CutOff
<1> QED BY <1>4, <1>10, <1>11 DEF ResultsInv

LEMMA MergeEndsInv ==
  ResultsInv /\ (MergeEnds \/ NextSession) => ResultsInv'
<1> SUFFICES ASSUME ResultsInv, MergeEnds \/ NextSession PROVE ResultsInv'
  OBVIOUS
<1>1. /\ made' = made /\ canonical' = canonical /\ shard' = shard /\ stayed' = stayed
      /\ toDo' = toDo /\ dropped' = dropped
      /\ \/ session.at = "unlink" /\ toDo = {} /\ session'.at = "over"
         \/ session.at = "over" /\ session'.at = "tests"
  BY DEF MergeEnds, NextSession, ResultsInv, ResultsTypes
<1>2. /\ session' \in [number : 1..Sessions, at : {"tests", "fold", "unlink", "over"}, from : Nat]
      /\ toDo' \subseteq Shards
  <2>1. session \in [number : 1..Sessions, at : {"tests", "fold", "unlink", "over"}, from : Nat]
    BY DEF ResultsInv, ResultsTypes
  <2>2. toDo' \subseteq Shards
    BY <1>1 DEF ResultsInv, ResultsTypes
  <2>3. CASE MergeEnds
    <3>1. session' = [session EXCEPT !.at = "over"]
      BY <2>3 DEF MergeEnds
    <3> QED BY <2>1, <2>2, <3>1
  <2>4. CASE NextSession
    <3> DEFINE n == session.number + 1
    <3>1. n \in 1..Sessions
      BY <2>1, <2>4, ResultsAssumption DEF NextSession
    <3>2. session' = [session EXCEPT !.number = n, !.at = "tests"]
      BY <2>4 DEF NextSession
    <3> HIDE DEF n
    <3> QED BY <2>1, <2>2, <3>1, <3>2
  <2> QED BY <2>3, <2>4
<1>4. /\ ResultsTypes' /\ OwnInv' /\ OnceInv'
      /\ Observations' = Observations /\ InShards' = InShards
      /\ Seen(canonical)' = Seen(canonical) /\ \A w \in Shards : Seen(shard'[w]) = Seen(shard[w])
  BY <1>1, <1>2, SameTexts
<1>5. Observations \subseteq dropped \cup Seen(canonical) \cup InShards
  BY <1>1 DEF ResultsInv, FoundInv
<1>6. Seen(canonical) \cap InShards \subseteq stayed
  <2>1. CASE session.at = "unlink" /\ toDo = {}
    <3>1. InShards \subseteq stayed
      BY <2>1 DEF InShards, ResultsInv, ApartInv
    <3> QED BY <3>1
  <2>2. CASE session.at = "over"
    BY <2>2 DEF ResultsInv, ApartInv
  <2> QED BY <2>1, <2>2, <1>1
<1>7. session'.at \in {"tests", "over"}
  BY <1>1
<1>8. FoundInv' /\ ApartInv'
  BY <1>5, <1>6, <1>7, <1>4, <1>1 DEF FoundInv, ApartInv
<1> QED BY <1>4, <1>8 DEF ResultsInv

LEMMA UnlinkInv ==
  ASSUME NEW w \in Shards
  PROVE  ResultsInv /\ Unlink(w) => ResultsInv'
<1> SUFFICES ASSUME ResultsInv, Unlink(w) PROVE ResultsInv'
  OBVIOUS
<1>1. /\ session.at = "unlink" /\ session' = session /\ toDo' = toDo \ {w}
      /\ made' = made /\ canonical' = canonical /\ dropped' = dropped
      /\ \/ shard' = [shard EXCEPT ![w] = <<>>] /\ stayed' = stayed
         \/ stayed' = stayed \cup Seen(shard[w]) /\ shard' = shard
  BY DEF Unlink
<1>2. Observations' = Observations /\ Entries' = Entries
  BY <1>1 DEF Observations, Entries, CutOff
<1>3. Seen(<<>>) = {} /\ Once(<<>>, stayed') /\ <<>> \in Seq(Entries)
  BY DEF Seen, Once
<1>4. \A v \in Shards :
        /\ shard'[v] = shard[v] \/ shard'[v] = <<>>
        /\ v = w => Seen(shard'[v]) \subseteq stayed'
  BY <1>1, <1>3 DEF ResultsInv, ResultsTypes
<1>5. stayed \subseteq stayed'
  BY <1>1
<1>6. ResultsTypes'
  <2>1. shard' \in [Shards -> Seq(Entries)]
    BY <1>1, <1>3 DEF ResultsInv, ResultsTypes
  <2> QED BY <2>1, <1>1, <1>2 DEF ResultsInv, ResultsTypes
<1>7. OwnInv'
  <2>1. \A v \in Shards : \A o \in Seen(shard'[v]) : o[2] = v
    BY <1>3, <1>4 DEF ResultsInv, OwnInv
  <2> QED BY <2>1 DEF OwnInv, Seen, CutOff
<1>8. OnceInv'
  <2>1. Once(canonical, stayed') /\ \A v \in Shards : Once(shard[v], stayed')
    BY <1>5 DEF ResultsInv, OnceInv, Once
  <2>2. \A v \in Shards : Once(shard'[v], stayed')
    BY <2>1, <1>3, <1>4
  <2> QED BY <2>1, <2>2, <1>1 DEF OnceInv, Once, CutOff
<1>9. FoundInv'
  <2>1. Seen(canonical)' = Seen(canonical)
    BY <1>1 DEF Seen, CutOff
  <2> QED BY <2>1, <1>1, <1>2 DEF ResultsInv, FoundInv
<1>10. ApartInv'
  <2>1. \A v \in Shards \ toDo : Seen(shard[v]) \subseteq stayed
    BY <1>1 DEF ResultsInv, ApartInv
  <2>2. \A v \in Shards \ toDo' : Seen(shard'[v]) \subseteq stayed'
    BY <2>1, <1>1, <1>3, <1>4, <1>5
  <2>3. session'.at = "unlink"
    BY <1>1
  <2> QED BY <2>2, <2>3 DEF ApartInv, Seen, CutOff
<1> QED BY <1>6, <1>7, <1>8, <1>9, <1>10 DEF ResultsInv

LEMMA FoldInv ==
  ASSUME NEW w \in Shards
  PROVE  ResultsInv /\ Fold(w) => ResultsInv'
<1> SUFFICES ASSUME ResultsInv, Fold(w) PROVE ResultsInv'
  OBVIOUS
<1>1. /\ session.at = "fold" /\ session' = session /\ toDo' = toDo \ {w} /\ w \in toDo
      /\ made' = made /\ shard' = shard /\ stayed' = stayed
      /\ \/ canonical' = canonical \o shard[w] /\ dropped' = dropped
         \/ dropped' = dropped \cup Seen(shard[w]) /\ canonical' = canonical
  BY DEF Fold, IsNext
<1>2. Observations' = Observations /\ Entries' = Entries /\ InShards' = InShards
  BY <1>1 DEF Observations, Entries, CutOff, InShards, Seen
<1>3. canonical \in Seq(Entries) /\ shard[w] \in Seq(Entries)
  BY DEF ResultsInv, ResultsTypes
<1>4. Seen(canonical) \cap Seen(shard[w]) \subseteq stayed
  BY <1>1 DEF ResultsInv, ApartInv
<1>5. /\ canonical \o shard[w] \in Seq(Entries)
      /\ Seen(canonical \o shard[w]) = Seen(canonical) \cup Seen(shard[w])
      /\ Once(canonical \o shard[w], stayed)
  <2>1. Once(canonical, stayed) /\ Once(shard[w], stayed)
    BY DEF ResultsInv, OnceInv
  <2>2. canonical \o shard[w] \in Seq(Entries)
    BY <1>3
  <2>3. Seen(canonical \o shard[w]) = Seen(canonical) \cup Seen(shard[w])
    BY <1>3, SeenJoined
  <2> QED BY <2>1, <2>2, <2>3, <1>3, <1>4, OnceJoined
<1>6. /\ canonical' \in Seq(Entries) /\ Once(canonical', stayed)
      /\ Seen(canonical) \subseteq Seen(canonical')
      /\ Seen(canonical') \subseteq Seen(canonical) \cup Seen(shard[w])
      /\ dropped \subseteq dropped'
      /\ Seen(shard[w]) \subseteq dropped' \cup Seen(canonical')
  BY <1>1, <1>3, <1>5 DEF ResultsInv, OnceInv
<1>7. Seen(canonical)' = Seen(canonical') /\ \A v \in Shards : Seen(shard[v])' = Seen(shard[v])
  BY <1>1 DEF Seen, CutOff
<1>8. ResultsTypes' /\ OwnInv'
  BY <1>1, <1>2, <1>6 DEF ResultsInv, ResultsTypes, OwnInv, Seen, CutOff
<1>9. OnceInv'
  BY <1>1, <1>6 DEF ResultsInv, OnceInv, Once, CutOff
<1>10. FoundInv'
  <2>1. /\ Observations \subseteq dropped \cup Kept \cup InShards
        /\ session.from <= Len(canonical)
        /\ \A v \in Shards \ toDo : Seen(shard[v]) \subseteq dropped \cup Seen(canonical)
    BY <1>1 DEF ResultsInv, FoundInv
  <2>2. session.from <= Len(canonical') /\ Kept' = Kept
    <3>1. /\ Len(canonical) \in Nat /\ Len(shard[w]) \in Nat /\ session.from \in Nat
          /\ Len(canonical \o shard[w]) = Len(canonical) + Len(shard[w])
          /\ \A i \in 1..Len(canonical) : (canonical \o shard[w])[i] = canonical[i]
      BY <1>3 DEF ResultsInv, ResultsTypes
    <3>2. Len(canonical) <= Len(canonical') /\ \A i \in 1..Len(canonical) : canonical'[i] = canonical[i]
      BY <1>1, <3>1
    <3>3. Len(canonical') \in Nat /\ 1..session.from \subseteq 1..Len(canonical)
      BY <1>6, <3>1, <2>1
    <3>4. session.from <= Len(canonical')
      BY <3>1, <3>2, <3>3, <2>1
    <3>5. Kept' = {canonical'[i] : i \in 1..session.from}
      BY <1>1 DEF Kept
    <3> QED BY <3>2, <3>3, <3>4, <3>5 DEF Kept
  <2>3. \A v \in Shards \ toDo' : Seen(shard[v]) \subseteq dropped' \cup Seen(canonical')
    BY <2>1, <1>1, <1>6
  <2>4. Observations' \subseteq dropped' \cup Kept' \cup InShards'
    BY <2>1, <2>2, <1>2, <1>6
  <2>5. session'.at = "fold" /\ session'.from = session.from
    BY <1>1
  <2>6. \A v \in Shards \ toDo' : Seen(shard'[v]) \subseteq dropped' \cup Seen(canonical')
    BY <2>3, <1>1
  <2> QED BY <2>2, <2>4, <2>5, <2>6, <1>7 DEF FoundInv
<1>11. ApartInv'
  <2>1. \A v \in toDo' : Seen(shard[v]) \cap Seen(canonical) \subseteq stayed /\ v # w /\ v \in Shards
    BY <1>1 DEF ResultsInv, ApartInv, ResultsTypes
  <2>2. ASSUME NEW v \in Shards, v # w PROVE Seen(shard[v]) \cap Seen(shard[w]) = {}
    BY <2>2 DEF ResultsInv, OwnInv
  <2>3. \A v \in toDo' : Seen(canonical') \cap Seen(shard'[v]) \subseteq stayed'
    BY <2>1, <2>2, <1>1, <1>6
  <2>4. session'.at = "fold"
    BY <1>1
  <2> QED BY <2>3, <2>4, <1>7 DEF ApartInv
<1> QED BY <1>8, <1>9, <1>10, <1>11 DEF ResultsInv

\* What is left of the canonical file when the merge breaks.
LEMMA BrokenText ==
  ASSUME ResultsInv, MergeBreaks
  PROVE  /\ canonical' \in Seq(Entries) /\ Once(canonical', stayed)
         /\ Seen(canonical') \subseteq Seen(canonical)
         /\ Observations \subseteq dropped \cup Seen(canonical') \cup InShards
<1>1. CASE session.at = "unlink" /\ UNCHANGED canonical
  BY <1>1 DEF ResultsInv, ResultsTypes, OnceInv, FoundInv
<1>2. CASE /\ session.at = "fold"
           /\ \E k \in session.from..Len(canonical), rest \in {<<>>, <<CutOff>>} :
                canonical' = SubSeq(canonical, 1, k) \o (IF k < Len(canonical) THEN rest ELSE <<>>)
  <2>1. PICK k \in session.from..Len(canonical), rest \in {<<>>, <<CutOff>>} :
          canonical' = SubSeq(canonical, 1, k) \o rest
    BY <1>2
  <2> DEFINE s == SubSeq(canonical, 1, k)
  <2>2. /\ session.from \in Nat /\ k \in 0..Len(canonical) /\ canonical \in Seq(Entries)
        /\ Once(canonical, stayed) /\ session.from <= k
    BY DEF ResultsInv, ResultsTypes, OnceInv
  <2>3. /\ s \in Seq(Entries) /\ Len(s) = k /\ Once(s, stayed)
        /\ \A i \in 1..k : s[i] = canonical[i]
        /\ Seen(s) \subseteq Seen(canonical)
    BY <2>2, SeenBefore, OnceBefore
  <2>4. rest \in Seq(Entries) /\ Seen(rest) = {} /\ Once(rest, stayed)
    <3>1. CutOff \in Entries
      BY DEF Entries
    <3>2. /\ <<CutOff>> \in Seq(Entries) /\ Seen(<<CutOff>>) = {} /\ Seen(<<>>) = {}
          /\ Once(<<CutOff>>, stayed) /\ Once(<<>>, stayed) /\ <<>> \in Seq(Entries)
      BY <3>1, SeenOne, OnceOne
    <3> QED BY <3>2
  <2> HIDE DEF s
  <2>5. s \o rest \in Seq(Entries) /\ Seen(s \o rest) = Seen(s) /\ Once(s \o rest, stayed)
    <3>1. Seen(s \o rest) = Seen(s) \cup Seen(rest)
      <4> DEFINE E == Entries
      <4>1. s \in Seq(E) /\ rest \in Seq(E)
        BY <2>3, <2>4
      <4> HIDE DEF E
      <4> QED BY <4>1, SeenJoined
    <3>3. s \o rest \in Seq(Entries)
      BY <2>3, <2>4
    <3>2. Once(s \o rest, stayed)
      BY <2>3, <2>4, OnceJoined
    <3> QED BY <3>1, <3>2, <3>3, <2>4
  <2>6. Observations \cap Kept \subseteq Seen(s)
    <3>1. DOMAIN s = 1..k /\ 1..session.from \subseteq 1..k
      BY <2>2, <2>3
    <3>2. Kept \subseteq {s[i] : i \in DOMAIN s}
      BY <3>1, <2>3 DEF Kept
    <3>3. CutOff \notin Observations
      BY CutIsNone
    <3> QED BY <3>2, <3>3 DEF Seen
  <2>7. Observations \subseteq dropped \cup Kept \cup InShards
    BY <1>2 DEF ResultsInv, FoundInv
  <2>8. canonical' = s \o rest
    BY <2>1 DEF s
  <2> QED BY <2>3, <2>5, <2>6, <2>7, <2>8
<1> QED BY <1>1, <1>2 DEF MergeBreaks

LEMMA MergeBreaksInv ==
  ResultsInv /\ MergeBreaks => ResultsInv'
<1> SUFFICES ASSUME ResultsInv, MergeBreaks PROVE ResultsInv'
  OBVIOUS
<1>1. /\ session' = [session EXCEPT !.at = "over"] /\ toDo' = {}
      /\ stayed' = stayed \cup InShards
      /\ made' = made /\ shard' = shard /\ dropped' = dropped
  BY DEF MergeBreaks, InShards
<1>2. Observations' = Observations /\ Entries' = Entries /\ InShards' = InShards
  BY <1>1 DEF Observations, Entries, CutOff, InShards, Seen
<1>3. /\ canonical' \in Seq(Entries) /\ Once(canonical', stayed)
      /\ Seen(canonical') \subseteq Seen(canonical)
      /\ Observations \subseteq dropped \cup Seen(canonical') \cup InShards
  BY BrokenText
<1>4. Seen(canonical)' = Seen(canonical')
  BY DEF Seen, CutOff
<1>5. /\ session' \in [number : 1..Sessions, at : {"tests", "fold", "unlink", "over"}, from : Nat]
      /\ session'.at = "over"
  BY <1>1 DEF ResultsInv, ResultsTypes
<1>6. ResultsTypes' /\ OwnInv'
  BY <1>1, <1>2, <1>3, <1>5 DEF ResultsInv, ResultsTypes, OwnInv, Seen, CutOff
<1>7. OnceInv'
  <2>1. Once(canonical', stayed') /\ \A v \in Shards : Once(shard[v], stayed')
    BY <1>1, <1>3 DEF ResultsInv, OnceInv, Once
  <2> QED BY <2>1, <1>1 DEF OnceInv, Once, CutOff
<1>8. FoundInv'
  BY <1>1, <1>2, <1>3, <1>4, <1>5 DEF FoundInv
<1>9. ApartInv'
  BY <1>1, <1>2, <1>5 DEF ApartInv
<1> QED BY <1>6, <1>7, <1>8, <1>9 DEF ResultsInv

\* A worker's shard is its own, a text has an observation once, and none is lost or
\* found twice but for what was dropped, or not deleted: in every state of
\* core/results.py's sessions.
THEOREM ResultsInduction == ResultsSpec => []ResultsInv
<1>1. ResultsInit => ResultsInv
  BY ResultsInitInv
<1>2. ResultsInv /\ [ResultsNext]_resultsVars => ResultsInv'
  <2> SUFFICES ASSUME ResultsInv, [ResultsNext]_resultsVars PROVE ResultsInv'
    OBVIOUS
  <2>1. ASSUME NEW w \in Shards, Record(w) \/ Fold(w) \/ Unlink(w) PROVE ResultsInv'
    BY <2>1, RecordInv, FoldInv, UnlinkInv
  <2>2. CASE MergeBegins \/ Folded \/ MergeEnds \/ MergeBreaks \/ NextSession
    BY <2>2, MergeBeginsInv, FoldedInv, MergeEndsInv, MergeBreaksInv
  <2>3. CASE UNCHANGED resultsVars
    <3>1. /\ made' = made /\ canonical' = canonical /\ shard' = shard /\ stayed' = stayed
          /\ toDo' = toDo /\ session' = session /\ dropped' = dropped
      BY <2>3 DEF resultsVars
    <3>2. /\ ResultsTypes' /\ OwnInv' /\ OnceInv'
          /\ Observations' = Observations /\ InShards' = InShards
          /\ Seen(canonical)' = Seen(canonical)
          /\ \A w \in Shards : Seen(shard'[w]) = Seen(shard[w])
      BY <3>1, SameTexts DEF ResultsInv, ResultsTypes
    <3>3. FoundInv'
      BY <3>1, <3>2 DEF ResultsInv, FoundInv, Kept, Seen, CutOff
    <3>4. ApartInv'
      BY <3>1, <3>2 DEF ResultsInv, ApartInv, Seen, CutOff
    <3> QED BY <3>2, <3>3, <3>4 DEF ResultsInv
  <2> QED BY <2>1, <2>2, <2>3 DEF ResultsNext
<1> QED BY <1>1, <1>2, PTL DEF ResultsSpec

LEMMA RecordedOnceHolds ==
  ResultsInv => RecordedOnce
<1> SUFFICES ASSUME ResultsInv, session.at \in {"tests", "over"}, NEW o \in Observations
             PROVE  /\ Places(o) = {} => o \in dropped \/ RunOn(o)
                    /\ (\E p, q \in Places(o) : p # q) => o \in stayed
  BY DEF RecordedOnce
<1>1. o # CutOff
  BY CutIsNone
<1>2. ASSUME Places(o) = {}, o \notin dropped PROVE RunOn(o)
  <2>1. \E text \in {canonical} \cup {shard[w] : w \in Shards} : \E i \in DOMAIN text : text[i] = o
    <3>1. o \in Seen(canonical) \cup InShards
      BY <1>2 DEF ResultsInv, FoundInv
    <3> QED BY <3>1 DEF Seen, InShards
  <2>2. PICK text \in {canonical} \cup {shard[w] : w \in Shards} : \E i \in DOMAIN text : text[i] = o
    BY <2>1
  <2>3. PICK i \in DOMAIN text : text[i] = o
    BY <2>2
  <2>4. i \notin Read(text, o)
    <3>1. CASE text = canonical /\ i \in Read(text, o)
      <4>1. <<<<>>, i>> \in Places(o)
        BY <3>1 DEF Places
      <4> QED BY <4>1, <1>2
    <3>2. CASE text # canonical /\ i \in Read(text, o)
      <4>1. PICK w \in Shards : text = shard[w]
        BY <2>2, <3>2
      <4>2. <<<<w>>, i>> \in {<<w>>} \X Read(shard[w], o)
        BY <4>1, <3>2
      <4>3. <<<<w>>, i>> \in Places(o)
        BY <4>2 DEF Places
      <4> QED BY <4>3, <1>2
    <3> QED BY <3>1, <3>2
  <2>5. Swallowed(text, i)
    BY <2>3, <2>4 DEF Read
  <2> QED BY <2>3, <2>5 DEF RunOn
<1>3. ASSUME NEW p \in Places(o), NEW q \in Places(o), p # q, o \notin stayed PROVE FALSE
  <2>1. Once(canonical, stayed) /\ \A w \in Shards : Once(shard[w], stayed)
    BY DEF ResultsInv, OnceInv
  <2>2. \A i, j \in Read(canonical, o) : i = j
    BY <2>1, <1>1, <1>3 DEF Read, Once
  <2>3. \A w \in Shards : \A i, j \in Read(shard[w], o) : i = j
    BY <2>1, <1>1, <1>3 DEF Read, Once
  <2>4. Read(canonical, o) # {} => o \in Seen(canonical)
    BY <1>1 DEF Read, Seen
  <2>5. \A w \in Shards : Read(shard[w], o) # {} => o \in Seen(shard[w])
    BY <1>1 DEF Read, Seen
  <2>6. \A v, w \in Shards : Read(shard[v], o) # {} /\ Read(shard[w], o) # {} => v = w
    BY <2>5 DEF ResultsInv, OwnInv
  <2>7. \A w \in Shards : Read(canonical, o) = {} \/ Read(shard[w], o) = {}
    BY <2>4, <2>5, <1>3 DEF ResultsInv, ApartInv, InShards
  <2> DEFINE C == {<<>>} \X Read(canonical, o)
             D(w) == {<<w>>} \X Read(shard[w], o)
  <2>8. \A r \in Places(o) : r \in C \/ \E w \in Shards : r \in D(w)
    BY DEF Places
  <2>9. CASE p \in C
    <3>1. Read(canonical, o) # {} /\ \A w \in Shards : D(w) = {}
      BY <2>9, <2>7
    <3>2. q \in C
      BY <3>1, <2>8
    <3> QED BY <3>2, <2>9, <2>2, <1>3
  <2>10. CASE \E w \in Shards : p \in D(w)
    <3>1. PICK w \in Shards : p \in D(w)
      BY <2>10
    <3>2. C = {} /\ \A v \in Shards : v # w => D(v) = {}
      BY <3>1, <2>6, <2>7
    <3>3. q \in D(w)
      BY <3>2, <2>8
    <3> QED BY <3>1, <3>3, <2>3, <1>3
  <2> QED BY <2>8, <2>9, <2>10
<1> QED BY <1>2, <1>3

\* Between the merges a reader of core/results.py finds every observation once, but for
\* the ways in which the code loses one, or leaves one in a shard that is folded again.
THEOREM EachObservationOnce == ResultsSpec => []RecordedOnce
BY ResultsInduction, RecordedOnceHolds, PTL

-----------------------------------------------------------------------------
(* Both *)

\* What record, merge_worker_shards, emit_resource and flush_resources write can be read,
\* whatever their threads and processes do between each other's calls.
THEOREM RecordsAreKept == ResultsSpec /\ ResourceLogSpec => []RecordsKept
BY EachObservationOnce, StreamIsKept, PTL DEF RecordsKept
=============================================================================
