------------------------------ MODULE ResultsStore ------------------------------
(***************************************************************************)
(* core/results.py: the workers of a test session append observations to   *)
(* a shard each; after the session merge_worker_shards folds the shards    *)
(* into the canonical file and deletes them; whoever reads, reads both.    *)
(* In the worker's container one session follows another in a directory.   *)
(*                                                                         *)
(* A text is a sequence of observations; CutOff is a line that was cut off,  *)
(* and runs on into what is appended next.                                 *)
(***************************************************************************)
EXTENDS Naturals, Sequences, FiniteSets

CONSTANTS
  Shards,          \* the workers of a session, by number
  Sessions,        \* sessions in one directory
  PerSession,      \* observations of a worker in a session
  MaxMisses        \* bound on files that fail and processes that are ended

ASSUME ResultsAssumption ==
  /\ IsFiniteSet(Shards) /\ Shards \subseteq Nat
  /\ Sessions \in Nat \ {0} /\ {PerSession, MaxMisses} \subseteq Nat

VARIABLES
  session,     \* its number, what is under way (tests, fold, unlink, over), and the
               \* length of the canonical file when the merge opened it
  made,        \* how many observations each worker made in each session
  shard,       \* the text of each shard; an empty one is not there
  canonical,   \* the text of the canonical file
  toDo,        \* shards that are to be folded, or to be deleted
  misses,
  \* History.
  dropped,     \* observations that were not written, or in a shard that was passed over
  stayed       \* observations in shards that a merge did not get to delete

resultsVars == <<session, made, shard, canonical, toDo, misses, dropped, stayed>>

CutOff == <<"torn">>
Seen(text) == {text[i] : i \in DOMAIN text} \ {CutOff}
There == {w \in Shards : shard[w] # <<>>}
Miss == misses < MaxMisses /\ misses' = misses + 1

ResultsInit ==
  /\ session = [number |-> 1, at |-> "tests", from |-> 0]
  /\ made = [w \in Shards |-> [n \in 1..Sessions |-> 0]]
  /\ shard = [w \in Shards |-> <<>>] /\ canonical = <<>>
  /\ toDo = {} /\ misses = 0 /\ dropped = {} /\ stayed = {}

\* record: an observation is appended; or not, when that fails; or in part.
Record(w) ==
  /\ session.at = "tests" /\ made[w][session.number] < PerSession
  /\ made' = [made EXCEPT ![w][session.number] = @ + 1]
  /\ LET o == <<session.number, w, made'[w][session.number]>> IN
       \/ /\ shard' = [shard EXCEPT ![w] = Append(@, o)]
          /\ UNCHANGED <<misses, dropped>>
       \/ /\ Miss
          /\ shard' \in {shard, [shard EXCEPT ![w] = Append(@, CutOff)]}
          /\ dropped' = dropped \cup {o}
  /\ UNCHANGED <<session, canonical, toDo, stayed>>

\* merge_worker_shards, when the tests have ended or were ended.
MergeBegins ==
  /\ session.at = "tests"
  /\ session' = [session EXCEPT !.at = IF There = {} THEN "over" ELSE "fold",
                                !.from = Len(canonical)]
  /\ toDo' = There
  /\ UNCHANGED <<made, shard, canonical, misses, dropped, stayed>>

IsNext(w) == w \in toDo /\ \A v \in toDo : w <= v

\* The next shard is read and written; one that cannot be is passed over.
Fold(w) ==
  /\ session.at = "fold" /\ IsNext(w)
  /\ \/ /\ canonical' = canonical \o shard[w]
        /\ UNCHANGED <<misses, dropped>>
     \/ /\ Miss
        /\ dropped' = dropped \cup Seen(shard[w])
        /\ UNCHANGED canonical
  /\ toDo' = toDo \ {w}
  /\ UNCHANGED <<session, made, shard, stayed>>

\* Mutant of ToUnlink: the shards stay for those who read shards.
ToUnlinkNone == {}

\* All that the merge began with, folded or passed over.
ToUnlink == There

Folded ==
  /\ session.at = "fold" /\ toDo = {}
  /\ session' = [session EXCEPT !.at = "unlink"] /\ toDo' = ToUnlink
  /\ UNCHANGED <<made, shard, canonical, misses, dropped, stayed>>

\* The next shard is deleted; one that cannot be stays.
Unlink(w) ==
  /\ session.at = "unlink" /\ IsNext(w)
  /\ \/ shard' = [shard EXCEPT ![w] = <<>>] /\ UNCHANGED <<misses, stayed>>
     \/ Miss /\ stayed' = stayed \cup Seen(shard[w]) /\ UNCHANGED shard
  /\ toDo' = toDo \ {w}
  /\ UNCHANGED <<session, made, canonical, dropped>>

MergeEnds ==
  /\ session.at = "unlink" /\ toDo = {}
  /\ session' = [session EXCEPT !.at = "over"]
  /\ UNCHANGED <<made, shard, canonical, toDo, misses, dropped, stayed>>

\* The file cannot be written to its end, or the process is gone: of what was folded
\* some part is in the file, and no further shard is deleted.
MergeBreaks ==
  /\ session.at \in {"fold", "unlink"} /\ Miss
  /\ \/ session.at = "unlink" /\ UNCHANGED canonical
     \/ /\ session.at = "fold"
        /\ \E k \in session.from..Len(canonical), rest \in {<<>>, <<CutOff>>} :
             canonical' = SubSeq(canonical, 1, k) \o (IF k < Len(canonical) THEN rest ELSE <<>>)
  /\ session' = [session EXCEPT !.at = "over"] /\ toDo' = {}
  /\ stayed' = stayed \cup UNION {Seen(shard[w]) : w \in Shards}
  /\ UNCHANGED <<made, shard, dropped>>

NextSession ==
  /\ session.at = "over" /\ session.number < Sessions
  /\ session' = [session EXCEPT !.number = @ + 1, !.at = "tests"]
  /\ UNCHANGED <<made, shard, canonical, toDo, misses, dropped, stayed>>

ResultsNext ==
  \/ \E w \in Shards : Record(w) \/ Fold(w) \/ Unlink(w)
  \/ MergeBegins \/ Folded \/ MergeEnds \/ MergeBreaks \/ NextSession

ResultsSpec == ResultsInit /\ [][ResultsNext]_resultsVars

-----------------------------------------------------------------------------
\* _read skips what is no observation: a line that was cut off, with what follows it.
Swallowed(text, i) == i > 1 /\ text[i - 1] = CutOff
Read(text, o) == {i \in DOMAIN text : text[i] = o /\ ~Swallowed(text, i)}
\* Where a reader finds an observation: in the canonical file and in the shards.
Places(o) ==
  ({<<>>} \X Read(canonical, o)) \cup UNION {{<<w>>} \X Read(shard[w], o) : w \in Shards}

Observations ==
  {o \in (1..Sessions) \X Shards \X (1..PerSession) : o[3] <= made[o[2]][o[1]]}
RunOn(o) ==
  \E text \in {canonical} \cup {shard[w] : w \in Shards} :
    \E i \in DOMAIN text : text[i] = o /\ Swallowed(text, i)

\* Between the merges a reader finds every observation once.  One that is not found was
\* never written, was in a shard that a merge could not read, or runs on from a line
\* that was cut off; one that is found more than once was in a shard that a merge did
\* not get to delete, so that the next folded it again.
RecordedOnce ==
  session.at \in {"tests", "over"} =>
    \A o \in Observations :
      /\ Places(o) = {} => o \in dropped \/ RunOn(o)
      /\ (\E p, q \in Places(o) : p # q) => o \in stayed
=============================================================================
