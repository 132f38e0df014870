---------------------------- MODULE CommandChannel ----------------------------
(***************************************************************************)
(* The way of an intervention command from the operator to the lifecycles: *)
(* a table of commands on the server (controlplane/db.py, or the local     *)
(* queue of console2_server for a run that the console started), and       *)
(* core/commands.py in each worker process of the run, which polls the     *)
(* table, keeps what it got in a cache and acknowledges what it acts on.   *)
(* The engine asks at four checkpoints: at the boundary before a step for  *)
(* an abort, then for a skip; in each round of a wait for stop_polling;    *)
(* and in each round of a retry ladder for any of them, which it does not  *)
(* consume.  A poll may fail, an acknowledgement may be lost, and a worker *)
(* may crash and be replaced by a new process.                             *)
(***************************************************************************)
EXTENDS Integers, Sequences, FiniteSets, FiniteSetsExt

CONSTANTS
  Workers,      \* the worker processes of the run
  Lifecycles,   \* the lifecycles they run, each in one process
  Nobody,       \* no lifecycle, also the target of an untargeted command
  Stores,       \* where the commands of a run are kept: "db", "local"
  MaxRows       \* bound: commands in the table

ASSUME NobodyAssumption == Nobody \notin Lifecycles
ASSUME StoresAssumption == Stores \subseteq {"db", "local"} /\ MaxRows \in Nat

VARIABLES
  store,      \* where this run's commands are kept
  run,        \* status of the run record: "dispatched", "running" or "done"
  rows,       \* the commands: [action, target, acked], the index is the id
  cache,      \* per worker: ids in _pending
  consumed,   \* per worker: _consumed
  abort,      \* per worker: _abort
  cur,        \* per worker: the lifecycle it runs, or Nobody
  pc,         \* per lifecycle: where it is, or how it ended: in its own way,
              \* skipped by a command, failed by a wait it left, or crashed
  effects,    \* history, per worker: how often it acted on a command
  heard,      \* history: workers that polled a running run with an abort in it
  broken      \* history: lifecycles that left a wait or a ladder on a command

client == <<cache, consumed, abort, effects>>
server == <<store, run>>
vars == <<server, rows, client, cur, pc, heard, broken>>

Ended == {"own", "skipped", "failed", "crashed"}
Ids == 1..MaxRows

Init ==
  /\ store \in Stores
  /\ run = IF store = "local" THEN "running" ELSE "dispatched"
  /\ rows = <<>>
  /\ cache = [w \in Workers |-> {}]
  /\ consumed = [w \in Workers |-> {}]
  /\ abort = [w \in Workers |-> FALSE]
  /\ cur = [w \in Workers |-> Nobody]
  /\ pc = [l \in Lifecycles |-> "queued"]
  /\ effects = [w \in Workers |-> [i \in Ids |-> 0]]
  /\ heard = {}
  /\ broken = {}

-----------------------------------------------------------------------------
(* The server *)

Row(action, target) == [action |-> action, target |-> target, acked |-> FALSE]

\* POST /runs/{id}/commands: one command of any kind.  A skip needs a target.
AddCommand ==
  /\ store = "db" /\ Len(rows) < MaxRows
  /\ \E row \in {Row("abort_run", Nobody), Row("stop_polling", Nobody)}
                \cup {Row(a, l) : a \in {"skip_scenario", "stop_polling"}, l \in Lifecycles} :
       rows' = Append(rows, row)
  /\ UNCHANGED <<store, run, client, cur, pc, heard, broken>>

\* Mutant of SkipPair: a skip by itself, which no wait listens to.
SkipAlone(l) == <<Row("skip_scenario", l)>>

SkipPair(l) == <<Row("stop_polling", l), Row("skip_scenario", l)>>

\* The console's skip_lifecycle of a run that is running.
SkipLifecycle(l) ==
  /\ store = "local" /\ run = "running" /\ Len(rows \o SkipPair(l)) <= MaxRows
  /\ rows' = rows \o SkipPair(l)
  /\ UNCHANGED <<store, run, client, cur, pc, heard, broken>>

\* The run-start milestone; it may come late, or never.
RunStart ==
  /\ run = "dispatched"
  /\ run' = "running"
  /\ UNCHANGED <<store, rows, client, cur, pc, heard, broken>>

\* The last stage of the run: no lifecycle is left.
RunDone ==
  /\ run # "done" /\ \A l \in Lifecycles : pc[l] \in Ended
  /\ run' = "done"
  /\ UNCHANGED <<store, rows, client, cur, pc, heard, broken>>

Unacked == {i \in DOMAIN rows : ~rows[i].acked}
Aborts == {i \in DOMAIN rows : rows[i].action = "abort_run"}

\* Mutant of Pending: the first worker's acknowledgement hides the abort.
PendingUnacked == Unacked

\* pending_commands: an acknowledged abort is listed as long as the run runs.
Pending == Unacked \cup (IF run = "running" THEN Aborts ELSE {})

-----------------------------------------------------------------------------
(* core/commands.py in worker w *)

\* check(): the answer of a poll without what this process has acted on; or the
\* cache, between two polls and when the poll fails.
Polled(w) == Pending \ consumed[w]
Views(w) == {cache[w], Polled(w)}

Matching(v, action, targets) ==
  {i \in v : rows[i].action = action /\ rows[i].target \in targets}

\* What the worker got to know of in a poll with result v.
Hears(w, v) ==
  heard' = IF v = Polled(w) /\ run = "running" /\ Aborts # {}
           THEN heard \cup {w} ELSE heard

NothingFor(w, v) ==
  /\ cache' = [cache EXCEPT ![w] = v]
  /\ UNCHANGED <<rows, consumed, effects>>

\* Mutant of Consume: the id is not remembered, only taken out of the cache.
ConsumeForgets(w, v, i) ==
  /\ cache' = [cache EXCEPT ![w] = v \ {i}]
  /\ effects' = [effects EXCEPT ![w][i] = IF @ < 2 THEN @ + 1 ELSE @]
  /\ rows' \in {rows, [rows EXCEPT ![i].acked = TRUE]}
  /\ UNCHANGED consumed

\* _consume: the id is remembered, and acknowledged unless the request fails.
Consume(w, v, i) ==
  /\ cache' = [cache EXCEPT ![w] = v \ {i}]
  /\ consumed' = [consumed EXCEPT ![w] = @ \cup {i}]
  /\ effects' = [effects EXCEPT ![w][i] = IF @ < 2 THEN @ + 1 ELSE @]
  /\ rows' \in {rows, [rows EXCEPT ![i].acked = TRUE]}

-----------------------------------------------------------------------------
(* The engine in worker w, with lifecycle l = cur[w] *)

At(w, place) == cur[w] # Nobody /\ pc[cur[w]] = place
Go(w, place) ==
  /\ pc' = [pc EXCEPT ![cur[w]] = place]
  /\ cur' = IF place \in Ended THEN [cur EXCEPT ![w] = Nobody] ELSE cur

\* Mutant of Take: a lifecycle that already ran, or runs, is taken again.
TakeAgain(w, l) ==
  /\ cur[w] = Nobody
  /\ cur' = [cur EXCEPT ![w] = l]
  /\ pc' = [pc EXCEPT ![l] = "boundary"]
  /\ UNCHANGED <<server, rows, client, heard, broken>>

\* pytest-xdist hands each lifecycle to one process.
Take(w, l) ==
  /\ cur[w] = Nobody /\ pc[l] = "queued"
  /\ cur' = [cur EXCEPT ![w] = l]
  /\ pc' = [pc EXCEPT ![l] = "boundary"]
  /\ UNCHANGED <<server, rows, client, heard, broken>>

\* should_abort_run: sticky.  The flag answers without a poll.
AbortCheck(w, v) ==
  LET found == Matching(v, "abort_run", {Nobody})
  IN  /\ At(w, "boundary")
      /\ \/ /\ abort[w]
            /\ Go(w, "skipped")
            /\ UNCHANGED <<rows, client, heard>>
         \/ /\ ~abort[w] /\ found # {}
            /\ Consume(w, v, Min(found))
            /\ abort' = [abort EXCEPT ![w] = TRUE]
            /\ Go(w, "skipped")
            /\ Hears(w, v)
         \/ /\ ~abort[w] /\ found = {}
            /\ NothingFor(w, v)
            /\ Go(w, "boundary2")
            /\ Hears(w, v)
            /\ UNCHANGED abort
      /\ UNCHANGED <<server, broken>>

\* should_skip, and then the step: a call, a wait, or a retry ladder.
SkipCheck(w, v) ==
  LET found == Matching(v, "skip_scenario", {cur[w]})
  IN  /\ At(w, "boundary2")
      /\ Hears(w, v)
      /\ \/ /\ found # {}
            /\ Consume(w, v, Min(found))
            /\ Go(w, "skipped")
         \/ /\ found = {}
            /\ NothingFor(w, v)
            /\ \E step \in {"call", "wait", "ladder"} : Go(w, step)
      /\ UNCHANGED <<server, abort, broken>>

\* The step ends by itself: the next one follows, or the lifecycle ends in its own
\* way, as passed, skipped or failed.
StepEnds(w) ==
  /\ cur[w] # Nobody /\ pc[cur[w]] \in {"call", "wait", "ladder"}
  /\ \E result \in {"boundary", "own"} : Go(w, result)
  /\ UNCHANGED <<server, rows, client, heard, broken>>

\* should_stop_polling in a round of a wait.  The wait ends as it would at its
\* deadline: the lifecycle fails if it must be met, and goes on if the step is
\* optional or the wait may end unmet.
WaitRound(w, v) ==
  LET found == Matching(v, "stop_polling", {Nobody, cur[w]})
  IN  /\ At(w, "wait")
      /\ Hears(w, v)
      /\ \/ /\ found # {}
            /\ Consume(w, v, Min(found))
            /\ \E result \in {"failed", "boundary"} : Go(w, result)
            /\ broken' = broken \cup {cur[w]}
         \/ /\ found = {}
            /\ NothingFor(w, v)
            /\ UNCHANGED <<cur, pc, broken>>
      /\ UNCHANGED <<server, abort>>

Interrupts(w, v) ==
  \/ abort[w]
  \/ Matching(v, "abort_run", {Nobody}) # {}
  \/ Matching(v, "skip_scenario", {cur[w]}) # {}
  \/ Matching(v, "stop_polling", {Nobody, cur[w]}) # {}

\* The ladder is left with the refusal it was retrying: a failure or an
\* environmental outcome of a required step, or the group of an optional one.
LeaveLadder(w) ==
  /\ \E result \in {"failed", "skipped", "boundary"} : Go(w, result)
  /\ broken' = broken \cup {cur[w]}

\* Mutant of LadderRound: it uses should_skip, which consumes the command.
LadderConsumes(w, v) ==
  LET found == Matching(v, "skip_scenario", {cur[w]})
  IN  /\ At(w, "ladder") /\ found # {}
      /\ Consume(w, v, Min(found))
      /\ LeaveLadder(w)
      /\ Hears(w, v)
      /\ UNCHANGED <<server, abort>>

\* peek_interrupt in a round of a retry ladder: nothing is consumed.
LadderRound(w, v) ==
  /\ At(w, "ladder")
  /\ IF abort[w] THEN UNCHANGED <<cache, rows, consumed, effects, heard>>
                 ELSE NothingFor(w, v) /\ Hears(w, v)
  /\ IF Interrupts(w, v) THEN LeaveLadder(w) ELSE UNCHANGED <<cur, pc, broken>>
  /\ UNCHANGED <<server, abort>>

\* The process dies: its lifecycle ends with it, and a new process with
\* nothing in its memory takes its place.
Crash(w) ==
  /\ cur[w] # Nobody
  /\ Go(w, "crashed")
  /\ cache' = [cache EXCEPT ![w] = {}]
  /\ consumed' = [consumed EXCEPT ![w] = {}]
  /\ abort' = [abort EXCEPT ![w] = FALSE]
  /\ effects' = [effects EXCEPT ![w] = [i \in Ids |-> 0]]
  /\ heard' = heard \ {w}
  /\ UNCHANGED <<server, rows, broken>>

Checkpoint(w, v) ==
  \/ AbortCheck(w, v) \/ SkipCheck(w, v) \/ WaitRound(w, v) \/ LadderRound(w, v)

Next ==
  \/ AddCommand \/ RunStart \/ RunDone
  \/ \E l \in Lifecycles : SkipLifecycle(l)
  \/ \E w \in Workers :
       \/ \E l \in Lifecycles : Take(w, l)
       \/ \E v \in Views(w) : Checkpoint(w, v)
       \/ StepEnds(w) \/ Crash(w)

Spec == Init /\ [][Next]_vars

\* A call is bounded by its timeout, and a worker that comes to its checkpoints
\* again and again polls with success now and then.  A wait or a ladder need not
\* come to its end (it takes many minutes).
CallEnds(w) == At(w, "call") /\ StepEnds(w)
FairSpec ==
  /\ Spec
  /\ \A w \in Workers :
       /\ WF_vars(CallEnds(w))
       /\ WF_vars(\E v \in Views(w) : Checkpoint(w, v))
       /\ SF_vars(Checkpoint(w, Polled(w)))

-----------------------------------------------------------------------------
(* Properties *)

Commands == [action : {"abort_run", "skip_scenario", "stop_polling"},
             target : Lifecycles \cup {Nobody}, acked : BOOLEAN]

\* A lifecycle is with exactly one worker from the time it is taken to its end.
OneWorkerEach ==
  /\ \A w, x \in Workers : cur[w] = cur[x] /\ cur[w] # Nobody => w = x
  /\ \A l \in Lifecycles :
       pc[l] \in Ended \cup {"queued"} <=> \A w \in Workers : cur[w] # l

\* Types, and which worker has which lifecycle.
TypeOK ==
  /\ store \in Stores /\ run \in {"dispatched", "running", "done"}
  /\ rows \in Seq(Commands) /\ Len(rows) <= MaxRows
  /\ cache \in [Workers -> SUBSET DOMAIN rows]
  /\ consumed \in [Workers -> SUBSET DOMAIN rows]
  /\ abort \in [Workers -> BOOLEAN]
  /\ cur \in [Workers -> Lifecycles \cup {Nobody}]
  /\ pc \in [Lifecycles -> Ended \cup {"queued", "boundary", "boundary2",
                                       "call", "wait", "ladder"}]
  /\ effects \in [Workers -> [Ids -> 0..2]]
  /\ heard \subseteq Workers /\ broken \subseteq Lifecycles
  /\ OneWorkerEach

\* No process acts twice on one command, whatever became of its acknowledgement
\* ("never re-applied even if the server re-sends them").
AppliedOnce == \A w \in Workers : \A i \in DOMAIN rows : effects[w][i] <= 1

\* A skip is acknowledged only by the lifecycle it is for, which ends skipped: no
\* skip that the server takes for done has been used up on something else.
AckMeansSkipped ==
  \A i \in DOMAIN rows :
    rows[i].action = "skip_scenario" /\ rows[i].acked => pc[rows[i].target] = "skipped"

\* A process that has polled since the abort of a running run begins no further
\* step: neither a sibling's acknowledgement nor a later failure of the poll
\* makes it forget.
AbortObeyed ==
  [][\A w \in Workers :
       w \in heard /\ At(w, "boundary") => pc'[cur[w]] \in {"boundary", "skipped", "crashed"}]_vars

\* A lifecycle that runs ends after the console's skip, without its waits having
\* to come to their deadlines: "a long wait is left at once".
Told(l) == store = "local" /\ \E i \in DOMAIN rows : rows[i].target = l
Running(l) == \E w \in Workers : cur[w] = l
SkipEnds == \A l \in Lifecycles : (Told(l) /\ Running(l)) ~> pc[l] \in Ended

\* The console: the wait is left for the step boundary, "and there skip_scenario
\* carries out the teardown and the skip".  So the lifecycle is not reported as
\* failed for the wait that it had to leave.
LeftWaitIsSkipped ==
  \A l \in Lifecycles : store = "local" /\ l \in broken => pc[l] # "failed"

=============================================================================
