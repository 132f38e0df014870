------------------------------ MODULE RunQueue -------------------------------
(***************************************************************************)
(* The runs table of controlplane/db.py as a queue.  A request is          *)
(* dispatched and then recorded (controlplane/app.py, dispatch.py); with    *)
(* the executor "actions" GitHub starts a run for it, whose first event     *)
(* binds its id to a record, with "worker" the workers of runner/worker.py  *)
(* claim the record and run its stages one after the other.  Runs of        *)
(* GitHub that nobody requested here send events in both modes.             *)
(*                                                                          *)
(* A statement of SQLite is atomic, and so is a request's handler between   *)
(* two awaits with respect to other handlers on the event loop; threads     *)
(* and worker processes interleave with it.  What a stage does is one step. *)
(***************************************************************************)
EXTENDS Naturals, Sequences, SequencesExt, FiniteSets

CONSTANTS
  Requests,      \* what POST /runs/trigger is asked for
  Outside,       \* runs of GitHub that were not requested here
  Workers,       \* processes of runner/worker.py
  Gates,         \* Gates[q]: the gates() a request may get, by its suite, its options
                 \* and the worker's host
  Seconds,       \* the clock, as far as claims are named after it
  MaxWorkerFaults \* bound on crashes of workers and errors of the database

ASSUME RunQueueAssumption ==
  /\ IsFiniteSet(Requests) /\ IsFiniteSet(Outside) /\ IsFiniteSet(Workers)
  /\ Requests \cap Outside = {}
  /\ Gates \in [Requests -> SUBSET [mutations : BOOLEAN, destructive : BOOLEAN]]
  /\ Seconds \subseteq Nat /\ MaxWorkerFaults \in Nat

VARIABLES
  executor,    \* dispatch.executor()
  asked,       \* place of each request
  github,      \* place of each run of GitHub
  runs,        \* the table, by id
  worker,      \* claimed row, place, the run's two gates, has a stage failed?
  faults       \* crashes and errors so far

queueVars == <<executor, asked, github, runs, worker, faults>>

\* A binding is a sequence: empty, the run of GitHub, or the second and the suffix
\* of a claim.  "ended" says how the worker left it: by the last of its stages, early
\* by a failure, or "deserted"; "strewn" what became of the resources it left behind.
Row(gh, status, request) ==
  [gh |-> gh, status |-> status, request |-> request, ended |-> "not", strewn |-> "nothing"]
Idle == [at |-> "poll", row |-> 0, mutations |-> FALSE, destructive |-> FALSE, bad |-> FALSE]

\* "unswept": a lane has been at work and no sweep since; "survived": what a sweep did
\* not get; "barred": what it was not allowed to delete.
Fates == {"nothing", "unswept", "survived", "barred"}

QueueInit ==
  /\ executor \in {"actions", "worker"}
  /\ asked = [q \in Requests |-> "new"]
  /\ github = [g \in Requests \cup Outside |-> "none"]
  /\ runs = <<>>
  /\ worker = [w \in Workers |-> Idle]
  /\ faults = 0

Final == {"done", "failed"}
BoundTo(gh) == {i \in DOMAIN runs : runs[i].gh = gh}
Waiting == {i \in DOMAIN runs : runs[i].gh = <<>> /\ runs[i].status = "dispatched"}
Oldest(S) == CHOOSE i \in S : \A j \in S : i <= j

-----------------------------------------------------------------------------
(* The control plane and GitHub *)

\* trigger_run: dispatch_run fires the workflow, or fails to ...
Trigger(q) ==
  /\ asked[q] = "new"
  /\ asked' = [asked EXCEPT ![q] = "dispatched"]
  /\ IF executor = "worker" THEN UNCHANGED github
     ELSE \/ github' = [github EXCEPT ![q] = "queued"]
          \/ UNCHANGED github
  /\ UNCHANGED <<executor, runs, worker, faults>>

\* ... and create_run records the request either way.
CreateRun(q) ==
  /\ asked[q] = "dispatched"
  /\ asked' = [asked EXCEPT ![q] = "recorded"]
  /\ runs' = Append(runs, Row(<<>>, "dispatched", {q}))
  /\ UNCHANGED <<executor, github, worker, faults>>

OutsideQueued(g) ==
  /\ g \in Outside /\ github[g] = "none"
  /\ github' = [github EXCEPT ![g] = "queued"]
  /\ UNCHANGED <<executor, asked, runs, worker, faults>>

\* attach_run: the table once the run of GitHub has a row.
Attached(g) ==
  CASE BoundTo(<<g>>) # {} -> runs
    [] BoundTo(<<g>>) = {} /\ Waiting # {} /\ executor = "actions" ->
         [runs EXCEPT ![Oldest(Waiting)].gh = <<g>>]
    [] OTHER -> Append(runs, Row(<<g>>, "running", {}))

\* POST /api/ingest/events with a milestone: attach_run, then apply_milestone.
Ingest(g, status) ==
  runs' = [i \in DOMAIN Attached(g) |->
             IF Attached(g)[i].gh = <<g>> THEN [Attached(g)[i] EXCEPT !.status = status]
             ELSE Attached(g)[i]]

\* A run of GitHub begins and ends; each time the event may be lost.
GithubStarts(g) ==
  /\ github[g] = "queued"
  /\ github' = [github EXCEPT ![g] = "running"]
  /\ Ingest(g, "running") \/ UNCHANGED runs
  /\ UNCHANGED <<executor, asked, worker, faults>>

GithubEnds(g) ==
  /\ github[g] = "running"
  /\ github' = [github EXCEPT ![g] = "over"]
  /\ Ingest(g, "done") \/ Ingest(g, "failed") \/ UNCHANGED runs
  /\ UNCHANGED <<executor, asked, worker, faults>>

-----------------------------------------------------------------------------
(* The worker: claim_next *)

\* SELECT ... ORDER BY id LIMIT 1
Look(w) ==
  /\ executor = "worker" /\ worker[w].at = "poll" /\ Waiting # {}
  /\ worker' = [worker EXCEPT ![w] = [Idle EXCEPT !.at = "seen", !.row = Oldest(Waiting)]]
  /\ UNCHANGED <<executor, asked, github, runs, faults>>

\* Mutant of LocalId: no suffix when the second is taken.
LocalIdPlain(t, i) == <<t, 0>>

LocalId(t, i) == IF BoundTo(<<t, 0>>) = {} THEN <<t, 0>> ELSE <<t, i>>

\* Mutant of Claim: the UPDATE does not look again whether the row is free.
ClaimBlind(w) ==
  /\ worker[w].at = "seen"
  /\ \E t \in Seconds :
       runs' = [runs EXCEPT ![worker[w].row].gh = LocalId(t, worker[w].row),
                            ![worker[w].row].status = "running"]
  /\ worker' = [worker EXCEPT ![w].at = "resolve"]
  /\ UNCHANGED <<executor, asked, github, faults>>

\* UPDATE ... WHERE gh_run_id IS NULL AND status = 'dispatched'; the id is taken
\* from the clock, with the row's id behind it if that second is taken.
Claim(w) ==
  /\ worker[w].at = "seen"
  /\ \/ /\ worker[w].row \in Waiting
        /\ \E t \in Seconds :
             runs' = [runs EXCEPT ![worker[w].row].gh = LocalId(t, worker[w].row),
                                  ![worker[w].row].status = "running"]
        /\ worker' = [worker EXCEPT ![w].at = "resolve"]
     \/ /\ worker[w].row \notin Waiting
        /\ worker' = [worker EXCEPT ![w] = Idle]
        /\ UNCHANGED runs
  /\ UNCHANGED <<executor, asked, github, faults>>

-----------------------------------------------------------------------------
(* process_run, stage by stage.  Each ends with a milestone: apply_milestone on *)
(* the worker's row, unless the database raises, and then with main's handler.  *)

Mine(w) == worker[w].row

\* The stage at w is over: the row and the worker become R and V, or the write of
\* the milestone raises after what the stage has done in the account.
Stage(w, R, V) ==
  \/ /\ runs' = [runs EXCEPT ![Mine(w)] = R]
     /\ worker' = [worker EXCEPT ![w] = V]
     /\ UNCHANGED <<executor, asked, github, faults>>
  \/ /\ faults < MaxWorkerFaults
     /\ faults' = faults + 1
     /\ runs' = [runs EXCEPT ![Mine(w)].strewn = R.strewn]
     /\ worker' = [worker EXCEPT ![w].at = "raised"]
     /\ UNCHANGED <<executor, asked, github>>

WorkerAt(w, place) == [worker[w] EXCEPT !.at = place]

\* The suite, the options of this run and the profile are resolved: two gates, neither
\* of which need imply the other (validate_suite, which wants both, is not asked).
Resolve(w) ==
  /\ worker[w].at = "resolve"
  /\ \/ Stage(w, [runs[Mine(w)] EXCEPT !.status = "failed", !.ended = "early"], Idle)
     \/ \E q \in runs[Mine(w)].request : \E g \in Gates[q] :
          Stage(w, runs[Mine(w)], [WorkerAt(w, "validate") EXCEPT !.mutations = g.mutations,
                                                                  !.destructive = g.destructive])

\* gates()["sweep"], behind the lanes and without them
AfterLanes(w) ==
  IF worker[w].mutations \/ worker[w].destructive THEN "sweep" ELSE "dashboard"

\* Mutant of Validate: the run is dropped when the validation fails.
ValidateDrops(w) ==
  /\ worker[w].at = "validate"
  /\ \/ Stage(w, runs[Mine(w)], WorkerAt(w, "smoke"))
     \/ Stage(w, runs[Mine(w)], Idle)

\* The offline guard: if it fails no lane is run, the sweep and the dashboard are.
Validate(w) ==
  /\ worker[w].at = "validate"
  /\ \/ Stage(w, runs[Mine(w)], WorkerAt(w, "smoke"))
     \/ Stage(w, runs[Mine(w)],
              [WorkerAt(w, AfterLanes(w)) EXCEPT !.bad = TRUE])

\* The read-only stage.
Smoke(w) ==
  /\ worker[w].at = "smoke"
  /\ \E rc \in BOOLEAN :
       Stage(w, runs[Mine(w)],
             [WorkerAt(w, IF worker[w].mutations THEN "adopt" ELSE AfterLanes(w))
                EXCEPT !.bad = rc])

\* Lane A, behind up to three attempts to provision; without filters there is
\* neither lane.
Adopt(w) ==
  /\ worker[w].at = "adopt"
  /\ \E rc \in BOOLEAN :
       Stage(w, [runs[Mine(w)] EXCEPT !.strewn = "unswept"],
             [WorkerAt(w, "vpc-crud") EXCEPT !.bad = @ \/ rc])

NoLanes(w) ==
  /\ worker[w].at = "adopt"
  /\ worker' = [worker EXCEPT ![w] = [WorkerAt(w, "sweep") EXCEPT !.bad = TRUE]]
  /\ UNCHANGED <<executor, asked, github, runs, faults>>

\* The teardown of the shared VPC, then lane B.
VpcCrud(w) ==
  /\ worker[w].at = "vpc-crud"
  /\ \E rc \in BOOLEAN :
       Stage(w, [runs[Mine(w)] EXCEPT !.strewn = "unswept"],
             [WorkerAt(w, "sweep") EXCEPT !.bad = @ \/ rc])

\* What the reconciler makes of what the run has left: without SCP_ALLOW_DESTRUCTIVE its
\* main returns at once; else it may fail or be cut off by its timeout.
Swept(w) ==
  CASE runs[Mine(w)].strewn = "nothing" -> {"nothing"}
    [] runs[Mine(w)].strewn # "nothing" /\ worker[w].destructive -> {"nothing", "survived"}
    [] runs[Mine(w)].strewn # "nothing" /\ ~worker[w].destructive -> {"barred"}

\* Mutant of Sweep: a run with a failed stage is not swept.
SweepGood(w) ==
  /\ worker[w].at = "sweep"
  /\ \E fate \in IF worker[w].bad THEN {runs[Mine(w)].strewn} ELSE Swept(w) :
       Stage(w, [runs[Mine(w)] EXCEPT !.strewn = fate], WorkerAt(w, "dashboard"))

\* The reconciler, whatever became of the stages; nobody looks at how it ended.
Sweep(w) ==
  /\ worker[w].at = "sweep"
  /\ \E fate \in Swept(w) :
       Stage(w, [runs[Mine(w)] EXCEPT !.strewn = fate], WorkerAt(w, "dashboard"))

\* Mutant of Dashboard: what follows the last milestone can raise.
DashboardRaises(w) ==
  /\ worker[w].at = "dashboard"
  /\ \E rc \in BOOLEAN, after \in {Idle, WorkerAt(w, "raised")} :
       Stage(w, [runs[Mine(w)] EXCEPT !.status = IF worker[w].bad \/ rc THEN "failed" ELSE "done",
                                      !.ended = "stages"], after)

\* The probes of the conformance stage, which make nothing, then dashboard, snapshot and
\* the last milestone.
Dashboard(w) ==
  /\ worker[w].at = "dashboard"
  /\ \E rc \in BOOLEAN :
       Stage(w, [runs[Mine(w)] EXCEPT !.status = IF worker[w].bad \/ rc THEN "failed" ELSE "done",
                                      !.ended = "stages"], Idle)

Desert(w) == runs' = [runs EXCEPT ![Mine(w)].ended = "deserted"]

\* main: _fail_run; a second error is swallowed and the row stays as it is.
Raised(w) ==
  /\ worker[w].at = "raised"
  /\ worker' = [worker EXCEPT ![w] = Idle]
  /\ \/ /\ runs' = [runs EXCEPT ![Mine(w)].status = "failed", ![Mine(w)].ended = "early"]
        /\ UNCHANGED faults
     \/ /\ faults < MaxWorkerFaults
        /\ faults' = faults + 1
        /\ Desert(w)
  /\ UNCHANGED <<executor, asked, github>>

Crash(w) ==
  /\ worker[w].at \notin {"poll", "seen", "dead"} /\ faults < MaxWorkerFaults
  /\ faults' = faults + 1
  /\ worker' = [worker EXCEPT ![w] = [Idle EXCEPT !.at = "dead"]]
  /\ Desert(w)
  /\ UNCHANGED <<executor, asked, github>>

\* docker-compose: restart: unless-stopped
Restart(w) ==
  /\ worker[w].at = "dead"
  /\ worker' = [worker EXCEPT ![w] = Idle]
  /\ UNCHANGED <<executor, asked, github, runs, faults>>

-----------------------------------------------------------------------------
Work(w) ==
  \/ Look(w) \/ Claim(w) \/ Resolve(w) \/ Validate(w) \/ Smoke(w)
  \/ Adopt(w) \/ NoLanes(w) \/ VpcCrud(w) \/ Sweep(w) \/ Dashboard(w)
  \/ Raised(w) \/ Restart(w)

QueueNext ==
  \/ \E q \in Requests : Trigger(q) \/ CreateRun(q)
  \/ \E g \in Requests \cup Outside : OutsideQueued(g) \/ GithubStarts(g) \/ GithubEnds(g)
  \/ \E w \in Workers : Work(w) \/ Crash(w)

QueueSpec == QueueInit /\ [][QueueNext]_queueVars

\* The stages have timeouts, the worker's container is restarted.
QueueGoesOn == \E w \in Workers : Work(w)
QueueFairSpec == QueueSpec /\ WF_queueVars(QueueGoesOn)

-----------------------------------------------------------------------------
(* Properties *)

WorkerPlaces == {"poll", "seen", "resolve", "validate", "smoke", "adopt", "vpc-crud",
            "sweep", "dashboard", "raised", "dead"}

\* Types; and the ids are UNIQUE.
RunQueueTypeOK ==
  /\ executor \in {"actions", "worker"}
  /\ asked \in [Requests -> {"new", "dispatched", "recorded"}]
  /\ github \in [Requests \cup Outside -> {"none", "queued", "running", "over"}]
  /\ \A i \in DOMAIN runs :
       /\ runs[i].status \in {"dispatched", "running"} \cup Final
       /\ runs[i].request \subseteq Requests
       /\ runs[i].ended \in {"not", "early", "stages", "deserted"}
       /\ runs[i].strewn \in Fates
       /\ runs[i].gh # <<>> => BoundTo(runs[i].gh) = {i}
  /\ worker \in [Workers -> [at : WorkerPlaces, row : 0 .. Len(runs), mutations : BOOLEAN,
                            destructive : BOOLEAN, bad : BOOLEAN]]
  /\ faults \in 0 .. MaxWorkerFaults

\* A run is executed by one worker, which nobody else has the row of, and it is
\* "running" until that worker says otherwise; no request is taken from the workers'
\* queue for a run of GitHub.
ClaimedOnce ==
  /\ \A w \in Workers :
       worker[w].at \notin {"poll", "seen", "dead"} =>
         /\ runs[Mine(w)].status = "running"
         /\ \A v \in Workers \ {w} :
              worker[v].at \notin {"poll", "seen", "dead"} => Mine(v) # Mine(w)
  /\ executor = "worker" =>
       \A g \in Outside : \A i \in BoundTo(<<g>>) : runs[i].request = {}

\* Once a record is bound, it stays bound to that run; once it says how its run
\* ended, it says so for good, whatever still raises in the worker.
RecordsSettle ==
  [][\A i \in DOMAIN runs :
       /\ runs[i].gh # <<>> => runs'[i].gh = runs[i].gh
       /\ runs[i].status \in Final => runs'[i].status = runs[i].status]_queueVars

\* "runs even after failed stages so nothing strands": a run that got through its stages
\* leaves nothing in the account that a sweep has not been over, whichever stage failed.
\* What a sweep fails to delete, or may not delete, is left all the same.
SweptInTheEnd ==
  \A i \in DOMAIN runs : runs[i].ended = "stages" => runs[i].strewn # "unswept"

\* A request in the workers' queue is executed to its end; only a run whose worker
\* crashed, or could not write its failure, is left at "running".
QueueServed ==
  [](executor = "worker" =>
       <>(\A i \in DOMAIN runs :
            runs[i].request # {} => runs[i].status \in Final \/ runs[i].ended = "deserted"))
=============================================================================
