---------------------------- MODULE ConsoleEngine ----------------------------
(***************************************************************************)
(* tools/console2_server.py with the routes of controlplane/console_api.py *)
(* and the launches of controlplane/scheduler.py: runs that are admitted   *)
(* under the account's VPC cap or queued, each in a thread of the server   *)
(* that provisions, starts pytest in a session of its own, cleans up after *)
(* it and sweeps; an operator who stops one run or all; the forced cleanup *)
(* of the account; and a server that dies, loses its memory and rebuilds   *)
(* its records from the run logs, while pytest goes on.                    *)
(*                                                                         *)
(* The kind of each run is fixed by the constants.  What a reconciler      *)
(* subprocess deletes, and the post-run rescans, are in other modules.     *)
(***************************************************************************)
EXTENDS Naturals, Sequences, SequencesExt, FiniteSets

CONSTANTS
  Live, Sim, Forced,  \* runs: LIVE lifecycle runs, simulations, forced cleanups
  Peak,               \* Peak[r]: rec["peak_vpcs"]
  CapVpcs,            \* _vpc_cap()
  Scenarios           \* what the behaviours start from, and their bounds: runs to
                      \* be launched (the others are over), VPCs of others, how
                      \* often the operator stops, the server restarts and a
                      \* thread fails, how far the cached VPC count is off

Admitted == Live \cup Sim
Runs == Admitted \cup Forced

Bounds == [stops : Nat, restarts : Nat, failures : Nat, stale : Nat]

ASSUME ConsoleAssumption ==
  /\ IsFiniteSet(Runs) /\ Forced \cap Admitted = {} /\ Live \cap Sim = {}
  /\ CapVpcs \in Nat
  /\ Peak \in [Admitted -> 0 .. CapVpcs]
  /\ \A sc \in Scenarios :
       /\ sc.runs \subseteq Runs /\ sc.foreign \in Nat /\ sc.left \in Bounds

VARIABLES
  rec,        \* _RUNS: the record of a run and the place of its thread
  disk,       \* what outlives the server: pytest process, resources, shared VPC, log
  reserved,   \* _RESERVED: the runs in flight
  queue,      \* _QUEUE
  baseline,   \* _BASELINE
  ticker,     \* _ADMIT_TICKER_ON, and the launches that have still to ensure it
  op,         \* the operator's abort: runs still to visit and the place in _abort_run
  left,       \* stops, restarts, failures still to come; how far the count is off
  cron,       \* has the scheduler's thread passed _active_live_run()?
  server,     \* is the server up, and did it ever die?
  foreign     \* VPCs of others in the account

admission == <<reserved, queue, baseline, ticker>>
around == <<op, left, cron, server, foreign>>
consoleVars == <<rec, disk, admission, around>>

NewRecord == [status |-> "none", at |-> "none", abort |-> FALSE, kill |-> FALSE]
NewRemains == [tree |-> FALSE, vpc |-> FALSE, log |-> "none"]
EarlierRecord == [NewRecord EXCEPT !.status = "done", !.at = "over"]
NoOne == [queued |-> {}, running |-> {}, at |-> "next", run |-> {}]

ConsoleInit ==
  /\ \E sc \in Scenarios :
       /\ rec = [r \in Runs |-> IF r \in sc.runs THEN NewRecord ELSE EarlierRecord]
       /\ left = sc.left
       /\ foreign = sc.foreign
  /\ disk = [r \in Runs |-> NewRemains]
  /\ reserved = {} /\ queue = <<>>
  /\ baseline = 0
  /\ ticker = [on |-> FALSE, owed |-> {}]
  /\ op = NoOne
  /\ cron = FALSE
  /\ server = [up |-> TRUE, died |-> FALSE]

-----------------------------------------------------------------------------
(* Records, counts and the admission *)

To(r, place) == rec' = [rec EXCEPT ![r].at = place]

\* _active_live_run
LiveActive == \E r \in Live : rec[r].status \in {"running", "queued"}

Account == foreign + Cardinality({r \in Live : disk[r].vpc})

\* _account_vpc_count: the number is up to 12 s old, older when the LIST failed.
Counts == {n \in 0 .. Account + left.stale : Account <= n + left.stale}

\* The sum of the peaks, as a number of slots of the runs.
Slots(R) == Cardinality({slot \in R \X (1 .. CapVpcs) : slot[2] <= Peak[slot[1]]})

\* The baseline after the resync that each entry of the admission begins with.
Resynced(n) == IF reserved = {} THEN n ELSE baseline

\* With nothing reserved nobody reads it again before the next resync: it is kept
\* at 0 then.
Base(base, R) == IF R = {} THEN 0 ELSE base

Fits(base, R, r) ==
  \/ Peak[r] = 0
  \/ base + Slots(R) + Peak[r] <= CapVpcs

\* How many of the queue fit, from its head on: nobody overtakes in it.
Ready(base) ==
  LET before(i) == reserved \cup {queue[j] : j \in 1 .. i - 1}
      fit(k) == \A i \in 1 .. k : Fits(base, before(i), queue[i])
  IN  CHOOSE k \in 0 .. Len(queue) :
        fit(k) /\ (k = Len(queue) \/ ~fit(k + 1))

\* _try_admit_queue, for a caller that leaves the records as in R.
AdmitQueue(n, R) ==
  LET base == Resynced(n)
      k == Ready(base)
      ready == {queue[i] : i \in 1 .. k}
  IN  /\ baseline' = Base(base, reserved \cup ready)
      /\ reserved' = reserved \cup ready
      /\ queue' = SubSeq(queue, k + 1, Len(queue))
      /\ rec' = [r \in Runs |->
                   IF r \in ready
                   THEN [R[r] EXCEPT !.status = "running", !.at = "begin"] ELSE R[r]]

\* Mutant of Admit: the cap is looked at before the lock is taken, so that the
\* run counts on what was reserved when it asked.
AdmitUnlocked(r, n) ==
  /\ server.up /\ rec[r].at = "admit"
  /\ baseline' = n
  /\ reserved' = reserved \cup {r}
  /\ rec' = [rec EXCEPT ![r].at = "begin"]
  /\ UNCHANGED <<disk, queue, ticker, around>>

\* _admit_or_queue: a run that fits starts at once, past a queue if there is one.
Admit(r, n) ==
  /\ server.up /\ rec[r].at = "admit"
  /\ IF Fits(Resynced(n), reserved, r)
     THEN /\ reserved' = reserved \cup {r}
          /\ rec' = [rec EXCEPT ![r].status = "running", ![r].at = "begin"]
          /\ UNCHANGED <<queue, ticker>>
     ELSE /\ queue' = Append(queue, r)
          /\ rec' = [rec EXCEPT ![r].status = "queued", ![r].at = "waiting"]
          /\ ticker' = [ticker EXCEPT !.owed = @ \cup {r}]
          /\ UNCHANGED reserved
  /\ baseline' = Base(Resynced(n), reserved')
  /\ UNCHANGED <<disk, around>>

\* Mutant of EnsureTicker: nobody looks at the queue between two ends of runs.
EnsureNothing(r) ==
  /\ server.up /\ r \in ticker.owed
  /\ ticker' = [ticker EXCEPT !.owed = @ \ {r}]
  /\ UNCHANGED <<rec, disk, reserved, queue, baseline, around>>

\* _ensure_admit_ticker, after the launch has left the lock.
EnsureTicker(r) ==
  /\ server.up /\ r \in ticker.owed
  /\ ticker' = [on |-> TRUE, owed |-> ticker.owed \ {r}]
  /\ UNCHANGED <<rec, disk, reserved, queue, baseline, around>>

\* A round of the ticker: it ends when nothing is queued.  A round comes 20 s
\* after the other, the cached count lives 12 s: the count is fresh, unless the
\* LIST fails.
TickerEnds ==
  /\ server.up /\ ticker.on /\ queue = <<>>
  /\ ticker' = [ticker EXCEPT !.on = FALSE]
  /\ UNCHANGED <<rec, disk, reserved, queue, baseline, around>>

Tick(n) ==
  /\ server.up /\ ticker.on /\ queue # <<>>
  /\ AdmitQueue(n, rec)
  /\ UNCHANGED <<disk, ticker, around>>

-----------------------------------------------------------------------------
(* Launches *)

NewRun(r) == rec' = [rec EXCEPT ![r].status = "running", ![r].at = "admit"]

\* POST /api/run: _active_live_run and _new_rec with nothing in between for
\* other requests; a simulation is not looked at.
StartRun(r) ==
  /\ server.up /\ rec[r].at = "none"
  /\ r \in Admitted /\ (r \in Live => ~LiveActive)
  /\ NewRun(r)
  /\ UNCHANGED <<disk, admission, around>>

\* launch_suite_run in the scheduler's thread: the check ...
CronChecks ==
  /\ server.up /\ ~cron /\ ~LiveActive
  /\ \E r \in Live : rec[r].at = "none"
  /\ cron' = TRUE
  /\ UNCHANGED <<rec, disk, admission, op, left, server, foreign>>

\* ... and the new record, if a request has not been faster.
CronStarts(r) ==
  /\ server.up /\ cron /\ r \in Live /\ rec[r].at = "none"
  /\ cron' = FALSE
  /\ NewRun(r)
  /\ UNCHANGED <<disk, admission, op, left, server, foreign>>

\* POST /api/cleanup and POST /testing/resources/cleanup: refused while a run
\* is reserved or queued, then a record and a thread without admission.
StartCleanup(r) ==
  /\ server.up /\ rec[r].at = "none"
  /\ r \in Forced
  /\ reserved = {} /\ queue = <<>>
  /\ rec' = [rec EXCEPT ![r].status = "running", ![r].at = "force"]
  /\ disk' = [disk EXCEPT ![r].log = "head"]
  /\ UNCHANGED <<admission, around>>

-----------------------------------------------------------------------------
(* The thread of a run: _run_worker, _simulate_worker, _cleanup_worker *)

At(r, place) == server.up /\ rec[r].at = place

\* The log is opened and emptied, then _provision_shared if the selection
\* needs it; it may bring nothing up.
Provision(r) ==
  /\ At(r, "begin") /\ r \in Live
  /\ \E v \in BOOLEAN : disk' = [disk EXCEPT ![r].vpc = v, ![r].log = "head"]
  /\ To(r, "check")
  /\ UNCHANGED <<admission, around>>

\* A stop during provisioning is looked at once, and then pytest is started.
CheckAbort(r) ==
  /\ At(r, "check") /\ rec[r].abort
  /\ To(r, "judge")
  /\ UNCHANGED <<disk, admission, around>>

Spawn(r) ==
  /\ At(r, "check") /\ ~rec[r].abort
  /\ disk' = [disk EXCEPT ![r].tree = TRUE]
  /\ To(r, "spawned")
  /\ UNCHANGED <<admission, around>>

\* rec["_proc"] = proc
HoldProc(r) ==
  /\ At(r, "spawned")
  /\ To(r, "wait")
  /\ UNCHANGED <<disk, admission, around>>

\* The launches and the marks of an abort are a few instructions and at most
\* one LIST; no pytest is started and over while one of them is in between.
Quick ==
  /\ \A s \in Runs : rec[s].at # "admit"
  /\ cron => \A s \in Live : rec[s].at # "none"
  /\ op.at # "dequeue"

\* pytest, with or without a server, ends by itself with a summary, or was missing
\* and has done nothing.
PytestEnds(r) ==
  /\ disk[r].tree /\ Quick
  /\ \E log \in {"summary", "missing"} :
       disk' = [disk EXCEPT ![r].tree = FALSE, ![r].log = log]
  /\ UNCHANGED <<rec, admission, around>>

\* _kill_proc_tree, in a thread of its own: no summary.
Killed(r) ==
  /\ server.up /\ rec[r].kill /\ disk[r].tree
  /\ disk' = [disk EXCEPT ![r].tree = FALSE]
  /\ rec' = [rec EXCEPT ![r].kill = FALSE]
  /\ UNCHANGED <<admission, around>>

\* proc.wait() returns, and the handle is dropped.
Waited(r) ==
  /\ At(r, "wait") /\ ~disk[r].tree
  /\ To(r, "judge")
  /\ UNCHANGED <<disk, admission, around>>

Over(r, status) == rec' = [rec EXCEPT ![r].status = status, ![r].at = "release"]

\* What the thread makes of it: abort_requested is read for the last time.
\* Unless the runner was missing, the run's own leftovers are reaped and
\* _teardown_shared is called; the VPC is gone later (VpcGoes).
Judge(r) ==
  /\ At(r, "judge")
  /\ \/ /\ rec[r].abort
        /\ To(r, "own sweep")
        /\ disk' = [disk EXCEPT ![r].log = "abort"]
     \/ /\ ~rec[r].abort /\ disk[r].log = "missing"
        /\ Over(r, "done")
        /\ UNCHANGED disk
     \/ /\ ~rec[r].abort /\ disk[r].log # "missing"
        /\ To(r, "guard")
        /\ UNCHANGED disk
  /\ UNCHANGED <<admission, around>>

\* Mutant of GuardSweep: runs in flight or queued do not count.
GuardNothing(r) ==
  /\ At(r, "guard")
  /\ To(r, "end sweep") \/ Over(r, "done")
  /\ UNCHANGED <<disk, admission, around>>

\* The guard of the sweep at the end of a run: no other run in flight or queued,
\* and something was created.  It is read under the lock, the sweep runs outside.
GuardSweep(r) ==
  /\ At(r, "guard")
  /\ \/ reserved \subseteq {r} /\ queue = <<>> /\ To(r, "end sweep")
     \/ Over(r, "done")
  /\ UNCHANGED <<disk, admission, around>>

\* The sweep of an abort, for the run's own resources, or that at the end of a run,
\* for whatever the owner tag marks, comes back, and the status is final.
SweepEnds(r) ==
  /\ \/ At(r, "own sweep") /\ Over(r, "aborted")
     \/ At(r, "end sweep") /\ Over(r, "done")
  /\ UNCHANGED <<disk, admission, around>>

ForceEnds(r) ==
  /\ At(r, "force")
  /\ rec' = [rec EXCEPT ![r].status = "done", ![r].at = "over"]
  /\ UNCHANGED <<disk, admission, around>>

\* Anything that raises ends the thread's work where it is.
Fails(r) ==
  /\ server.up /\ rec[r].at \in {"begin", "check", "judge", "guard"}
  /\ left.failures > 0 /\ left' = [left EXCEPT !.failures = @ - 1]
  /\ Over(r, "error")
  /\ UNCHANGED <<disk, admission, op, cron, server, foreign>>

\* Mutant of Simulate: a simulation that ends does not say so to the admission.
SimulateKeeps(r) ==
  /\ At(r, "begin") /\ r \in Sim
  /\ rec' = [rec EXCEPT ![r].status = "done", ![r].at = "over"]
  /\ disk' = [disk EXCEPT ![r].log = "head"]
  /\ UNCHANGED <<admission, around>>

Simulate(r) ==
  /\ At(r, "begin") /\ r \in Sim
  /\ Over(r, "done") \/ Over(r, "error")
  /\ disk' = [disk EXCEPT ![r].log = "head"]
  /\ UNCHANGED <<admission, around>>

\* _on_run_finish: the slots come back, then the queue is looked at.
Release(r) ==
  /\ At(r, "release")
  /\ reserved' = reserved \ {r}
  /\ baseline' = Base(baseline, reserved')
  /\ To(r, "readmit")
  /\ UNCHANGED <<disk, queue, ticker, around>>

Readmit(r, n) ==
  /\ At(r, "readmit")
  /\ AdmitQueue(n, [rec EXCEPT ![r].at = "over"])
  /\ UNCHANGED <<disk, ticker, around>>

-----------------------------------------------------------------------------
(* The operator: _abort_run, for one run or for all of _abort_all *)

Queued == {r \in Runs : rec[r].status = "queued"}
Running == {r \in Runs : rec[r].status = "running"}
Press == left.stops > 0 /\ left' = [left EXCEPT !.stops = @ - 1]

AbortOne(r) ==
  /\ server.up /\ op = NoOne /\ Press
  /\ r \in Queued \cup (Running \cap Live)
  /\ op' = [NoOne EXCEPT !.queued = Queued \cap {r}, !.running = Running \cap {r}]
  /\ UNCHANGED <<rec, disk, admission, cron, server, foreign>>

\* The targets are taken at once, those that are queued come first.
AbortAll ==
  /\ server.up /\ op = NoOne /\ Queued # {} /\ Press
  /\ op' = [NoOne EXCEPT !.queued = Queued, !.running = Running]
  /\ UNCHANGED <<rec, disk, admission, cron, server, foreign>>

ToVisit(r) ==
  /\ server.up /\ op.at = "next"
  /\ r \in IF op.queued # {} THEN op.queued ELSE op.running

Visited(r) == [op EXCEPT !.queued = @ \ {r}, !.running = @ \ {r}]

\* A run that is queued when it is looked at ...
AbortQueued(r) ==
  /\ ToVisit(r) /\ rec[r].status = "queued"
  /\ op' = [Visited(r) EXCEPT !.at = "dequeue", !.run = {r}]
  /\ UNCHANGED <<rec, disk, admission, left, cron, server, foreign>>

\* ... leaves the queue if it is still there, and is marked whatever has become
\* of it in the meantime.
Dequeue(r) ==
  /\ server.up /\ op.at = "dequeue" /\ op.run = {r}
  /\ \/ r \notin ToSet(queue) /\ UNCHANGED queue
     \/ \E i \in DOMAIN queue : queue[i] = r /\ queue' = RemoveAt(queue, i)
  /\ rec' = [rec EXCEPT ![r].status = "aborted", ![r].abort = TRUE,
                        ![r].at = IF @ = "waiting" THEN "over" ELSE @]
  /\ disk' = [disk EXCEPT ![r].log = "abort"]
  /\ op' = [op EXCEPT !.at = "readmit", !.run = {}]
  /\ UNCHANGED <<reserved, baseline, ticker, left, cron, server, foreign>>

AbortReadmits(n) ==
  /\ server.up /\ op.at = "readmit"
  /\ AdmitQueue(n, rec)
  /\ op' = [op EXCEPT !.at = "next"]
  /\ UNCHANGED <<disk, ticker, left, cron, server, foreign>>

\* A run that is running: abort_requested, and a thread that kills pytest if there
\* is a handle.
AbortRunning(r) ==
  /\ ToVisit(r) /\ rec[r].status = "running" /\ r \in Live
  /\ rec' = [rec EXCEPT ![r].abort = TRUE, ![r].kill = @ \/ rec[r].at = "wait"]
  /\ op' = Visited(r)
  /\ UNCHANGED <<disk, admission, left, cron, server, foreign>>

\* Any other answers 409.
AbortRefused(r) ==
  /\ ToVisit(r) /\ rec[r].status # "queued" /\ ~(rec[r].status = "running" /\ r \in Live)
  /\ op' = Visited(r)
  /\ UNCHANGED <<rec, disk, admission, left, cron, server, foreign>>

-----------------------------------------------------------------------------
(* The server and the account *)

\* The threads and the memory are gone; pytest, in its own session, is not.
ServerDies ==
  /\ server.up /\ left.restarts > 0
  /\ server' = [up |-> FALSE, died |-> TRUE]
  /\ left' = [left EXCEPT !.restarts = @ - 1]
  /\ reserved' = {} /\ queue' = <<>>
  /\ baseline' = 0
  /\ ticker' = [on |-> FALSE, owed |-> {}]
  /\ op' = NoOne /\ cron' = FALSE
  /\ UNCHANGED <<rec, disk, foreign>>

\* _rehydrate_one: the status is what the log says; a run without a log is
\* forgotten.  The records of utilities and simulations count as done.
Rehydrated(r) ==
  IF rec[r].at = "none" THEN rec[r]
  ELSE [NewRecord EXCEPT
          !.at = "over",
          !.status = CASE disk[r].log = "none" -> "none"
                       [] r \notin Live -> "done"
                       [] disk[r].log = "abort" -> "aborted"
                       [] disk[r].log = "summary" -> "done"
                       [] OTHER -> "unknown"]

ServerStarts ==
  /\ ~server.up
  /\ server' = [server EXCEPT !.up = TRUE]
  /\ rec' = [r \in Runs |-> Rehydrated(r)]
  /\ UNCHANGED <<disk, admission, op, left, cron, foreign>>

\* VPCs of others go, and so do a run's own once its thread is done with it:
\* the deletion is through, or somebody has cleaned up after a run that left one.
ForeignGoes ==
  /\ foreign > 0
  /\ foreign' = foreign - 1
  /\ UNCHANGED <<rec, disk, admission, op, left, cron, server>>

VpcGoes(r) ==
  /\ disk[r].vpc /\ ~disk[r].tree
  /\ rec[r].at \notin {"check", "judge"}
  /\ disk' = [disk EXCEPT ![r].vpc = FALSE]
  /\ UNCHANGED <<rec, admission, around>>

-----------------------------------------------------------------------------
Thread(r) ==
  \/ EnsureTicker(r)
  \/ Provision(r) \/ CheckAbort(r) \/ Spawn(r) \/ HoldProc(r)
  \/ Waited(r) \/ Judge(r) \/ GuardSweep(r) \/ SweepEnds(r)
  \/ ForceEnds(r) \/ Simulate(r) \/ Release(r)
  \/ \E n \in Counts : Admit(r, n) \/ Readmit(r, n)

Operator ==
  \/ \E n \in Counts : AbortReadmits(n)
  \/ \E r \in Runs : AbortQueued(r) \/ Dequeue(r) \/ AbortRunning(r) \/ AbortRefused(r)

ConsoleNext ==
  \/ \E r \in Runs : StartRun(r) \/ CronStarts(r) \/ StartCleanup(r)
  \/ CronChecks
  \/ \E r \in Runs : Thread(r) \/ Fails(r)
  \/ \E r \in Runs : PytestEnds(r) \/ Killed(r) \/ VpcGoes(r)
  \/ TickerEnds \/ \E n \in Counts : Tick(n)
  \/ AbortAll \/ \E r \in Runs : AbortOne(r)
  \/ Operator
  \/ ServerDies \/ ServerStarts \/ ForeignGoes

ConsoleSpec == ConsoleInit /\ [][ConsoleNext]_consoleVars

\* What goes on by itself: the threads of the server are scheduled, the LIST of the
\* ticker succeeds now and then, pytest ends (every request and poll of the engine
\* has a timeout), deletions come through, and VPCs that block the account are
\* cleaned up.  Each happens a bounded number of times in a scenario, so that it is
\* enough to ask that something of it happens as long as something can.
GoesOn ==
  \/ \E r \in Runs : Thread(r) \/ PytestEnds(r) \/ CronStarts(r) \/ VpcGoes(r)
  \/ Tick(Account) \/ Operator \/ ForeignGoes

ConsoleFairSpec == ConsoleSpec /\ WF_consoleVars(GoesOn)

-----------------------------------------------------------------------------
(* Properties *)

Places == {"none", "admit", "waiting", "begin", "check", "spawned",
           "wait", "judge", "own sweep", "guard", "end sweep", "force",
           "release", "readmit", "over"}

\* Types; the queue holds each waiting run once, and none that is in flight.
ConsoleTypeOK ==
  /\ rec \in [Runs -> [status : {"none", "running", "queued", "done", "aborted",
                                 "error", "unknown"},
                       at : Places, abort : BOOLEAN, kill : BOOLEAN]]
  /\ disk \in [Runs -> [tree : BOOLEAN, vpc : BOOLEAN,
                        log : {"none", "head", "summary", "missing", "abort"}]]
  /\ queue \in Seq(Admitted) /\ IsInjective(queue)
  /\ reserved \subseteq Admitted \ ToSet(queue)
  /\ baseline \in Nat /\ foreign \in Nat
  /\ ticker \in [on : BOOLEAN, owed : SUBSET Runs]
  /\ op \in [queued : SUBSET Runs, running : SUBSET Runs, run : SUBSET Runs,
             at : {"next", "dequeue", "readmit"}]
  /\ cron \in BOOLEAN
  /\ server \in [up : BOOLEAN, died : BOOLEAN]
  /\ left \in Bounds

\* The promise of the admission: the peaks of the runs in flight fit beside the
\* VPCs that were in the account when the first of them came.
ReservedFit == Slots(reserved) > 0 => baseline + Slots(reserved) <= CapVpcs

\* Whatever way a thread ends, by its result, a stop, an error or a simulation,
\* its slots come back, and no run works without them.
InFlight == {r \in Admitted : rec[r].at \notin {"none", "admit", "waiting", "force",
                                                "readmit", "over"}}
ReservedExact == server.up => reserved = InFlight

\* The admission counts right: its reservations are those of the runs in flight, and
\* fit beside what was there.
Reservations == ReservedFit /\ ReservedExact

\* The account-wide sweep at the end of a run never meets another run's pytest,
\* as long as the server has not been restarted: no order of launches from the
\* page and the schedule, queueing and stops brings that about.
EndSweepAlone ==
  ~server.died =>
    \A r, s \in Live : r # s /\ rec[r].at = "end sweep" => ~disk[s].tree

\* What the guard of POST /api/cleanup is for: no account-wide forced sweep runs
\* beside a run's pytest.
SweepSparesRuns ==
  \A r \in Forced, s \in Live : rec[r].at = "force" => ~disk[s].tree

\* A queued run is started or stopped in the end: the ticker sees to it when
\* nothing else in flight would look at the queue.
QueueDrains == []<>(\A r \in Admitted : rec[r].status = "queued" => ~server.up)
=============================================================================
