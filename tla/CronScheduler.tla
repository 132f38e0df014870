---------------------------- MODULE CronScheduler ----------------------------
(***************************************************************************)
(* controlplane/scheduler.py: one thread that passes over the schedules    *)
(* table every 30 s, launches a LIVE run for every schedule with a due      *)
(* window, and marks it as fired.  A launch is accepted, refused (heavy,    *)
(* another LIVE run, no such suite) or raises, the database may raise, and  *)
(* the server may die anywhere and come back.                               *)
(***************************************************************************)
EXTENDS Naturals, Sequences, SequencesExt, FiniteSetsExt

CONSTANTS
  Schedules,      \* enabled rows of the table, in the order of their ids: a sequence
  Windows,        \* the times a schedule's cron expression names
  MaxTime,        \* bound on the clock
  MaxCronFaults   \* bound on errors and deaths

ASSUME CronAssumption ==
  /\ Schedules \in Seq(ToSet(Schedules)) /\ IsInjective(Schedules)
  /\ MaxTime \in Nat /\ MaxCronFaults \in Nat
  /\ Windows \in [ToSet(Schedules) -> SUBSET (1 .. MaxTime)]

VARIABLES
  clock,      \* now, for everybody
  start,      \* _PROCESS_START
  alive,      \* is the server up?
  lastFired,  \* schedules.last_fired, 0 if it never was
  pass,       \* the scheduler's pass: its rows still to come, its time, its place
  launched,   \* the windows LIVE runs were launched for, in order
  missed,     \* windows that went by while no server was up
  unmarked,   \* windows launched whose mark_fired raised
  cronFaults  \* errors and deaths so far

cronVars == <<clock, start, alive, lastFired, pass, launched, missed, unmarked, cronFaults>>

Asleep == [todo |-> <<>>, now |-> 0, at |-> "next"]
Each(v) == [s \in ToSet(Schedules) |-> v]

CronInit ==
  /\ clock = 0 /\ start = 0 /\ alive = TRUE
  /\ lastFired = Each(0)
  /\ pass = Asleep
  /\ launched = Each(<<>>) /\ missed = Each({}) /\ unmarked = Each({})
  /\ cronFaults = 0

-----------------------------------------------------------------------------
\* Mutant of Baseline: what was missed while the server was down is caught up.
BaselineFired(s) == lastFired[s]

Baseline(s) == IF lastFired[s] > start THEN lastFired[s] ELSE start

\* _due: the next window after the baseline has passed.
Due(s, now) == {w \in Windows[s] : Baseline(s) < w /\ w <= now}
Window(s, now) == Min(Due(s, now))

\* list_schedules; a pass that finds nothing due changes nothing and is left out.
TickBegins ==
  /\ alive /\ pass = Asleep /\ clock > 0
  /\ \E s \in ToSet(Schedules) : Due(s, clock) # {}
  /\ pass' = [todo |-> Schedules, now |-> clock, at |-> "next"]
  /\ UNCHANGED <<clock, start, alive, lastFired, launched, missed, unmarked, cronFaults>>

\* The row at the head of the pass.
Turn(s) == alive /\ pass.todo # <<>> /\ Head(pass.todo) = s
Onwards == pass' = LET rest == Tail(pass.todo)
                   IN  IF rest = <<>> THEN Asleep ELSE [pass EXCEPT !.todo = rest, !.at = "next"]
Raises == cronFaults < MaxCronFaults /\ cronFaults' = cronFaults + 1 /\ pass' = Asleep

NotDue(s) ==
  /\ Turn(s) /\ pass.at = "next" /\ Due(s, pass.now) = {}
  /\ Onwards
  /\ UNCHANGED <<clock, start, alive, lastFired, launched, missed, unmarked, cronFaults>>

\* launch_suite_run; if it raises, the pass is over for all.
Launch(s) ==
  /\ Turn(s) /\ pass.at = "next" /\ Due(s, pass.now) # {}
  /\ \/ /\ launched' = [launched EXCEPT ![s] = Append(@, Window(s, pass.now))]
        /\ pass' = [pass EXCEPT !.at = "mark"]
        /\ UNCHANGED cronFaults
     \/ /\ pass' = [pass EXCEPT !.at = "record"]
        /\ UNCHANGED <<launched, cronFaults>>
     \/ Raises /\ UNCHANGED launched
  /\ UNCHANGED <<clock, start, alive, lastFired, missed, unmarked>>

\* A launch that was refused leaves a failed row.
RecordRefused(s) ==
  /\ Turn(s) /\ pass.at = "record"
  /\ \/ pass' = [pass EXCEPT !.at = "mark refused"] /\ UNCHANGED cronFaults
     \/ Raises
  /\ UNCHANGED <<clock, start, alive, lastFired, launched, missed, unmarked>>

\* Mutant of MarkFired: the mark does not reach the row.
MarkNothing(s) ==
  /\ Turn(s) /\ pass.at \in {"mark", "mark refused"}
  /\ Onwards
  /\ UNCHANGED <<clock, start, alive, lastFired, launched, missed, unmarked, cronFaults>>

\* mark_fired: with the time it is by now, whatever became of the launch.
MarkFired(s) ==
  /\ Turn(s) /\ pass.at \in {"mark", "mark refused"}
  /\ \/ /\ lastFired' = [lastFired EXCEPT ![s] = clock]
        /\ Onwards
        /\ UNCHANGED <<unmarked, cronFaults>>
     \/ /\ Raises
        /\ unmarked' = IF pass.at = "mark"
                       THEN [unmarked EXCEPT ![s] = @ \cup {Last(launched[s])}] ELSE unmarked
        /\ UNCHANGED lastFired
  /\ UNCHANGED <<clock, start, alive, launched, missed>>

\* The clock; a window that finds no server is missed.
TimePasses ==
  /\ clock < MaxTime
  /\ clock' = clock + 1
  /\ missed' = [s \in ToSet(Schedules) |->
                  IF alive THEN missed[s] ELSE missed[s] \cup (Windows[s] \cap {clock'})]
  /\ UNCHANGED <<start, alive, lastFired, pass, launched, unmarked, cronFaults>>

SchedulerDies ==
  /\ alive /\ cronFaults < MaxCronFaults
  /\ alive' = FALSE /\ pass' = Asleep
  /\ cronFaults' = cronFaults + 1
  /\ UNCHANGED <<clock, start, lastFired, launched, missed, unmarked>>

SchedulerStarts ==
  /\ ~alive
  /\ alive' = TRUE /\ start' = clock
  /\ UNCHANGED <<clock, lastFired, pass, launched, missed, unmarked, cronFaults>>

CronNext ==
  \/ TickBegins \/ TimePasses \/ SchedulerDies \/ SchedulerStarts
  \/ \E s \in ToSet(Schedules) :
       NotDue(s) \/ Launch(s) \/ RecordRefused(s) \/ MarkFired(s)

CronSpec == CronInit /\ [][CronNext]_cronVars

-----------------------------------------------------------------------------
\* A window that went by while no server was up is never launched afterwards,
\* however often the server comes back: the module's promise of no catch-up.
NoCatchUp == \A s \in ToSet(Schedules) : ToSet(launched[s]) \cap missed[s] = {}

\* No window is launched twice, not even when the server dies between the launch
\* and its mark; only a mark that raises lets the next pass launch it again.
FiredOnce ==
  \A s \in ToSet(Schedules) : \A i, j \in DOMAIN launched[s] :
    i # j /\ launched[s][i] = launched[s][j] => launched[s][i] \in unmarked[s]

\* A window is launched at most once, through restarts and through errors between the
\* launch and its mark, and not at all when it had passed before the server came up.
WindowLaunchedOnce == NoCatchUp /\ FiredOnce
=============================================================================
