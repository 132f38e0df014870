---------------------------- MODULE PostRunRescans ----------------------------
(***************************************************************************)
(* tools/console2_server.py, _post_run_rescans and _resume_pending_rescans: *)
(* after a LIVE run has ended a thread counts what is left in the account   *)
(* at three offsets, keeps the counts with the run and in a file beside its *)
(* log, and raises an alert when a later count exceeds the first.  A server *)
(* that comes back takes up what is missing.  One run that is over; others  *)
(* may be in flight, which makes a count useless and is recorded instead.   *)
(***************************************************************************)
EXTENDS Integers, Sequences, SequencesExt, FiniteSets

CONSTANTS
  Offsets,        \* _RESCAN_OFFSETS_S, ascending from 0
  Grace,          \* _RESCAN_RESUME_GRACE_S
  MaxWall,        \* bound on the time since the run's end
  MaxLate,        \* bound on resources that appear late
  MaxLosses       \* bound on deaths of the server and writes that fail

ASSUME RescanAssumption ==
  /\ IsInjective(Offsets) /\ ToSet(Offsets) \subseteq 0 .. MaxWall
  /\ Grace \in Nat /\ MaxWall \in Nat /\ MaxLate \in Nat /\ MaxLosses \in Nat

VARIABLES
  wall,       \* time since the run's end
  swept,      \* rec["end_sweep_ran"], known to the process that ran it
  busy,       \* _other_run_active()
  owned,      \* resources of the owner in the account
  memory,     \* rec["rescans"] and rec["late_alert"]
  sidecar,    \* the same in <run>.rescans.json
  scanner,    \* the thread: offsets to come, place, base of the comparison
  running,    \* is the server up?
  forgone,    \* offsets a resume has found too old
  losses      \* deaths and failed writes so far

rescanVars == <<wall, swept, busy, owned, memory, sidecar, scanner, running, forgone, losses>>

None == -1   \* no number: an entry that was skipped or failed, no base yet
Nothing == [rescans |-> <<>>, alert |-> FALSE]
NoScanner == [todo |-> <<>>, at |-> "none", base |-> None]

RescanInit ==
  /\ wall = 0 /\ swept \in BOOLEAN /\ busy = FALSE /\ owned = 0
  /\ memory = Nothing /\ sidecar = Nothing
  /\ scanner = [NoScanner EXCEPT !.at = "due"]
  /\ running = TRUE /\ forgone = {} /\ losses = 0

Done(rescans) == {rescans[i].offset : i \in DOMAIN rescans}
\* The entries that hold a count, and the first of them.
WithCount(rescans) == {i \in DOMAIN rescans : rescans[i].total # None}
FirstCount(rescans, i) == i \in WithCount(rescans) /\ \A j \in WithCount(rescans) : i <= j

-----------------------------------------------------------------------------
\* Mutant of BaseTotal: a resumed thread compares with its own first count.
BaseTotalForgotten(rescans) == None

\* The base of the comparison: the first count among those kept.
BaseTotal(rescans) ==
  IF WithCount(rescans) = {} THEN None ELSE rescans[CHOOSE i \in WithCount(rescans) : FirstCount(rescans, i)].total

\* _post_run_rescans begins, for the end of the run or for a resume.
Begins(offsets) ==
  scanner' = [todo |-> offsets, at |-> "next", base |-> BaseTotal(memory.rescans)]

Scheduled ==
  /\ running /\ scanner.at = "due"
  /\ Begins(Offsets)
  /\ UNCHANGED <<wall, swept, busy, owned, memory, sidecar, running, forgone, losses>>

\* _persist_rescans writes all there is, or fails in silence.
Keep(m) ==
  /\ memory' = m
  /\ \/ sidecar' = m /\ UNCHANGED losses
     \/ losses < MaxLosses /\ losses' = losses + 1 /\ UNCHANGED sidecar

Entry(total) == [offset |-> Head(scanner.todo), total |-> total]
Advance(base) ==
  scanner' = [todo |-> Tail(scanner.todo), base |-> base,
              at |-> IF Len(scanner.todo) = 1 THEN "over" ELSE "next"]

\* The offset at the head of the list, when it is time for it: +0 is left out after
\* a sweep, any is while another run is in flight.
Skip ==
  /\ running /\ scanner.at = "next" /\ wall >= Head(scanner.todo)
  /\ busy \/ (Head(scanner.todo) = 0 /\ swept)
  /\ Keep([memory EXCEPT !.rescans = Append(@, Entry(None))])
  /\ Advance(scanner.base)
  /\ UNCHANGED <<wall, swept, busy, owned, running, forgone>>

ScanBegins ==
  /\ running /\ scanner.at = "next" /\ wall >= Head(scanner.todo)
  /\ ~busy /\ ~(Head(scanner.todo) = 0 /\ swept)
  /\ scanner' = [scanner EXCEPT !.at = "scan"]
  /\ UNCHANGED <<wall, swept, busy, owned, memory, sidecar, running, forgone, losses>>

\* The count, compared with the base and kept; or no count, when LISTs failed.
ScanEnds ==
  /\ running /\ scanner.at = "scan"
  /\ \E total \in {owned, None} :
       LET late == total # None /\ scanner.base # None /\ total > scanner.base
       IN  /\ Keep([rescans |-> Append(memory.rescans, Entry(total)),
                    alert |-> memory.alert \/ late])
           /\ Advance(IF scanner.base = None THEN total ELSE scanner.base)
  /\ UNCHANGED <<wall, swept, busy, owned, running, forgone>>

-----------------------------------------------------------------------------
(* The surroundings *)

TimeGoesOn ==
  /\ wall < MaxWall
  /\ wall' = wall + 1
  /\ UNCHANGED <<swept, busy, owned, memory, sidecar, scanner, running, forgone, losses>>

OthersComeAndGo ==
  /\ running
  /\ busy' = ~busy
  /\ UNCHANGED <<wall, swept, owned, memory, sidecar, scanner, running, forgone, losses>>

Appears ==
  /\ owned < MaxLate
  /\ owned' = owned + 1
  /\ UNCHANGED <<wall, swept, busy, memory, sidecar, scanner, running, forgone, losses>>

ConsoleDies ==
  /\ running /\ losses < MaxLosses
  /\ running' = FALSE /\ losses' = losses + 1
  /\ memory' = Nothing /\ scanner' = NoScanner
  /\ swept' = FALSE /\ busy' = FALSE
  /\ UNCHANGED <<wall, owned, sidecar, forgone>>

\* What _resume_pending_rescans takes up: what is missing and young enough.
Missing == SelectSeq(Offsets, LAMBDA o : o \notin Done(sidecar.rescans))
\* Mutant of Resumed: offsets whose time has come already are dropped.
ResumedFuture == SelectSeq(Missing, LAMBDA o : o > wall)

Resumed == SelectSeq(Missing, LAMBDA o : wall - o < Grace)

\* _rehydrate_one reads the file, then the resume.
ConsoleStarts ==
  /\ ~running
  /\ running' = TRUE
  /\ memory' = sidecar
  /\ forgone' = forgone \cup {o \in ToSet(Missing) : wall - o >= Grace}
  /\ scanner' = IF Resumed = <<>> THEN NoScanner
                ELSE [todo |-> Resumed, at |-> "next", base |-> BaseTotal(sidecar.rescans)]
  /\ UNCHANGED <<wall, swept, busy, owned, sidecar, losses>>

-----------------------------------------------------------------------------
RescanNext ==
  \/ Scheduled \/ Skip \/ ScanBegins \/ ScanEnds
  \/ TimeGoesOn \/ OthersComeAndGo \/ Appears \/ ConsoleDies \/ ConsoleStarts

RescanSpec == RescanInit /\ [][RescanNext]_rescanVars

\* Threads run and time passes; a server need not come back.
RescanGoesOn == Scheduled \/ Skip \/ ScanBegins \/ ScanEnds
RescanFairSpec ==
  RescanSpec /\ WF_rescanVars(RescanGoesOn) /\ WF_rescanVars(TimeGoesOn)

-----------------------------------------------------------------------------
\* What the file says never hides a late resource: if a count in it exceeds the
\* first one, the alert is in it too, through deaths between any two counts and
\* writes that failed.
LateAlertKept ==
  \A i, j \in WithCount(sidecar.rescans) :
    FirstCount(sidecar.rescans, i) /\ sidecar.rescans[j].total > sidecar.rescans[i].total
      => sidecar.alert

\* If the server stays up in the end, every offset has got an entry once the thread
\* was started, or was too old when the server came back.
EveryOffset ==
  <>[](running /\ scanner.at # "due") => <>[](ToSet(Offsets) \subseteq Done(memory.rescans) \cup forgone)
=============================================================================
