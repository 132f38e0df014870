------------------------------ MODULE MCPlatform ------------------------------
(***************************************************************************)
(* Instances for TLC of the parts of the control plane that share no state: *)
(* the console's engine, the runs table with its workers, the schedules,    *)
(* the rescans after a run and the sweep.  A behaviour is one of a single   *)
(* part, the others staying as they began.                                  *)
(***************************************************************************)
EXTENDS MCConsoleEngine, PlatformTypes, CronScheduler, PostRunRescans, MCReconciler

CONSTANTS
  q1, q2, x1, w1, w2              \* requests, a run of GitHub, workers

VARIABLE part

parts == <<part, consoleVars, queueVars, cronVars, rescanVars, sweepVars>>

\* A request for what creates and, with or without the gate for it, deletes; and one
\* that only reads.
Gate(m, d) == [mutations |-> m, destructive |-> d]
MCGates ==
  q1 :> {Gate(TRUE, TRUE), Gate(TRUE, FALSE)} @@ q2 :> {Gate(FALSE, FALSE)}

MCSchedules == <<"daily", "hourly">>
MCWindows == "daily" :> {2} @@ "hourly" :> {1, 3}
MCOffsets == <<0, 1, 3>>

PlatformInit ==
  /\ part \in {"console", "queue", "cron", "rescans", "sweep"}
  /\ ConsoleInit /\ QueueInit /\ CronInit /\ RescanInit /\ SweepInit
  \* The parts that stay have one beginning.
  /\ part # "console" => left = [stops |-> 0, restarts |-> 0, failures |-> 0, stale |-> 1]
  /\ part # "queue" => executor = "worker"
  /\ part # "rescans" => ~swept
  /\ part # "sweep" => /\ mode.blast /\ ~mode.force
                       /\ {i \in Items : account[i] = "there"} = {vol, key, grp}

PlatformNext ==
  /\ UNCHANGED part
  /\ \/ /\ part = "console" /\ ConsoleNext
        /\ UNCHANGED <<queueVars, cronVars, rescanVars, sweepVars>>
     \/ /\ part = "queue" /\ QueueNext
        /\ UNCHANGED <<consoleVars, cronVars, rescanVars, sweepVars>>
     \/ /\ part = "cron" /\ CronNext
        /\ UNCHANGED <<consoleVars, queueVars, rescanVars, sweepVars>>
     \/ /\ part = "rescans" /\ RescanNext
        /\ UNCHANGED <<consoleVars, queueVars, cronVars, sweepVars>>
     \/ /\ part = "sweep" /\ SweepNext
        /\ UNCHANGED <<consoleVars, queueVars, cronVars, rescanVars>>

\* A behaviour has one part, and the fairness of that part.
PlatformGoesOn ==
  \/ /\ part = "console" /\ GoesOn
     /\ UNCHANGED <<part, queueVars, cronVars, rescanVars, sweepVars>>
  \/ /\ part = "queue" /\ QueueGoesOn
     /\ UNCHANGED <<part, consoleVars, cronVars, rescanVars, sweepVars>>
  \/ /\ part = "rescans" /\ RescanGoesOn
     /\ UNCHANGED <<part, consoleVars, queueVars, cronVars, sweepVars>>
PlatformTime ==
  /\ part = "rescans" /\ TimeGoesOn
  /\ UNCHANGED <<part, consoleVars, queueVars, cronVars, sweepVars>>

PlatformSpec ==
  /\ PlatformInit /\ [][PlatformNext]_parts
  /\ WF_parts(PlatformGoesOn) /\ WF_parts(PlatformTime)

-----------------------------------------------------------------------------
\* Whatever waits is served: a run in the console's queue is started or stopped, a
\* request in the workers' queue is executed to its end, and every offset after a
\* run is scanned or was too old when the server came back.
WorkIsServed == QueueDrains /\ QueueServed /\ EveryOffset
=============================================================================
