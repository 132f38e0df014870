----------------------------- MODULE StepRequest -----------------------------
(***************************************************************************)
(* One step of a lifecycle against a gateway that loses answers:           *)
(* engine._run_step over core/http_client.ApiClient.request.  The client   *)
(* tries a request several times; around it _run_step sends it once more   *)
(* after a transport error, once more with another body, again on the      *)
(* rungs of a retry ladder, and in each round of a wait.  The caller takes *)
(* an answer for good if its status is expected and it has no mark.        *)
(***************************************************************************)
EXTENDS Naturals

CONSTANTS
  Steps,        \* the steps to run
  MaxTries,     \* settings.max_retries
  Rungs,        \* "retries" of a step
  MaxRounds,    \* rounds of a wait until its "timeout"
  MaxRefires    \* "max" of a refire

\* What the gateway says: 2xx with the state in its body, 429, 502 to 504, another
\* 5xx, 406 NoSuchVersion, a code of fallback_on_error_code or of
\* retry_on_error_code, 409, 404, or another refusal.
States == {"pending", "ready", "bad", "wedged"}
Refusals ==
  {"busy", "gateway", "error", "version", "variant", "again", "conflict", "gone", "refused"}
Answers == [status : {"ok"}, state : States] \cup [status : Refusals, state : {"none"}]

\* A step: its method, whether the settings allow it, whether it has a second body,
\* what its ladder climbs on, and its wait: none, or the states or statuses that
\* end it (until, until_status), give_up_status, terminal_bad, the states of refire,
\* allow_timeout, and whether a token of the path is unresolved.
ASSUME StepAssumption ==
  /\ MaxTries \in Nat \ {0} /\ {Rungs, MaxRounds, MaxRefires} \subseteq Nat
  /\ \A s \in Steps :
       /\ s.method \in {"GET", "PUT", "DELETE", "POST", "PATCH"}
       /\ {s.allowed, s.variant, s.waits} \subseteq BOOLEAN
       /\ s.ladder \subseteq Refusals
       /\ s.wait.until \subseteq States /\ s.wait.statuses \subseteq Refusals
       /\ s.wait.giveUp \subseteq Refusals /\ s.wait.bad \subseteq States
       /\ s.wait.refire \subseteq States
       /\ {s.wait.lenient, s.wait.unresolved} \subseteq BOOLEAN

\* No scenario has a create or a change that waits, or that climbs on 406.
ASSUME RequestsAssumption ==
  \A s \in Steps : s.method \in {"POST", "PATCH"} => ~s.waits /\ "version" \notin s.ladder

VARIABLES
  step,     \* the step
  place,    \* where in _run_step
  tries,    \* attempts of the request that is going on; 0: none is
  resp,     \* resp
  left,     \* rungs, refires and rounds that are left
  outcome,  \* "going", "raised", "returned", or returned with the mark of
            \* _terminal_bad ("hopeless") or of _poll_timed_out ("late")
  effects,  \* history: how often a POST or PATCH has taken effect, up to 2
  doubts    \* history: why it may have taken effect without an answer

stepVars == <<step, place, tries, resp, left, outcome, effects, doubts>>

Unpinned == MaxTries + 1    \* the attempt without the version header
NonIdempotent == step.method \in {"POST", "PATCH"}

StepInit ==
  /\ step \in Steps
  /\ place = "first" /\ tries = 1
  /\ resp = [status |-> "none", state |-> "none"]
  /\ left = [rungs |-> Rungs, refires |-> MaxRefires, rounds |-> MaxRounds]
  /\ outcome = "going"
  /\ effects = 0 /\ doubts = {}

End(how) ==
  /\ outcome' = how
  /\ place' = "over" /\ tries' = 0
  /\ UNCHANGED <<step, resp, left>>

\* The guard of mutating and of destructive methods.
Guarded ==
  /\ place = "first" /\ tries = 1 /\ ~step.allowed
  /\ End("raised")
  /\ UNCHANGED <<effects, doubts>>

Sending == tries > 0 /\ (place = "first" => step.allowed)

\* The request takes effect or not, and leaves a doubt if its answer does not say.
TakesEffect(yes, doubt) ==
  /\ effects' = IF yes /\ NonIdempotent /\ effects < 2 THEN effects + 1 ELSE effects
  /\ doubts' = IF NonIdempotent THEN doubts \cup doubt ELSE doubts

Returns(a) ==
  /\ resp' = a
  /\ tries' = 0
  /\ place' = IF place \in {"first", "again"} THEN "fallback" ELSE place
  /\ UNCHANGED <<step, left, outcome>>

TriesAgain ==
  /\ tries < MaxTries
  /\ tries' = tries + 1
  /\ UNCHANGED <<step, place, resp, left, outcome>>

\* An answer: 429 and 502 to 504 are tried again whatever the method, a refused
\* version once without the header.
Answered(a) ==
  /\ Sending
  /\ \E yes \in BOOLEAN :
       /\ a.status = "ok" => yes
       /\ a.status \notin {"ok", "gateway", "error"} => ~yes
       /\ TakesEffect(yes, {a.status} \cap {"gateway", "error"})
  /\ IF a.status \in {"busy", "gateway"} /\ tries < MaxTries
       THEN TriesAgain
       ELSE \/ Returns(a)
            \/ /\ a.status = "version" /\ tries <= MaxTries
               /\ tries' = Unpinned
               /\ UNCHANGED <<step, place, resp, left, outcome>>

\* Mutant of RetriesException: every method is tried again after an exception.
RetriesAnyException == tries < MaxTries

\* NO_RETRY_ON_EXCEPTION
RetriesException == tries < MaxTries /\ ~NonIdempotent

\* Mutant of SentOnceMore: a read timeout is a blip like any other.
SentAfterAny(exc) == place = "first" /\ exc # "other"

\* What _run_step sends once more: not after an error of another class, nor a POST
\* or PATCH whose answer was only too late.
SentOnceMore(exc) ==
  place = "first" /\ exc # "other" /\ ~(NonIdempotent /\ exc = "timeout")

\* No answer: the gateway was not reached, the connection broke under the request,
\* the answer was too late, or another exception of requests.
NoAnswer(exc) ==
  /\ Sending
  /\ \E yes \in BOOLEAN :
       /\ exc = "unreached" => ~yes
       /\ TakesEffect(yes, {exc} \ {"unreached"})
  /\ IF tries = Unpinned THEN Returns([status |-> "version", state |-> "none"])
     ELSE IF RetriesException THEN TriesAgain
     ELSE IF SentOnceMore(exc)
       THEN /\ place' = "again" /\ tries' = 1
            /\ UNCHANGED <<step, resp, left, outcome>>
       ELSE End("raised")

Deciding(where) == place = where /\ tries = 0
Sends == tries' = 1 /\ UNCHANGED <<step, resp, outcome, effects, doubts>>
GoesTo(where) == place' = where /\ UNCHANGED <<step, tries, resp, left, outcome, effects, doubts>>
Ends(how) == End(how) /\ UNCHANGED <<effects, doubts>>

\* fallback_on_error_code: the other body, once.
Fallback ==
  /\ Deciding("fallback")
  /\ IF step.variant /\ resp.status = "variant"
       THEN place' = "varied" /\ Sends /\ UNCHANGED left
       ELSE GoesTo("ladder")
Varied == Deciding("varied") /\ GoesTo("ladder")

\* A rung of the ladder, unless the operator wants the lifecycle to stop.
Climbs == resp.status \in step.ladder /\ left.rungs > 0
Rung ==
  /\ Deciding("ladder") /\ Climbs
  /\ \/ Sends /\ left' = [left EXCEPT !.rungs = @ - 1] /\ UNCHANGED place
     \/ GoesTo("decide")
LadderOver == Deciding("ladder") /\ ~Climbs /\ GoesTo("decide")

Waits ==
  /\ Deciding("decide")
  /\ IF step.waits /\ ~step.wait.unresolved THEN GoesTo("wait") ELSE Ends("returned")

ForStatus == step.wait.statuses # {}
Met == IF ForStatus THEN resp.status \in step.wait.statuses ELSE resp.state \in step.wait.until
GivenUp == resp.status \in step.wait.giveUp
Hopeless == ~ForStatus /\ resp.state \in step.wait.bad \ step.wait.refire

WaitOver == Deciding("wait") /\ (GivenUp \/ Met) /\ Ends("returned")
NoHope == Deciding("wait") /\ ~GivenUp /\ ~Met /\ Hopeless /\ Ends("hopeless")

\* A round: a wedged resource gets its refire (its outcome is not looked at), then
\* the request is sent again.
Round ==
  /\ Deciding("wait") /\ ~GivenUp /\ ~Met /\ ~Hopeless /\ left.rounds > 0
  /\ LET fires == left.refires > 0 /\ resp.state \in step.wait.refire
     IN  left' = [left EXCEPT !.rounds = @ - 1, !.refires = IF fires THEN @ - 1 ELSE @]
  /\ Sends /\ UNCHANGED place

\* Mutant of GiveWaitUp: a wait that is left returns its answer as it is.
LeaveUnmarked ==
  /\ Deciding("wait")
  /\ Ends("returned")

\* The deadline (at any round but the first) or stop_polling: not ready is marked,
\* unless the wait has a refire, may end unmet, is for the end of its resource, or
\* the last answer does not tell.
GiveWaitUp ==
  /\ Deciding("wait")
  /\ \/ left.rounds < MaxRounds
     \/ ~GivenUp /\ ~Met /\ ~Hopeless
  /\ LET unknown == resp.status \in {"busy", "gateway", "error"}
         exempt == \/ step.wait.refire # {} \/ step.wait.lenient
                   \/ unknown \/ "gone" \in step.wait.statuses
     IN  Ends(IF Met \/ exempt THEN "returned" ELSE "late")

Exceptions == {"unreached", "broken", "timeout", "other"}
StepNext ==
  \/ Guarded
  \/ \E a \in Answers : Answered(a)
  \/ \E exc \in Exceptions : NoAnswer(exc)
  \/ Fallback \/ Varied \/ Rung \/ LadderOver
  \/ Waits \/ WaitOver \/ NoHope \/ Round \/ GiveWaitUp

StepSpec == StepInit /\ [][StepNext]_stepVars

-----------------------------------------------------------------------------
\* A POST or PATCH takes effect twice only after an answer of the gateway that left
\* it open, or a connection that broke: never because an answer came too late,
\* through all the places that send again (run 643b: a key created twice, of which
\* the second name was refused and the first could not be torn down).
MadeOnce ==
  NonIdempotent /\ effects > 1 => doubts \cap {"gateway", "error", "broken"} # {}

\* The caller takes the answer for good: an unmarked 2xx.
Passes == outcome = "returned" /\ resp.status = "ok"
WaitsForState == step.waits /\ ~step.wait.unresolved /\ ~ForStatus

\* A wait for a state that may not end unmet passes only on a resource that has it,
\* whatever ends it: deadline, stop, error state, lost answers.  "Subsequent steps
\* must not go on on a resource that is not ready."  (Waits with a refire apart.)
PassedIsReady ==
  Passes /\ WaitsForState /\ step.wait.refire = {} /\ ~step.wait.lenient
    => resp.state \in step.wait.until

\* The waits with a refire are let off "since the timeout is their success", and
\* "every wait for a creation keeps the gate": so a wait for a state passes only
\* on a resource that has it, with a refire or without.
RefiredIsReady ==
  Passes /\ WaitsForState /\ ~step.wait.lenient => resp.state \in step.wait.until

\* Every step comes to an end.
StepOver == outcome # "going"
=============================================================================
