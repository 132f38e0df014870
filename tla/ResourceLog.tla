------------------------------ MODULE ResourceLog ------------------------------
(***************************************************************************)
(* core/oplog.py: the lifecycles of a process, one to a thread, put their  *)
(* events into one buffer; who finds it long enough takes it and stores it *)
(* as one object.  There is no lock.  A thread loses the interpreter only  *)
(* in a call, so that a swap of the buffer is one step, but a list that    *)
(* was looked up may be another's batch when the event is appended.        *)
(***************************************************************************)
EXTENDS Naturals, Sequences, FiniteSets

CONSTANTS
  Emitters,        \* threads; a process has some of them
  PerLifecycle,    \* events of a thread
  FlushEvery,      \* _FLUSH_EVERY
  MaxOutages,      \* bound on failures of the object storage and of its client
  MaxClock         \* bound on milliseconds

ASSUME ResourceLogAssumption ==
  IsFiniteSet(Emitters) /\ {PerLifecycle, FlushEvery, MaxOutages, MaxClock} \subseteq Nat

VARIABLES
  lists,     \* the lists there have been, as sets of events
  buffer,    \* _RES_BUF, which of them
  seq,       \* _RES_SEQ
  clock,     \* time.time() in milliseconds
  objects,   \* what is stored: key, list and its events by then
  emitter,   \* each thread: where it is, how many events it made, the list it looked up
  outages,
  \* History.
  unstored,  \* batches that were taken and not stored
  wiped,     \* lists that were the buffer when an error emptied it
  sent       \* all that was ever stored

logVars == <<lists, buffer, seq, clock, objects, emitter, outages, unstored, wiped, sent>>

Outage == outages < MaxOutages /\ outages' = outages + 1
At(e, place) == emitter[e].at = place
Moves(e, place) == emitter' = [emitter EXCEPT ![e].at = place]
NewBuffer == lists' = Append(lists, {}) /\ buffer' = Len(lists) + 1

ResourceLogInit ==
  /\ lists = <<{}>> /\ buffer = 1 /\ seq = 0 /\ clock = 0 /\ outages = 0
  /\ objects = {} /\ unstored = {} /\ wiped = {} /\ sent = {}
  /\ \E E \in SUBSET Emitters \ {{}} :
       emitter = [e \in E |-> [at |-> "step", made |-> 0, list |-> 1]]

\* emit_resource: the list is looked up, then the event made, which takes calls.
LookUp(e) ==
  /\ At(e, "step") /\ emitter[e].made < PerLifecycle
  /\ emitter' = [emitter EXCEPT ![e].at = "append", ![e].list = buffer]
  /\ UNCHANGED <<lists, buffer, seq, clock, objects, outages, unstored, wiped, sent>>

AppendEvent(e) ==
  /\ At(e, "append")
  /\ LET n == emitter[e].made + 1 IN
       /\ lists' = [lists EXCEPT ![emitter[e].list] = @ \cup {<<e, n>>}]
       /\ emitter' = [emitter EXCEPT ![e].at = "look", ![e].made = n]
  /\ UNCHANGED <<buffer, seq, clock, objects, outages, unstored, wiped, sent>>

\* The buffer is long enough, or old enough; the last event, the end of the
\* lifecycle, is followed by a flush in any case.
Made(e) == emitter[e].made = PerLifecycle
Look(e) ==
  /\ At(e, "look")
  /\ \/ Moves(e, "flush")
     \/ Cardinality(lists[buffer]) < FlushEvery /\ ~Made(e) /\ Moves(e, "step")
  /\ UNCHANGED <<lists, buffer, seq, clock, objects, outages, unstored, wiped, sent>>

\* Mutant of Swap: the batch is taken and the buffer goes on to be the same list.
SwapNothing(e) ==
  emitter' = [emitter EXCEPT ![e].at = "client", ![e].list = buffer] /\ UNCHANGED <<lists, buffer>>

\* batch, _RES_BUF = _RES_BUF, []
Swap(e) == emitter' = [emitter EXCEPT ![e].at = "client", ![e].list = buffer] /\ NewBuffer

\* flush_resources
Flush(e) ==
  /\ At(e, "flush")
  /\ IF lists[buffer] = {} THEN Moves(e, "step") /\ UNCHANGED <<lists, buffer>> ELSE Swap(e)
  /\ UNCHANGED <<seq, clock, objects, outages, unstored, wiped, sent>>

\* A client is made; an error there leaves the batch, and empties the buffer.
MakeClient(e) ==
  /\ At(e, "client")
  /\ \/ Moves(e, "key") /\ seq' = seq + 1
        /\ UNCHANGED <<lists, buffer, outages, unstored, wiped>>
     \/ /\ Outage /\ Moves(e, "step") /\ NewBuffer
        /\ unstored' = unstored \cup {emitter[e].list} /\ wiped' = wiped \cup {buffer}
        /\ UNCHANGED seq
  /\ UNCHANGED <<clock, objects, sent>>

\* The key is made of the time, the process and the sequence, as it is by now; what
\* is stored is the batch as it is by now, over what has the key.  It may fail.
Key == <<clock, seq>>
Store(e) ==
  /\ At(e, "key") /\ Moves(e, "step")
  /\ \/ /\ LET l == emitter[e].list
                o == [key |-> Key, list |-> l, batch |-> lists[l]]
            IN  objects' = {p \in objects : p.key # Key} \cup {o} /\ sent' = sent \cup {o}
        /\ UNCHANGED <<outages, unstored>>
     \/ /\ Outage /\ unstored' = unstored \cup {emitter[e].list}
        /\ UNCHANGED <<objects, sent>>
  /\ UNCHANGED <<lists, buffer, seq, clock, wiped>>

Tick ==
  /\ clock < MaxClock /\ clock' = clock + 1
  /\ UNCHANGED <<lists, buffer, seq, objects, emitter, outages, unstored, wiped, sent>>

ResourceLogNext ==
  \/ \E e \in DOMAIN emitter :
       LookUp(e) \/ AppendEvent(e) \/ Look(e) \/ Flush(e) \/ MakeClient(e) \/ Store(e)
  \/ Tick

ResourceLogSpec == ResourceLogInit /\ [][ResourceLogNext]_logVars

-----------------------------------------------------------------------------
AllEnded == \A e \in DOMAIN emitter : At(e, "step") /\ Made(e)
Events == (DOMAIN emitter) \X (1..PerLifecycle)
Stored(v) == {o \in objects : v \in o.batch}

\* An event is lost in one of four ways: its batch was not stored; an error of another
\* thread emptied the buffer it was in; it was appended to a list that had been sent
\* already; or another batch went under the key of its own.  No event is in two objects.
LostInKnownWays ==
  \A v \in Events :
    /\ Cardinality(Stored(v)) <= 1
    /\ AllEnded /\ Stored(v) = {} =>
         \E l \in DOMAIN lists :
           /\ v \in lists[l]
           /\ \/ l \in unstored \cup wiped
              \/ \E s \in sent : s.list = l /\ v \notin s.batch
              \/ \E s, t \in sent : s.list = l /\ t.list # l /\ s.key = t.key

\* A thread that has the process for itself loses an event only with its batch.
AloneKeepsAll ==
  Cardinality(DOMAIN emitter) = 1 /\ AllEnded =>
    \A v \in Events : Stored(v) # {} \/ \E l \in unstored : v \in lists[l]

StreamKept == LostInKnownWays /\ AloneKeepsAll
=============================================================================
