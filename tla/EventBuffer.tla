----------------------------- MODULE EventBuffer -----------------------------
(***************************************************************************)
(* The event stream of one request: execute() publishes the native         *)
(* worker's events into a BoundedRequestEventBuffer (model_worker/         *)
(* events.py), the dispatcher settles the record and closes the buffer,    *)
(* and the HTTP handler writes what it gets until the record is settled,   *)
(* then drains the rest (_drain_stream in model_worker/http_api.py).       *)
(*                                                                         *)
(* Each method of the buffer is one step.  get() waits at most 20 ms, so a *)
(* get of an empty buffer is a step that returns nothing.                  *)
(***************************************************************************)
EXTENDS Naturals, Sequences, SequencesExt

CONSTANTS MaxEvents, MaxBytes,  \* bounds of the buffer
          Sizes,                \* encoded_size of an event
          MaxFrames             \* bound on what the native worker emits

ASSUME BufferAssumption ==
  /\ MaxEvents \in Nat \ {0} /\ MaxBytes \in Nat \ {0} /\ MaxFrames \in Nat
  /\ Sizes \subseteq Nat \ {0}

VARIABLES
  events, queuedBytes, nextSequence, closed, slow, \* the buffer
  emitted,  \* events the native worker has sent
  sent,     \* those of them that must not be lost
  producer, \* execute(): "run", or how it ended
  cancel,   \* record.cancel_event
  life,     \* record.lifecycle
  reader,   \* the HTTP handler: "check", "get", "drain", "done", "gone"
  written   \* what it wrote to the client

bufferVars == <<events, queuedBytes, nextSequence, closed, slow>>
vars == <<bufferVars, emitted, sent, producer, cancel, life, reader, written>>

Telemetry == {"progress", "heartbeat"}

Types == {"started", "phase", "final_delta"} \cup Telemetry

TERMINAL == {"COMPLETED", "FAILED", "CANCELLED", "TIMED_OUT"}

Event == [sequence : Nat, type : Types, size : Sizes]

-----------------------------------------------------------------------------

\* _fits
Fits(q, bytes, e) == Len(q) < MaxEvents /\ bytes + e.size <= MaxBytes

\* _remove_older_telemetry: the positions it may remove from.
Older(e) == {i \in DOMAIN events : e.type \in Telemetry /\ events[i].type = e.type}

\* The event goes to the end, whatever it replaces.
Enqueue(e) ==
  IF Older(e) = {}
    THEN events' = Append(events, e) /\ queuedBytes' = queuedBytes + e.size
    ELSE \E i \in Older(e) :
           /\ events' = Append(RemoveAt(events, i), e)
           /\ queuedBytes' = (queuedBytes - events[i].size) + e.size

\* Mutation: an event that does not fit is dropped, whatever its type.
DropAny(e) == UNCHANGED <<events, queuedBytes, slow, cancel>>

\* An event that does not fit: telemetry is dropped together with the older
\* one it would have replaced; anything else makes the consumer a slow one,
\* and execute() cancels the request.
Overflow(e) ==
  IF e.type \in Telemetry
    THEN /\ IF Older(e) = {} THEN UNCHANGED <<events, queuedBytes>>
            ELSE \E i \in Older(e) :
                   /\ events' = RemoveAt(events, i)
                   /\ queuedBytes' = queuedBytes - events[i].size
         /\ UNCHANGED <<slow, cancel>>
    ELSE /\ slow' = TRUE /\ cancel' = TRUE
         /\ UNCHANGED <<events, queuedBytes>>

\* Room for e once the telemetry it replaces is gone.
HasRoom(e) ==
  IF Older(e) = {} THEN Fits(events, queuedBytes, e)
  ELSE \E i \in Older(e) : Fits(RemoveAt(events, i), queuedBytes - events[i].size, e)

\* The order of frames FrameVerifier lets through to publish().
InProtocol(type) ==
  /\ type = "started" <=> emitted = 0
  /\ type = "phase" => \A i \in DOMAIN sent : sent[i].type # "phase"
  /\ type = "final_delta" => \E i \in DOMAIN sent : sent[i].type = "phase"

\* Mutation: publish() returns for a slow consumer before it counts.
SlowUncounted(type, size) ==
  LET e == [sequence |-> emitted, type |-> type, size |-> size] IN
  /\ producer = "run" /\ emitted < MaxFrames /\ InProtocol(type)
  /\ emitted' = emitted + 1
  /\ sent' = IF type \in Telemetry THEN sent ELSE Append(sent, e)
  /\ IF closed \/ slow
       THEN UNCHANGED <<bufferVars, cancel, producer>>
     ELSE IF e.sequence # nextSequence
       THEN producer' = "crashed" /\ UNCHANGED <<bufferVars, cancel>>
     ELSE /\ IF HasRoom(e) THEN Enqueue(e) /\ UNCHANGED <<slow, cancel>>
                           ELSE Overflow(e)
          /\ nextSequence' = nextSequence + (IF slow' THEN 0 ELSE 1)
          /\ UNCHANGED <<closed, producer>>
  /\ UNCHANGED <<life, reader, written>>

\* publish() of the next event, from execute()'s loop.  The event carries the
\* number of its frame; one the buffer does not expect ends the execution.
Publish(type, size) ==
  LET e == [sequence |-> emitted, type |-> type, size |-> size] IN
  /\ producer = "run" /\ emitted < MaxFrames /\ InProtocol(type)
  /\ emitted' = emitted + 1
  /\ sent' = IF type \in Telemetry THEN sent ELSE Append(sent, e)
  /\ IF closed
       THEN UNCHANGED <<bufferVars, cancel, producer>>
     ELSE IF e.sequence # nextSequence
       THEN producer' = "crashed" /\ UNCHANGED <<bufferVars, cancel>>
     ELSE /\ nextSequence' = nextSequence + 1
          /\ IF slow THEN UNCHANGED <<events, queuedBytes, slow, cancel>>
             ELSE IF HasRoom(e) THEN Enqueue(e) /\ UNCHANGED <<slow, cancel>>
             ELSE Overflow(e)
          /\ UNCHANGED <<closed, producer>>
  /\ UNCHANGED <<life, reader, written>>

\* execute() ends on the terminal frame.
Finish(outcome) ==
  /\ producer = "run"
  /\ producer' = IF slow THEN "slow_consumer" ELSE outcome
  /\ UNCHANGED <<bufferVars, emitted, sent, cancel, life, reader, written>>

\* The worker process dies under execute().
Die ==
  /\ producer = "run" /\ producer' = "crashed"
  /\ UNCHANGED <<bufferVars, emitted, sent, cancel, life, reader, written>>

-----------------------------------------------------------------------------

\* Somebody cancels the request.
Cancel ==
  /\ life = "RUNNING" /\ ~cancel
  /\ cancel' = TRUE
  /\ UNCHANGED <<bufferVars, emitted, sent, producer, life, reader, written>>

\* The dispatcher settles a record whose execute() has ended.
Settle ==
  /\ life = "RUNNING" /\ producer # "run"
  /\ life' = IF producer = "slow_consumer" THEN "FAILED"
             ELSE IF cancel THEN "CANCELLED"
             ELSE IF producer = "result" THEN "COMPLETED" ELSE "FAILED"
  /\ UNCHANGED <<bufferVars, emitted, sent, producer, cancel, reader, written>>

\* Or gives up on it: execution deadline or shutdown.
GiveUp(verdict) ==
  /\ life = "RUNNING"
  /\ life' = verdict /\ cancel' = TRUE
  /\ UNCHANGED <<bufferVars, emitted, sent, producer, reader, written>>

\* _close_event_buffer
Close ==
  /\ life \in TERMINAL /\ ~closed
  /\ closed' = TRUE
  /\ UNCHANGED <<events, queuedBytes, nextSequence, slow, emitted, sent,
                 producer, cancel, life, reader, written>>

-----------------------------------------------------------------------------

\* The handler looks at the lifecycle ...
Check ==
  /\ reader = "check"
  /\ reader' = IF life \in TERMINAL THEN "drain" ELSE "get"
  /\ UNCHANGED <<bufferVars, emitted, sent, producer, cancel, life, written>>

\* ... gets an event or, after 20 ms, none ...
Get ==
  /\ reader = "get" /\ reader' = "check"
  /\ IF events = <<>> THEN UNCHANGED <<events, queuedBytes, written>>
     ELSE /\ written' = Append(written, Head(events))
          /\ events' = Tail(events)
          /\ queuedBytes' = queuedBytes - Head(events).size
  /\ UNCHANGED <<nextSequence, closed, slow, emitted, sent, producer, cancel, life>>

\* Mutation: the loop goes on after the drain.
DrainAgain ==
  /\ reader = "drain" /\ reader' = "check"
  /\ written' = written \o events /\ events' = <<>> /\ queuedBytes' = 0
  /\ UNCHANGED <<nextSequence, closed, slow, emitted, sent, producer, cancel, life>>

\* ... and drains what is left of a settled record.
Drain ==
  /\ reader = "drain" /\ reader' = "done"
  /\ written' = written \o events /\ events' = <<>> /\ queuedBytes' = 0
  /\ UNCHANGED <<nextSequence, closed, slow, emitted, sent, producer, cancel, life>>

\* _settle_request: the handler gives up and cancels a request still under way.
Leave == reader' = "gone" /\ cancel' = (cancel \/ life = "RUNNING")

\* The handler notices that the client has disconnected ...
Disconnect ==
  /\ reader = "check" /\ Leave
  /\ UNCHANGED <<bufferVars, emitted, sent, producer, life, written>>

\* ... or a write fails: what was taken from the buffer with it is lost.
WriteFails ==
  /\ Leave /\ events # <<>>
  /\ \/ /\ reader = "get"
        /\ events' = Tail(events) /\ queuedBytes' = queuedBytes - Head(events).size
        /\ UNCHANGED written
     \/ /\ reader = "drain"
        /\ \E n \in 0 .. Len(events) - 1 : written' = written \o SubSeq(events, 1, n)
        /\ events' = <<>> /\ queuedBytes' = 0
  /\ UNCHANGED <<nextSequence, closed, slow, emitted, sent, producer, life>>

-----------------------------------------------------------------------------

Init ==
  /\ events = <<>> /\ queuedBytes = 0 /\ nextSequence = 0
  /\ closed = FALSE /\ slow = FALSE
  /\ emitted = 0 /\ sent = <<>> /\ producer = "run"
  /\ cancel = FALSE /\ life = "RUNNING" /\ reader = "check" /\ written = <<>>

\* What follows the submit in do_POST, whichever exception ends it.
HandlerStep == Check \/ Get \/ Drain \/ Disconnect \/ WriteFails

Next ==
  \/ \E type \in Types, size \in Sizes : Publish(type, size)
  \/ \E outcome \in {"result", "failed"} : Finish(outcome)
  \/ Die \/ Cancel \/ Settle \/ Close
  \/ \E verdict \in {"TIMED_OUT", "CANCELLED"} : GiveUp(verdict)
  \/ HandlerStep

\* The handler runs, and the dispatcher settles the record (RequestService).
Fairness ==
  /\ WF_vars(Check \/ Get \/ Drain)
  /\ WF_vars(Settle \/ GiveUp("TIMED_OUT"))

Spec     == Init /\ [][Next]_vars
FairSpec == Spec /\ Fairness

-----------------------------------------------------------------------------
(***************************************************************************)
(* Properties.                                                             *)
(***************************************************************************)

\* The events that reached the client or will.
Kept == Range(written) \cup (IF reader = "gone" THEN {} ELSE Range(events))

\* Type invariant.
TypeOK ==
  /\ events \in Seq(Event) /\ sent \in Seq(Event) /\ written \in Seq(Event)
  /\ queuedBytes \in Nat /\ nextSequence \in Nat /\ emitted \in Nat
  /\ closed \in BOOLEAN /\ slow \in BOOLEAN /\ cancel \in BOOLEAN
  /\ producer \in {"run", "result", "failed", "slow_consumer", "crashed"}
  /\ life \in TERMINAL \cup {"RUNNING"}
  /\ reader \in {"check", "get", "drain", "done", "gone"}

\* The buffer stays within both of its bounds, its byte count is exact, and
\* it holds at most one event of each kind of telemetry.
Bounded ==
  /\ Len(events) <= MaxEvents /\ queuedBytes <= MaxBytes
  /\ queuedBytes = FoldSeq(LAMBDA e, n : n + e.size, 0, events)
  /\ \A i, j \in DOMAIN events :
       i # j /\ events[i].type \in Telemetry => events[i].type # events[j].type

\* Events come in the order the native worker emitted them, no matter what was
\* coalesced or dropped in between.
InOrder ==
  LET q == written \o events IN
  \A i, j \in DOMAIN q : i < j => q[i].sequence < q[j].sequence

\* What the client sees of the answer never has a hole: every phase and delta
\* emitted before something that is kept is kept too, and nothing is made up.
NoHoles ==
  \A e \in Kept :
    /\ e.type \notin Telemetry => e \in Range(sent)
    /\ \A x \in Range(sent) : x.sequence <= e.sequence => x \in Kept

\* Dropped, coalesced and refused events count: execute() never runs into
\* the sequence mismatch of its own buffer.
CountsEveryEvent == ~closed => nextSequence = emitted

\* The buffer's books are right: its bounds, its byte count and its sequence
\* count (publish, _fits, _remove_older_telemetry).
Accounted == TypeOK /\ Bounded /\ CountsEveryEvent

\* A completed stream is whole: whoever got "completed" as its terminal event
\* has got every phase and every delta before it.
CompletedIsWhole ==
  life = "COMPLETED" /\ reader = "done" => Range(sent) \subseteq Range(written)

\* The client gets the events in order, and nothing of the answer is missing,
\* in the middle or at a regular end (publish, get, drain, _drain_stream).
NothingMissing == InOrder /\ NoHoles /\ CompletedIsWhole

\* Every stream ends.
StreamEnds == <>(reader \in {"done", "gone"})
==============================================================================
