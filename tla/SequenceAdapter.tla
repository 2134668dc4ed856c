--------------------------- MODULE SequenceAdapter ---------------------------
(***************************************************************************)
(* LlamaCppSteppableBackend (inference_runtime/adapters/llama_cpp.py): the *)
(* adapter between the continuous scheduler and the native runtime.        *)
(*                                                                         *)
(* _command holds the adapter's lock from the write to the answer, so a    *)
(* command is one step with all the ends it can have; the lock is free     *)
(* between the look-up of a handle, the command, the check of the answer   *)
(* and the book-keeping, and there another thread's command, a shutdown or *)
(* the death of the process may fall.  The native side is the slot ledger  *)
(* of SequenceEngine; what a sequence computes is NativeRuntime's matter.  *)
(***************************************************************************)
EXTENDS SequenceEngine, Sequences, SequencesExt, FiniteSetsExt

CONSTANTS
    Requests,                   \* requests the scheduler opens, one at a time
    HandleShift,                \* 2^32 in the code
    released_handle_capacity,
    MaxStarts, MaxFaults        \* bounds: processes started; failures

ASSUME AdapterAssumption == HandleShift \in Nat \ {0} /\ released_handle_capacity \in Nat \ {0}

VARIABLES
    adapter,    \* the fields of the adapter and the process it talks to
    call,       \* the scheduler thread's call in progress
    sched,      \* [Requests -> the scheduler's view of the request]
    accepted,   \* pairs: a request and whose sequence the accepted outcome is of
    faults

vars == <<adapter, call, sched, accepted, faults>>

NoProcess == [up |-> FALSE]
NoCall == [op |-> "none"]
NoNative == <<0, 0>>            \* no slot ever has generation zero

(* A freshly started native runtime. *)
NewProcess == [up |-> TRUE, engine |-> NewEngine]

Init ==
    /\ adapter = [process |-> NoProcess, state |-> "STOPPED", generation |-> 0,
                  active |-> << >>, released |-> <<>>]
    /\ call = NoCall
    /\ sched = [r \in Requests |-> [st |-> "new", handle |-> NoNative]]
    /\ accepted = {}
    /\ faults = 0

Faults(n) == faults + n <= MaxFaults /\ faults' = faults + n

-----------------------------------------------------------------------------
(* The native runtime's answers, by its ledger *)

Occupied(process, native) ==
    LET slot == process.engine.slots[native[1]]
    IN  slot.lifecycle # "released" /\ slot.generation = native[2]

NativeOpen(process, r) ==
    LET admitted == Admit(process.engine, r, 1, 1)
    IN  IF admitted.status = "admitted"
        THEN [process |-> [process EXCEPT
                  !.engine = StartPrefill(admitted.engine, admitted.handle).engine],
              answer |-> "opened",
              handle |-> <<admitted.handle.slot, admitted.handle.generation>>]
        ELSE [process |-> process, answer |-> "error", handle |-> NoNative]

(* A batch is answered for all of its handles or for none. *)
NativeSteps(process, natives) ==
    [process |-> process, handle |-> NoNative,
     answer |-> IF \A n \in natives : Occupied(process, n) THEN "ok" ELSE "error"]

NativeRelease(process, native) ==
    LET own == Occupied(process, native)
        internal == Handle(native[1], native[2],
                           IF own THEN process.engine.slots[native[1]].key ELSE NoKey)
        ended == IF own THEN Cancel(process.engine, internal).engine ELSE process.engine
        released == Release(ended, internal)
    IN  [process |-> [process EXCEPT !.engine = released.engine],
         answer |-> released.status, handle |-> native]

(* What the runtime makes of a command; the cache commands touch no slot. *)
Native(process, cmd) ==
    CASE cmd.op = "open" -> NativeOpen(process, cmd.request)
      [] cmd.op = "steps" -> NativeSteps(process, cmd.natives)
      [] cmd.op = "release" -> NativeRelease(process, cmd.native)
      [] cmd.op = "cache" -> [process |-> process, answer |-> "ok", handle |-> NoNative]

-----------------------------------------------------------------------------
(* The process and its commands *)

(* start(): a process that is up and READY is kept; only a successful start *)
(* forgets the handles of the one before.                                   *)
Running(a) == a.process.up /\ a.state = "READY"

Started(a) ==
    IF Running(a) THEN a
    ELSE [process |-> NewProcess, state |-> "READY", generation |-> a.generation + 1,
          active |-> << >>, released |-> <<>>]

StartFailed(a) == [a EXCEPT !.process = NoProcess, !.state = "DEGRADED"]

(* Mutation: a command that got no answer leaves the process running. *)
ProcessKept(a) == a

(* _fail_process_locked() *)
ProcessFailed(a) ==
    [a EXCEPT !.process = NoProcess, !.state = "DEGRADED", !.active = << >>,
              !.released = <<>>]

(* _protocol_failure(): whatever process there is by now is killed. *)
ProtocolFailure(a) == IF a.process = NoProcess THEN a ELSE ProcessFailed(a)

Result(a, answer, handle, failures) ==
    [adapter |-> a, answer |-> answer, handle |-> handle, failures |-> failures]

(* The ends of _command(): the start fails; the runtime handles the command *)
(* and its answer is read; or it dies or runs into the timeout, having      *)
(* handled the command or not, and is killed.                               *)
Answered(a, cmd) ==
    LET s == Started(a)
        n == Native(s.process, cmd)
    IN  Result([s EXCEPT !.process = n.process], n.answer, n.handle, 0)

Unanswered(a, cmd) ==
    LET s == Started(a)
        handled == [s EXCEPT !.process = Native(s.process, cmd).process]
    IN  {Result(b, "error", NoNative, 1) :
            b \in {ProcessFailed(s), ProcessFailed(handled)}
                 \cup IF Running(a) THEN {} ELSE {StartFailed(a)}}

Command(a, cmd) ==
    IF Running(a) \/ a.generation < MaxStarts
    THEN {Answered(a, cmd)} \cup Unanswered(a, cmd)
    ELSE {}

-----------------------------------------------------------------------------
(* open_sequence *)

(* The process generation in the high bits, the native one in the low bits. *)
Public(a, native) == <<native[1], a.generation * HandleShift + native[2]>>

CallOpen(r) ==
    /\ call = NoCall /\ sched[r].st = "new"
    /\ call' = [op |-> "open", request |-> r, pc |-> "command", native |-> NoNative]
    /\ UNCHANGED <<adapter, sched, accepted, faults>>

Lost(r) == [sched EXCEPT ![r] = [st |-> "done", handle |-> NoNative]]

OpenCommand ==
    /\ call.op = "open" /\ call.pc = "command"
    /\ \E result \in Command(adapter, [op |-> "open", request |-> call.request]) :
          /\ Faults(result.failures)
          /\ adapter' = result.adapter
          /\ IF result.answer = "opened"
             THEN /\ call' = [call EXCEPT !.pc = "register", !.native = result.handle]
                  /\ UNCHANGED sched
             ELSE call' = NoCall /\ sched' = Lost(call.request)
    /\ UNCHANGED accepted

(* Mutation: a handle that is in use is given out again. *)
InUseUnchecked(a, public) == FALSE

InUse(a, public) == public \in DOMAIN a.active

OpenRegister ==
    LET public == Public(adapter, call.native)
    IN  /\ call.op = "open" /\ call.pc = "register"
        /\ IF InUse(adapter, public)
           THEN adapter' = ProtocolFailure(adapter) /\ sched' = Lost(call.request)
           ELSE /\ adapter' = [adapter EXCEPT !.active =
                      [k \in DOMAIN @ \cup {public} |->
                          IF k = public THEN call.native ELSE @[k]]]
                /\ sched' = [sched EXCEPT ![call.request] =
                                [st |-> "open", handle |-> public]]
        /\ call' = NoCall
        /\ UNCHANGED <<accepted, faults>>

-----------------------------------------------------------------------------
(* prefill_batch and decode_batch *)

(* _native_steps(): every handle of the batch is looked up under one lock. *)
CallSteps(batch) ==
    /\ call = NoCall
    /\ \A r \in batch : sched[r].st = "open"
    /\ IF \A r \in batch : sched[r].handle \in DOMAIN adapter.active
       THEN call' = [op |-> "steps", pc |-> "command", batch |-> batch,
                     native |-> [r \in batch |-> adapter.active[sched[r].handle]],
                     origin |-> << >>]
       ELSE UNCHANGED call
    /\ UNCHANGED <<adapter, sched, accepted, faults>>

(* Whose sequence answered for a native handle. *)
Origin(process, native) == process.engine.slots[native[1]].key

StepsCommand ==
    LET natives == {call.native[r] : r \in call.batch}
    IN  /\ call.op = "steps" /\ call.pc = "command"
        /\ \E result \in Command(adapter, [op |-> "steps", natives |-> natives]) :
              /\ Faults(result.failures)
              /\ adapter' = result.adapter
              /\ call' = IF result.answer = "ok"
                         THEN [call EXCEPT !.pc = "verify", !.origin =
                                 [r \in call.batch |->
                                    Origin(result.adapter.process, call.native[r])]]
                         ELSE NoCall
        /\ UNCHANGED <<sched, accepted>>

(* _verify_native_correlation(): the lock is taken anew for each outcome. *)
Correlates(a, public, native) == public \in DOMAIN a.active /\ a.active[public] = native

StepsVerify(r) ==
    /\ call.op = "steps" /\ call.pc = "verify" /\ r \in call.batch
    /\ IF Correlates(adapter, sched[r].handle, call.native[r])
       THEN /\ call' = IF call.batch = {r} THEN NoCall
                       ELSE [call EXCEPT !.batch = @ \ {r}]
            /\ accepted' = accepted \cup {<<r, call.origin[r]>>}
            /\ UNCHANGED adapter
       ELSE adapter' = ProtocolFailure(adapter) /\ call' = NoCall /\ UNCHANGED accepted
    /\ UNCHANGED <<sched, faults>>

-----------------------------------------------------------------------------
(* release *)

Closed(r) == [sched EXCEPT ![r].st = "done"]

(* An inactive handle is answered without a command. *)
CallRelease(r) ==
    /\ call = NoCall /\ sched[r].st = "open"
    /\ IF sched[r].handle \in DOMAIN adapter.active
       THEN /\ call' = [op |-> "release", request |-> r, pc |-> "command",
                        native |-> adapter.active[sched[r].handle], status |-> "none"]
            /\ UNCHANGED sched
       ELSE sched' = Closed(r) /\ UNCHANGED call
    /\ UNCHANGED <<adapter, accepted, faults>>

ReleaseCommand ==
    /\ call.op = "release" /\ call.pc = "command"
    /\ \E result \in Command(adapter, [op |-> "release", native |-> call.native]) :
          /\ Faults(result.failures)
          /\ adapter' = result.adapter
          /\ IF result.answer = "error"
             THEN call' = NoCall /\ sched' = Closed(call.request)
             ELSE /\ call' = [call EXCEPT !.pc = "verify", !.status = result.answer]
                  /\ UNCHANGED sched
    /\ UNCHANGED accepted

ReleaseVerify ==
    /\ call.op = "release" /\ call.pc = "verify"
    /\ IF Correlates(adapter, sched[call.request].handle, call.native)
       THEN call' = [call EXCEPT !.pc = "forget"] /\ UNCHANGED <<adapter, sched>>
       ELSE /\ adapter' = ProtocolFailure(adapter)
            /\ call' = NoCall /\ sched' = Closed(call.request)
    /\ UNCHANGED <<accepted, faults>>

(* The handle moves to the bounded list of released ones; the oldest go. *)
ReleaseForget ==
    LET h == sched[call.request].handle
        others == SelectSeq(adapter.released, LAMBDA k : k # h)
        longer == Append(others, h)
        excess == Len(longer) - released_handle_capacity
    IN  /\ call.op = "release" /\ call.pc = "forget"
        /\ adapter' =
             IF call.status = "invalid_state" THEN adapter
             ELSE [adapter EXCEPT
                !.active = [k \in DOMAIN @ \ {h} |-> @[k]],
                !.released = IF call.status = "stale_handle" THEN @
                             ELSE IF excess > 0 THEN SubSeq(longer, excess + 1, Len(longer))
                             ELSE longer]
        /\ call' = NoCall
        /\ sched' = Closed(call.request)
        /\ UNCHANGED <<accepted, faults>>

(* An answer of the wrong shape, identity or number of outcomes is refused  *)
(* outside the command's lock section.                                      *)
AnswerRefused ==
    /\ call # NoCall /\ call.pc \in {"register", "verify"}
    /\ Faults(1)
    /\ adapter' = ProtocolFailure(adapter)
    /\ call' = NoCall
    /\ sched' = CASE call.op = "open" -> Lost(call.request)
                  [] call.op = "release" -> Closed(call.request)
                  [] OTHER -> sched
    /\ UNCHANGED accepted

-----------------------------------------------------------------------------
(* Other threads, and the process *)

(* cache_stats() and clear_cache() *)
CacheCommand ==
    /\ \E result \in Command(adapter, [op |-> "cache"]) :
          Faults(result.failures) /\ adapter' = result.adapter
    /\ UNCHANGED <<call, sched, accepted>>

(* supervisor_state notices a process that has died. *)
SupervisorState ==
    /\ adapter.state = "READY" /\ ~adapter.process.up
    /\ adapter' = [adapter EXCEPT !.state = "DEGRADED"]
    /\ UNCHANGED <<call, sched, accepted, faults>>

(* shutdown(): also while the scheduler's thread outlives its join.  The    *)
(* process is dropped even if its end stays unconfirmed.                    *)
Shutdown ==
    /\ Faults(1)
    /\ \E stopped \in {TRUE, adapter.process = NoProcess} :
          adapter' = [adapter EXCEPT !.process = NoProcess,
                                     !.state = IF stopped THEN "STOPPED" ELSE "DEGRADED",
                                     !.active = << >>, !.released = <<>>]
    /\ UNCHANGED <<call, sched, accepted>>

ProcessDies ==
    /\ adapter.process.up
    /\ Faults(1)
    /\ adapter' = [adapter EXCEPT !.process.up = FALSE]
    /\ UNCHANGED <<call, sched, accepted>>

Next ==
    \/ \E r \in Requests : CallOpen(r) \/ CallRelease(r) \/ StepsVerify(r)
    \/ OpenCommand \/ OpenRegister
    \/ \E batch \in (SUBSET Requests) \ {{}} : CallSteps(batch)
    \/ StepsCommand
    \/ ReleaseCommand \/ ReleaseVerify \/ ReleaseForget \/ AnswerRefused
    \/ CacheCommand \/ SupervisorState \/ Shutdown \/ ProcessDies

Spec == Init /\ [][Next]_vars

-----------------------------------------------------------------------------
(* Properties *)

(* An outcome the scheduler takes for a request was computed by the native  *)
(* sequence opened for that request, whatever process died, was killed or   *)
(* replaced since (open_sequence's handle, _native_steps,                   *)
(* _verify_native_correlation).                                             *)
OutcomeIsOwn == \A pair \in accepted : pair[1] = pair[2]

(* Between calls, a sequence that occupies a slot of the running process    *)
(* belongs to a request that still holds its handle, so that somebody can   *)
(* release it: a command whose answer was lost, late or refused leaves no   *)
(* sequence behind (_command, _fail_process_locked, release).               *)
NoLeakedSequence ==
    call = NoCall /\ adapter.process.up =>
        \A s \in Slots :
            LET slot == adapter.process.engine.slots[s]
            IN  slot.lifecycle # "released" =>
                  \E r \in Requests :
                     /\ sched[r].st = "open" /\ slot.key = r
                     /\ Correlates(adapter, sched[r].handle, <<s, slot.generation>>)

=============================================================================
