------------------------- MODULE ContinuousScheduler -------------------------
(***************************************************************************)
(* ContinuousBatchScheduler (inference_runtime/continuous_scheduler.py).   *)
(*                                                                         *)
(* Actors: clients (infer, cancel, shutdown), the scheduler thread (_run), *)
(* the clock, and the backend, which may fail any call and return any      *)
(* outcome its contract allows.  An attempt is one call of infer(), that   *)
(* is one _RequestEntry; two attempts may carry the same request_id if one *)
(* is submitted after the other has returned.  The deques hold request     *)
(* ids, as in the code, so an id may outlive the attempt that queued it.   *)
(*                                                                         *)
(* A section of code under the condition is one step, together with the    *)
(* backend call before it: only the scheduler thread changes what such a   *)
(* call depends on.  The fair selector may choose any candidate.           *)
(***************************************************************************)
EXTENDS Admission, Sequences, SequencesExt

CONSTANTS BatchSize,      \* capabilities.max_sequences_per_step
          MaxDecodeBurst, \* max_decode_burst
          Underestimated  \* attempts the backend may reserve more for

ASSUME SchedulerAssumption ==
  /\ BatchSize \in Nat \ {0} /\ MaxDecodeBurst \in Nat \ {0}
  /\ Underestimated \subseteq Attempts

VARIABLES
  state,      \* entry.state; "new" before infer()
  entries,    \* values of _entries
  cancelRequested, \* entries with cancel_requested
  queueDue, execDue, \* entries whose queue / execution deadline has passed
  handles,    \* entries that have a handle
  outcome,    \* entry.result or entry.error, as a code
  lastEvent,  \* the last event published for the entry
  queued, prefill, decode, \* the deques of request ids
  burst,      \* _decode_burst, saturating at max_decode_burst
  ledger, kv, \* the admission controller
  opened,     \* sequences open in the backend
  loop,       \* where the scheduler thread is
  batch,      \* the entries of the batch under way
  todo,       \* entries it has still to release, with their verdicts
  stopping, stopped,
  failing,    \* _fail_all is under way: after a crash or an early shutdown
  armed       \* the entries whose deadlines bound the wait under way

clientVars == <<entries, cancelRequested, stopping>>
clockVars  == <<queueDue, execDue>>
entryVars  == <<state, handles, outcome, lastEvent>>
dequeVars  == <<queued, prefill, decode, burst>>
ledgerVars == <<ledger, kv>>
loopVars   == <<loop, batch, todo, stopped, failing, armed>>
vars == <<clientVars, clockVars, entryVars, dequeVars, ledgerVars, opened, loopVars>>

-----------------------------------------------------------------------------

States == {"new", "queued", "opening", "prefill", "prefill_inflight", "decode",
           "decode_inflight", "releasing", "terminal"}

Verdicts == {"none", "result", "cancelled", "shutdown", "queue_timeout",
             "deadline_exceeded", "backend_error", "release_failed", "crashed"}

Live(a) == a \in entries /\ state[a] # "terminal"

\* _entries.get(id)
EntryOf(id) == {a \in entries : IdOf[a] = id}

\* The deadline the scheduler looks at has passed.
Due(a) == IF a \in handles THEN a \in execDue ELSE a \in queueDue

\* Mutation: changes are not notified to the waiting scheduler thread.
NotifyNobody == UNCHANGED loopVars

\* _condition.notify_all(), for the scheduler thread.
NotifyAll ==
  /\ loop'  = IF loop = "wait" THEN "boundaries" ELSE loop
  /\ armed' = {}
  /\ UNCHANGED <<batch, todo, stopped, failing>>

-----------------------------------------------------------------------------
(***************************************************************************)
(* Clients.                                                                *)
(***************************************************************************)

\* infer() up to its wait.  A rejected call leaves no trace.
Infer(a) ==
  /\ state[a] = "new"
  /\ ~stopped /\ ~stopping
  /\ EntryOf(IdOf[a]) = {}
  /\ Cardinality({b \in entries : Live(b)}) < MaxPending
  /\ CanAdmit(ledger, kv, a)
  /\ state'   = [state EXCEPT ![a] = "queued"]
  /\ entries' = entries \cup {a}
  /\ queued'  = Append(queued, IdOf[a])
  /\ ledger'  = ledger \cup {a}
  /\ NotifyAll
  /\ UNCHANGED <<cancelRequested, stopping, clockVars, handles, outcome, lastEvent,
                 prefill, decode, burst, kv, opened>>

\* The end of infer(): the waiter sees its terminal entry and removes it, and
\* with it the entry's flag, deadlines and handle.
InferReturn(a) ==
  /\ a \in entries /\ state[a] = "terminal"
  /\ entries' = entries \ {a}
  /\ cancelRequested' = cancelRequested \ {a}
  /\ queueDue' = queueDue \ {a} /\ execDue' = execDue \ {a}
  /\ handles' = handles \ {a}
  /\ UNCHANGED <<stopping, state, outcome, lastEvent, dequeVars, ledgerVars, opened, loopVars>>

Cancel(a) ==
  /\ Live(a)
  /\ cancelRequested' = cancelRequested \cup {a}
  /\ NotifyAll
  /\ UNCHANGED <<entries, stopping, clockVars, entryVars, dequeVars, ledgerVars, opened>>

\* shutdown(): before start() the caller itself fails every request.
Shutdown ==
  /\ ~stopping
  /\ stopping' = TRUE
  /\ cancelRequested' = cancelRequested \cup {a \in entries : Live(a)}
  /\ IF loop = "unstarted"
       THEN loop' = "fail_all" /\ UNCHANGED <<batch, todo, stopped, failing, armed>>
       ELSE NotifyAll
  /\ UNCHANGED <<entries, clockVars, entryVars, dequeVars, ledgerVars, opened>>

Start ==
  /\ loop = "unstarted" /\ ~stopping
  /\ loop' = "boundaries"
  /\ UNCHANGED <<clientVars, clockVars, entryVars, dequeVars, ledgerVars, opened,
                 batch, todo, stopped, failing, armed>>

\* The clock passes the deadline in force.
DeadlinePasses(a) ==
  /\ Live(a)
  /\ \/ a \notin handles \cup queueDue /\ queueDue' = queueDue \cup {a} /\ UNCHANGED execDue
     \/ a \in handles \ execDue /\ execDue' = execDue \cup {a} /\ UNCHANGED queueDue
  /\ UNCHANGED <<clientVars, entryVars, dequeVars, ledgerVars, opened, loopVars>>

-----------------------------------------------------------------------------
(***************************************************************************)
(* _process_terminal_boundaries                                            *)
(***************************************************************************)

AtBoundary(a) == Live(a) /\ (stopping \/ a \in cancelRequested \/ Due(a))

BoundaryVerdict(a) ==
  IF stopping THEN "shutdown"
  ELSE IF a \in cancelRequested THEN "cancelled"
  ELSE IF a \in handles THEN "deadline_exceeded" ELSE "queue_timeout"

Boundaries ==
  /\ loop = "boundaries"
  /\ \/ \E a \in entries :
          /\ AtBoundary(a)
          /\ state' = [state EXCEPT ![a] = "releasing"]
          /\ todo'  = <<[entry |-> a, verdict |-> BoundaryVerdict(a)]>>
          /\ loop'  = "release"
     \/ /\ ~\E a \in entries : AtBoundary(a)
        /\ loop' = "open"
        /\ UNCHANGED <<state, todo>>
  /\ UNCHANGED <<clientVars, clockVars, handles, outcome, lastEvent, dequeVars,
                 ledgerVars, opened, batch, stopped, failing, armed>>

-----------------------------------------------------------------------------
(***************************************************************************)
(* _open_one                                                               *)
(***************************************************************************)

\* Where a deque names an entry in state s.
Valid(q, s) == {i \in DOMAIN q : \E a \in EntryOf(q[i]) : state[a] = s}

\* Positions in ascending order (there is one such list).
Ascending(P) ==
  {w \in [1 .. Cardinality(P) -> P] : \A i, j \in DOMAIN w : i < j => w[i] < w[j]}

\* What q holds at the positions P, in order.
Kept(q, P) == {[k \in DOMAIN w |-> q[w[k]]] : w \in Ascending(P)}

FirstOf(P) == {i \in P : \A j \in P : i <= j}

ActiveSequences == {a \in handles : Live(a)}

Openable(a) ==
  /\ a \in entries /\ state[a] = "queued" /\ IdOf[a] \in Range(queued)
  /\ CanActivate(ledger, kv, a)

OpenOne ==
  /\ loop = "open"
  /\ \/ \E a \in entries :
          /\ Cardinality(ActiveSequences) < MaxSequences
          /\ Openable(a)
          /\ state'     = [state EXCEPT ![a] = "opening"]
          /\ lastEvent' = [lastEvent EXCEPT ![a] = "admitted"]
          /\ \E i \in FirstOf({j \in Valid(queued, "queued") : queued[j] = IdOf[a]}) :
               queued' \in Kept(queued, Valid(queued, "queued") \ {i})
          /\ batch'     = <<a>>
          /\ loop'      = "opening"
     \/ /\ Cardinality(ActiveSequences) < MaxSequences => ~\E a \in entries : Openable(a)
        /\ queued' \in IF Cardinality(ActiveSequences) < MaxSequences
                         THEN Kept(queued, Valid(queued, "queued")) ELSE {queued}
        /\ loop'   = "choose"
        /\ UNCHANGED <<state, lastEvent, batch>>
  /\ UNCHANGED <<clientVars, clockVars, handles, outcome, prefill, decode, burst,
                 ledgerVars, opened, todo, stopped, failing, armed>>

\* The backend refuses the sequence: nothing to release.
OpenFails ==
  /\ loop = "opening"
  /\ todo'  = <<[entry |-> batch[1], verdict |-> "backend_error"]>>
  /\ batch' = <<>>
  /\ loop'  = "release"
  /\ UNCHANGED <<clientVars, clockVars, entryVars, dequeVars, ledgerVars, opened,
                 stopped, failing, armed>>

\* activate() records what the backend reserved.
Activates(a) ==
  \E actual \in 1 .. Estimate[a] :
    ActivateAccepts(ledger, kv, a, actual) /\ kv' = [kv EXCEPT ![a] = actual]

\* The sequence is open; afterwards its handle is recorded and, unless the
\* request was cancelled, stopped or is late already, it is queued for prefill.
OpenSucceeds ==
  /\ loop = "opening"
  /\ LET a == batch[1] IN
     /\ opened'    = opened \cup {a}
     /\ handles'   = handles \cup {a}
     /\ lastEvent' = [lastEvent EXCEPT ![a] = "opened"]
     /\ \/ /\ a \in Underestimated  \* activate() refuses the reservation
           /\ state' = [state EXCEPT ![a] = "releasing"]
           /\ todo'  = <<[entry |-> a, verdict |-> "backend_error"]>>
           /\ loop'  = "release"
           /\ UNCHANGED <<kv, prefill, execDue>>
        \/ /\ Activates(a)
           /\ \/ /\ a \notin cancelRequested /\ ~stopping
                 /\ state'   = [state EXCEPT ![a] = "prefill"]
                 /\ prefill' = Append(prefill, IdOf[a])
                 /\ loop'    = "boundaries"
                 /\ UNCHANGED <<todo, execDue>>
              \/ /\ state' = [state EXCEPT ![a] = "releasing"]
                 /\ IF a \in cancelRequested \/ stopping
                      THEN UNCHANGED execDue ELSE execDue' = execDue \cup {a}
                 /\ todo' = <<[entry |-> a, verdict |->
                      IF a \in cancelRequested THEN "cancelled" ELSE "deadline_exceeded"]>>
                 /\ loop' = "release"
                 /\ UNCHANGED prefill
  /\ batch' = <<>>
  /\ queueDue' = queueDue \ {batch[1]} \* the execution deadline is in force now
  /\ UNCHANGED <<clientVars, outcome, queued, decode, burst, ledger,
                 stopped, failing, armed>>

-----------------------------------------------------------------------------
(***************************************************************************)
(* _choose_batch_action, _run_prefill_batch, _run_decode_batch             *)
(***************************************************************************)

HasState(q, s) == Valid(q, s) # {}

\* _queue_has_state_locked drops stale ids from the left end only.
Pruned(q, s) ==
  IF HasState(q, s) THEN {SubSeq(q, i, Len(q)) : i \in FirstOf(Valid(q, s))} ELSE {<<>>}

\* What _take_state_locked may take, as positions: as many as fit, one after
\* another as the selector likes.
Takes(q, s) ==
  LET n == Cardinality(Valid(q, s))
      m == IF n < BatchSize THEN n ELSE BatchSize
  IN {p \in [1 .. m -> Valid(q, s)] : IsInjective(p)}

Entry(id) == CHOOSE a \in entries : IdOf[a] = id

Taken(q, p) == [k \in DOMAIN p |-> Entry(q[p[k]])]

Left(q, s, p) == Kept(q, Valid(q, s) \ Range(p))

DecodeFirst == HasState(decode, "decode")
               /\ (~HasState(prefill, "prefill") \/ burst < MaxDecodeBurst)

StartDecode ==
  /\ loop = "choose" /\ DecodeFirst
  /\ \E p \in Takes(decode, "decode") :
       /\ batch'  = Taken(decode, p)
       /\ decode' \in Left(decode, "decode", p)
  /\ prefill' \in Pruned(prefill, "prefill")
  /\ state' = [a \in Attempts |-> IF a \in Range(batch') THEN "decode_inflight" ELSE state[a]]
  /\ loop'  = "decode_run"
  /\ UNCHANGED <<clientVars, clockVars, handles, outcome, lastEvent, queued, burst,
                 ledgerVars, opened, todo, stopped, failing, armed>>

StartPrefill ==
  /\ loop = "choose" /\ ~DecodeFirst /\ HasState(prefill, "prefill")
  /\ \E p \in Takes(prefill, "prefill") :
       /\ batch'   = Taken(prefill, p)
       /\ prefill' \in Left(prefill, "prefill", p)
  /\ decode' \in Pruned(decode, "decode")
  /\ state' = [a \in Attempts |-> IF a \in Range(batch') THEN "prefill_inflight" ELSE state[a]]
  /\ loop'  = "prefill_run"
  /\ UNCHANGED <<clientVars, clockVars, handles, outcome, lastEvent, queued, burst,
                 ledgerVars, opened, todo, stopped, failing, armed>>

NoBatch ==
  /\ loop = "choose" /\ ~DecodeFirst /\ ~HasState(prefill, "prefill")
  /\ prefill' = <<>> /\ decode' = <<>>
  /\ loop' = "idle"
  /\ UNCHANGED <<clientVars, clockVars, entryVars, queued, burst, ledgerVars, opened,
                 batch, todo, stopped, failing, armed>>

Ids(s) == [k \in 1 .. Len(s) |-> IdOf[s[k]]]

\* The batch entries with a given outcome, in order.
With(outs, kind) == Kept(batch, {i \in DOMAIN batch : outs[i] = kind})

Releases(s, verdict) == [k \in 1 .. Len(s) |-> [entry |-> s[k], verdict |-> verdict]]

Distinct == Cardinality(Range(batch)) = Len(batch)

\* The backend call raises, as it does for a batch that names a handle twice.
BatchFails ==
  /\ loop \in {"prefill_run", "decode_run"}
  /\ todo'  = Releases(batch, "backend_error")
  /\ batch' = <<>>
  /\ loop'  = "release"
  /\ UNCHANGED <<clientVars, clockVars, entryVars, dequeVars, ledgerVars, opened,
                 stopped, failing, armed>>

AfterBatch == loop' = IF todo' = <<>> THEN "boundaries" ELSE "release"

PrefillEnds ==
  /\ loop = "prefill_run" /\ Distinct
  /\ \E outs \in [DOMAIN batch -> {"ready", "partial", "mismatch"}] :
       LET is(a, kind) == \E i \in DOMAIN batch : batch[i] = a /\ outs[i] = kind IN
       /\ state' = [a \in Attempts |-> CASE is(a, "ready")    -> "decode"
                                        [] is(a, "partial")  -> "prefill"
                                        [] is(a, "mismatch") -> "releasing"
                                        [] OTHER             -> state[a]]
       /\ lastEvent' = [a \in Attempts |-> IF is(a, "ready") \/ is(a, "partial")
                                              THEN "progress" ELSE lastEvent[a]]
       /\ \E s \in With(outs, "ready")    : decode'  = decode \o Ids(s)
       /\ \E s \in With(outs, "partial")  : prefill' = prefill \o Ids(s)
       /\ \E s \in With(outs, "mismatch") : todo'    = Releases(s, "backend_error")
  /\ burst' = 0
  /\ batch' = <<>>
  /\ AfterBatch
  /\ UNCHANGED <<clientVars, clockVars, handles, outcome, queued, ledgerVars, opened,
                 stopped, failing, armed>>

\* A finished sequence is a result if its completion is well formed and valid.
DecodeEnds ==
  /\ loop = "decode_run" /\ Distinct
  /\ \E outs \in [DOMAIN batch -> {"progressed", "result", "backend_error"}] :
       LET is(a, kind) == \E i \in DOMAIN batch : batch[i] = a /\ outs[i] = kind IN
       /\ state' = [a \in Attempts |-> IF is(a, "progressed") THEN "decode"
                                       ELSE IF a \in Range(batch) THEN "releasing"
                                       ELSE state[a]]
       /\ lastEvent' = [a \in Attempts |-> IF a \in Range(batch) THEN "progress"
                                           ELSE lastEvent[a]]
       /\ \E s \in With(outs, "progressed") : decode' = decode \o Ids(s)
       /\ \E w \in Ascending({i \in DOMAIN batch : outs[i] # "progressed"}) :
            todo' = [k \in DOMAIN w |-> [entry |-> batch[w[k]], verdict |-> outs[w[k]]]]
  /\ burst' = IF burst < MaxDecodeBurst THEN burst + 1 ELSE burst
  /\ batch' = <<>>
  /\ AfterBatch
  /\ UNCHANGED <<clientVars, clockVars, handles, outcome, queued, prefill, ledgerVars,
                 opened, stopped, failing, armed>>

-----------------------------------------------------------------------------
(***************************************************************************)
(* _release_and_terminalize, for the entries of `todo' one after another.  *)
(***************************************************************************)

\* Mutation: the reservation is returned whether or not the backend confirmed.
ReleaseUnconfirmed ==
  /\ loop = "release"
  /\ LET a == Head(todo).entry IN
     \E ok \in IF a \in handles THEN BOOLEAN ELSE {TRUE} :
       /\ opened' = IF ok THEN opened \ {a} ELSE opened
       /\ ledger' = ledger \ {a} /\ kv' = [kv EXCEPT ![a] = 0]
       /\ lastEvent' = [lastEvent EXCEPT ![a] = "terminal"]
       /\ todo' = IF ok THEN todo ELSE [todo EXCEPT ![1].verdict = "release_failed"]
       /\ loop' = "settle"
  /\ UNCHANGED <<clientVars, clockVars, state, handles, outcome, dequeVars,
                 batch, stopped, failing, armed>>

\* Mutation: the terminal event goes out before the sequence is released.
SettleFirst ==
  /\ loop = "release"
  /\ LET a == Head(todo).entry IN
     IF lastEvent[a] # "terminal"
       THEN /\ lastEvent' = [lastEvent EXCEPT ![a] = "terminal"]
            /\ UNCHANGED <<opened, ledgerVars, loop>>
       ELSE /\ opened' = opened \ {a}
            /\ lastEvent' = [lastEvent EXCEPT ![a] = "released"]
            /\ ledger' = ledger \ {a} /\ kv' = [kv EXCEPT ![a] = 0]
            /\ loop' = "settle"
  /\ UNCHANGED <<clientVars, clockVars, state, handles, outcome, dequeVars,
                 batch, todo, stopped, failing, armed>>

\* backend.release, the return of the reservation if the release is
\* confirmed, and the terminal event.  An entry that is terminal already is
\* only released again.
ReleaseEntry ==
  /\ loop = "release"
  /\ LET a == Head(todo).entry IN
     \E ok \in IF a \in handles THEN BOOLEAN ELSE {TRUE} :
       /\ opened' = IF ok THEN opened \ {a} ELSE opened
       /\ IF state[a] = "terminal"
            THEN /\ lastEvent' = IF ok THEN [lastEvent EXCEPT ![a] = "released"] ELSE lastEvent
                 /\ todo' = Tail(todo)
                 /\ loop' = IF Len(todo) > 1 THEN "release"
                            ELSE IF failing THEN "stop" ELSE "boundaries"
                 /\ UNCHANGED ledgerVars
            ELSE /\ ledger' = IF ok THEN ledger \ {a} ELSE ledger
                 /\ kv' = IF ok THEN [kv EXCEPT ![a] = 0] ELSE kv
                 /\ lastEvent' = [lastEvent EXCEPT ![a] = "terminal"]
                 /\ todo' = IF ok THEN todo
                            ELSE [todo EXCEPT ![1] = [entry |-> a, verdict |-> "release_failed"]]
                 /\ loop' = "settle"
  /\ UNCHANGED <<clientVars, clockVars, state, handles, outcome, dequeVars,
                 batch, stopped, failing, armed>>

Settled(job) ==
  /\ state'   = [state EXCEPT ![job.entry] = "terminal"]
  /\ outcome' = [outcome EXCEPT ![job.entry] = job.verdict]

\* The second lock of _terminalize: the waiter may return from now on.
SettleEntry ==
  /\ loop = "settle"
  /\ Settled(Head(todo))
  /\ todo'    = Tail(todo)
  /\ loop'    = IF Len(todo) > 1 THEN "release"
                ELSE IF failing THEN "stop" ELSE "boundaries"
  /\ UNCHANGED <<clientVars, clockVars, handles, lastEvent, dequeVars, ledgerVars,
                 opened, batch, stopped, failing, armed>>

-----------------------------------------------------------------------------
(***************************************************************************)
(* Idling, stopping and crashing.                                          *)
(***************************************************************************)

\* _has_immediate_work_locked; both batch deques are empty here.
ImmediateWork ==
  \/ \E a \in entries : AtBoundary(a)
  \/ \E a \in entries : Openable(a)

\* Mutation: no second look before the wait.
IdleUnchecked ==
  /\ loop = "idle"
  /\ IF stopping /\ ~\E a \in entries : Live(a)
       THEN stopped' = TRUE /\ loop' = "done"
       ELSE loop' = "wait" /\ UNCHANGED stopped
  /\ armed' = {a \in entries : Live(a)}
  /\ UNCHANGED <<clientVars, clockVars, entryVars, dequeVars, ledgerVars, opened,
                 batch, todo, failing>>

Idle ==
  /\ loop = "idle"
  /\ \/ /\ stopping /\ ~\E a \in entries : Live(a)
        /\ stopped' = TRUE /\ loop' = "done"
     \/ /\ ~(stopping /\ ~\E a \in entries : Live(a))
        /\ loop' = IF ImmediateWork THEN "boundaries" ELSE "wait"
        /\ UNCHANGED stopped
  /\ armed' = IF loop' = "wait" THEN {a \in entries : Live(a)} ELSE {}
  /\ UNCHANGED <<clientVars, clockVars, entryVars, dequeVars, ledgerVars, opened,
                 batch, todo, failing>>

\* The wait ends by itself at the earliest deadline known when it began
\* (_next_deadline_wait_locked); without one it lasts until a notification.
WaitTimesOut ==
  /\ loop = "wait"
  /\ \E a \in armed : Due(a)
  /\ loop' = "boundaries"
  /\ armed' = {}
  /\ UNCHANGED <<clientVars, clockVars, entryVars, dequeVars, ledgerVars, opened,
                 batch, todo, stopped, failing>>

\* An exception nobody expected leaves the loop, and _fail_all comes next: the
\* clock, read between the steps (also for the timing of a result whose sequence
\* is not released yet), or an outcome that is not one.
Crash ==
  /\ \/ loop \in {"boundaries", "prefill_run", "decode_run", "idle"}
     \/ loop = "release" /\ Head(todo).verdict = "result"
  /\ loop'  = "fail_all"
  /\ batch' = <<>> /\ todo' = <<>>
  /\ UNCHANGED <<clientVars, clockVars, entryVars, dequeVars, ledgerVars, opened,
                 stopped, failing, armed>>

\* _take_state_locked may pick k entries and fail to pick another.
TakesBefore(q, s) ==
  {p \in UNION {[1 .. k -> Valid(q, s)] : k \in 0 .. BatchSize - 1} : IsInjective(p)}

\* The clock or the selector fails in the choice of a sequence to open or of a
\* batch: the entries picked before are in no deque any more, nor in the batch.
CrashTaking ==
  /\ \/ /\ loop = "open" /\ Cardinality(ActiveSequences) < MaxSequences
        /\ queued' \in Kept(queued, Valid(queued, "queued"))
        /\ UNCHANGED <<prefill, decode>>
     \/ /\ loop = "choose" /\ DecodeFirst
        /\ \E p \in TakesBefore(decode, "decode") : decode' \in Left(decode, "decode", p)
        /\ prefill' \in Pruned(prefill, "prefill")
        /\ UNCHANGED queued
     \/ /\ loop = "choose" /\ ~DecodeFirst /\ HasState(prefill, "prefill")
        /\ \E p \in TakesBefore(prefill, "prefill") :
             prefill' \in Left(prefill, "prefill", p)
        /\ decode' \in Pruned(decode, "decode")
        /\ UNCHANGED queued
  /\ loop' = "fail_all"
  /\ UNCHANGED <<clientVars, clockVars, entryVars, burst, ledgerVars, opened,
                 batch, todo, stopped, failing, armed>>

\* The clock fails when the sequence is open and its handle recorded.
CrashOpening ==
  /\ loop = "opening"
  /\ opened'  = opened \cup {batch[1]}
  /\ handles' = handles \cup {batch[1]}
  /\ Activates(batch[1])
  /\ batch' = <<>>
  /\ loop'  = "fail_all"
  /\ UNCHANGED <<clientVars, clockVars, state, outcome, lastEvent, dequeVars, ledger,
                 todo, stopped, failing, armed>>

\* The clock fails when the entry is terminal already (terminal_at).  If this is
\* in _fail_all, the exception ends the thread, or the shutdown() that was called
\* before start(): the entries left are not settled and _stopped is not set.
CrashSettling ==
  /\ loop = "settle"
  /\ Settled(Head(todo))
  /\ todo' = <<>>
  /\ loop' = IF failing THEN "dead" ELSE "fail_all"
  /\ UNCHANGED <<clientVars, clockVars, handles, lastEvent, dequeVars, ledgerVars,
                 opened, batch, stopped, failing, armed>>

Crashes == Crash \/ CrashTaking \/ CrashOpening \/ CrashSettling

\* _fail_all takes its snapshot under the lock and works on it outside.  A
\* shutdown() before start() has an error of its own.
FailAll ==
  /\ loop = "fail_all"
  /\ \E s \in SetToSeqs({a \in entries : Live(a)}),
        v \in {"crashed"} \cup (IF stopping THEN {"shutdown"} ELSE {}) :
       todo' = Releases(s, v)
  /\ failing' = TRUE
  /\ loop' = IF todo' = <<>> THEN "stop" ELSE "release"
  /\ UNCHANGED <<clientVars, clockVars, entryVars, dequeVars, ledgerVars, opened,
                 batch, stopped, armed>>

Stop ==
  /\ loop = "stop"
  /\ stopped' = TRUE
  /\ loop' = "done"
  /\ UNCHANGED <<clientVars, clockVars, entryVars, dequeVars, ledgerVars, opened,
                 batch, todo, failing, armed>>

-----------------------------------------------------------------------------

Init ==
  /\ state = [a \in Attempts |-> "new"]
  /\ entries = {} /\ cancelRequested = {} /\ stopping = FALSE
  /\ queueDue = {} /\ execDue = {} /\ handles = {}
  /\ outcome = [a \in Attempts |-> "none"]
  /\ lastEvent = [a \in Attempts |-> "none"]
  /\ queued = <<>> /\ prefill = <<>> /\ decode = <<>> /\ burst = 0
  /\ ledger = {} /\ kv = [a \in Attempts |-> 0]
  /\ opened = {}
  /\ loop = "unstarted" /\ batch = <<>> /\ todo = <<>>
  /\ stopped = FALSE /\ failing = FALSE /\ armed = {}

SchedulerStep ==
  \/ Boundaries \/ OpenOne \/ OpenFails \/ OpenSucceeds
  \/ StartDecode \/ StartPrefill \/ NoBatch
  \/ BatchFails \/ PrefillEnds \/ DecodeEnds
  \/ ReleaseEntry \/ SettleEntry
  \/ Idle \/ WaitTimesOut \/ FailAll \/ Stop

ClientStep(a) == Infer(a) \/ InferReturn(a) \/ Cancel(a) \/ DeadlinePasses(a)

Next ==
  \/ \E a \in Attempts : ClientStep(a)
  \/ Start \/ Shutdown \/ SchedulerStep \/ Crashes

Spec == Init /\ [][Next]_vars

\* The scheduler thread is started and runs, backend calls return (the
\* adapter bounds them), deadlines pass and waiters wake, while there is a loop
\* to notify them.  Clients owe nothing.
Fairness ==
  /\ WF_vars(Start) /\ WF_vars(SchedulerStep)
  /\ \A a \in Attempts :
       WF_vars(InferReturn(a) /\ loop # "dead") /\ WF_vars(DeadlinePasses(a))

FairSpec == Spec /\ Fairness

-----------------------------------------------------------------------------
(***************************************************************************)
(* Properties.                                                             *)
(***************************************************************************)

\* Type invariant.
TypeOK ==
  /\ state \in [Attempts -> States]
  /\ outcome \in [Attempts -> Verdicts]
  /\ lastEvent \in [Attempts -> {"none", "admitted", "opened", "progress", "released",
                                 "terminal"}]
  /\ entries \subseteq Attempts /\ cancelRequested \subseteq Attempts
  /\ queueDue \subseteq Attempts /\ execDue \subseteq Attempts
  /\ handles \subseteq Attempts /\ opened \subseteq Attempts
  /\ ledger \subseteq Attempts /\ kv \in [Attempts -> Nat]
  /\ {queued, prefill, decode} \subseteq Seq(Range(IdOf))
  /\ burst \in 0 .. MaxDecodeBurst
  /\ loop \in {"unstarted", "boundaries", "open", "opening", "choose", "prefill_run",
               "decode_run", "release", "settle", "idle", "wait", "fail_all", "stop",
               "done", "dead"}
  /\ batch \in Seq(Attempts) /\ armed \subseteq Attempts
  /\ todo \in Seq([entry : Attempts, verdict : Verdicts])
  /\ stopping \in BOOLEAN /\ stopped \in BOOLEAN /\ failing \in BOOLEAN

InDeques ==
  \A a \in entries :
    /\ state[a] = "queued"  => IdOf[a] \in Range(queued)
    /\ state[a] = "prefill" => IdOf[a] \in Range(prefill)
    /\ state[a] = "decode"  => IdOf[a] \in Range(decode)

LoopFailed == loop = "fail_all" \/ failing

\* No live request is forgotten: one that waits for its turn is in the deque
\* it waits in, whatever was pruned, taken or appended meanwhile, until the loop
\* fails: then _fail_all settles it, for which it needs no deque.
NoStrandedRequest == InDeques \/ LoopFailed

\* The loop never sleeps on work it could do: whatever a client did between
\* the last look at the queues and the wait, no cancelled request, shutdown
\* or request that can be opened waits for a deadline to be noticed.
NeverSleepsOnWork ==
  loop = "wait" =>
    /\ ~stopping
    /\ ~\E a \in entries : Live(a) /\ a \in cancelRequested
    /\ ~\E a \in entries : Openable(a)

\* The ledger is exact: a request owns a reservation from admission to its
\* terminal event, and beyond it only if the backend did not confirm the
\* release, in which case the request failed and its capacity stays charged.
LedgerExact ==
  \A a \in Attempts :
    /\ Live(a) /\ lastEvent[a] # "terminal" => a \in ledger
    /\ lastEvent[a] = "terminal" => (a \in ledger <=> a \in opened)
    /\ state[a] = "terminal" /\ a \in opened => outcome[a] = "release_failed"

\* Quotas hold for what the backend reserved, not only for the estimates.
WithinQuotas ==
  LET active == ActiveOf(ledger, kv) IN
  /\ Cardinality(active) <= MaxSequences /\ Tokens(active, kv) <= KvBudget
  /\ \A a \in active :
       /\ Cardinality(SameScope(a, active)) <= MaxSequencesPerScope
       /\ Tokens(SameScope(a, active), kv) <= MaxKvPerScope

\* The state is well typed, and the reservations are within the quotas.
QuotasHold == TypeOK /\ WithinQuotas

\* A request gets a single terminal event, and it is the last one: an opened
\* sequence is released before it.
TerminalEventIsLast ==
  [][\A a \in Attempts : lastEvent[a] = "terminal" => lastEvent'[a] = "terminal"]_vars

\* A scheduler that says it stopped has settled every request it accepted.
StoppedMeansSettled ==
  stopped => \A a \in entries : state[a] = "terminal"

\* Nothing is forgotten: no request outside the deque it waits in, no sleep
\* on work, no stop before everything is settled, unless the loop failed, whose
\* crash path misses a late infer().  And nothing is there twice:
\* batches "must not contain duplicate sequence handles"
\* (validate_sequence_batch).
NothingForgotten ==
  /\ NoStrandedRequest /\ NeverSleepsOnWork
  /\ failing \/ StoppedMeansSettled
  /\ Distinct

\* Every infer() accepted before the loop failed returns: settled, cancelled,
\* timed out, or failed together with the loop, wherever that failed; but for a
\* clock that fails again while _fail_all settles, which leaves them waiting.
AcceptedInferReturns ==
  \A a \in Attempts : a \in entries /\ ~failing ~> a \notin entries \/ loop = "dead"
==============================================================================
