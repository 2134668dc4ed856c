----------------------------- MODULE Dispatcher -----------------------------
(***************************************************************************)
(* The request dispatcher of the model worker (model_worker/dispatcher.py) *)
(* over the request registry (model_worker/request_registry.py).           *)
(*                                                                         *)
(* Actors: API threads (submit, cancel, shutdown), the queue-expiry        *)
(* thread, the dispatcher thread, one thread per started request, the      *)
(* threads that deliver a cancellation, the backend restart thread, the    *)
(* backend shutdown thread, and the maintenance thread that prunes.        *)
(* The worker backend (execute, cancel, kill_and_restart, shutdown) is     *)
(* whatever the WorkerBackend protocol allows: a call may fail, and        *)
(* execute and cancel may hang for ever.                                   *)
(*                                                                         *)
(* Data abstractions.  The deque of pending records only appends on the    *)
(* right, pops on the left and deletes in the middle, so it is the set     *)
(* `pending' ordered by the admission `ticket'.  Clocks are monotone facts *)
(* ("this deadline has passed") that the environment makes true.  A        *)
(* section of code that runs under one lock is one step.                   *)
(***************************************************************************)
EXTENDS Naturals, FiniteSets

CONSTANTS Requests,   \* the records submit() can create, one uuid each
          Capacity,   \* Dispatcher._queue_capacity
          NoRequest   \* "the dispatcher thread holds no record"

ASSUME RequestsAssumption == IsFiniteSet(Requests) /\ NoRequest \notin Requests
ASSUME CapacityAssumption == Capacity \in Nat \ {0}

VARIABLES
  life,        \* RequestRecord.lifecycle; "NONE" before create()
  error,       \* RequestRecord.error (or "result"), as a code
  notified,    \* how often the terminal observers saw the record
  registered,  \* keys of RequestRegistry._records
  cancelled,   \* records whose cancel_event is set
  closed,      \* records whose event buffer is closed
  pending,     \* Dispatcher._pending ...
  ticket,      \* ... and its order
  nextTicket,
  queueDue,    \* records whose queue_deadline has passed
  disp,        \* where the dispatcher thread is in _run
  current,     \* the record it holds
  verdict,     \* the (target, error) it is about to commit
  execClock,   \* "open", "deadline" or "grace": which bound has passed
  task,        \* the execute() thread of each record and its outcome
  watchCancel, \* records with a live worker.cancel() thread of the watchdog
  shutCancel,  \* records with a live worker.cancel() thread of the shutdown
  restartNeeded, restart, \* restart_required; the restart thread
  expiry, expired,        \* the expiry thread and its local tuple
  apiClose,    \* records cancel() has still to close the buffer of
  accepting, shutdownStarted, stopping, shutdownComplete,
  shut, draining, drainee, \* the shutdown caller, its snapshot and cursor
  looked,      \* and its copy of the request threads
  backStop     \* the backend shutdown thread

recordVars   == <<life, error, notified>>
queueVars    == <<pending, ticket, nextTicket>>
dispVars     == <<disp, current, verdict, restartNeeded>>
expiryVars   == <<expiry, expired>>
shutdownVars == <<accepting, shutdownStarted, stopping, shutdownComplete,
                  shut, draining, drainee, looked>>
vars == <<recordVars, registered, cancelled, closed, queueVars, queueDue,
          dispVars, execClock, task, watchCancel, shutCancel, restart,
          expiryVars, apiClose, shutdownVars, backStop>>

-----------------------------------------------------------------------------
(***************************************************************************)
(* The registry.                                                           *)
(***************************************************************************)

TERMINAL == {"COMPLETED", "FAILED", "CANCELLED", "TIMED_OUT"}

ALLOWED ==
  [ RECEIVED    |-> {"PREFLIGHTED", "FAILED"},
    PREFLIGHTED |-> {"QUEUED", "FAILED"},
    QUEUED      |-> {"RUNNING", "CANCELLED", "TIMED_OUT", "FAILED"},
    RUNNING     |-> {"COMPLETED", "FAILED", "CANCELLED", "TIMED_OUT"} ]

Lifecycles == {"NONE", "QUEUED", "RUNNING"} \cup TERMINAL

Errors == {"none", "queue_timeout", "cancelled", "shutdown",
           "deadline_exceeded", "slow_consumer", "worker_error", "result"}

SetLifecycle(r, target, why) ==
  /\ life'     = [life EXCEPT ![r] = target]
  /\ error'    = [error EXCEPT ![r] = why]
  /\ notified' = [notified EXCEPT ![r] = IF target \in TERMINAL THEN @ + 1 ELSE @]

\* _transition_locked: a terminal record stays as it is, and only the
\* transition that won returns observers to notify.
Transition(r, target, why) ==
  IF life[r] \in TERMINAL THEN UNCHANGED recordVars
                          ELSE SetLifecycle(r, target, why)

\* Mutation: the lifecycle is assigned, not compared and changed.
AssignLifecycle(r, expected, target, why) == SetLifecycle(r, target, why)

\* compare_and_transition: a lost race changes nothing.
CompareAndTransition(r, expected, target, why) ==
  IF life[r] = expected THEN Transition(r, target, why)
                        ELSE UNCHANGED recordVars

\* RequestRegistry.cancel on a live record: only a queued one is settled here.
RegistryCancel(r) ==
  /\ cancelled' = cancelled \cup {r}
  /\ CompareAndTransition(r, "QUEUED", "CANCELLED", "cancelled")

\* Maintenance: prune_terminal removes a terminal record older than the TTL.
Prune(r) ==
  /\ r \in registered
  /\ life[r] \in TERMINAL
  /\ registered' = registered \ {r}
  /\ UNCHANGED <<recordVars, cancelled, closed, queueVars, queueDue, dispVars,
                 execClock, task, watchCancel, shutCancel, restart, expiryVars,
                 apiClose, shutdownVars, backStop>>

-----------------------------------------------------------------------------
(***************************************************************************)
(* API threads: submit and cancel.                                         *)
(***************************************************************************)

\* submit() holds the admission lock and the queue condition throughout, so
\* RECEIVED and PREFLIGHTED are never seen by another thread.  A rejected
\* submission (draining, queue_full) leaves no trace.
Submit(r) ==
  /\ accepting
  /\ Cardinality(pending) < Capacity
  /\ life[r] = "NONE"
  /\ Transition(r, "QUEUED", "none")
  /\ registered' = registered \cup {r}
  /\ pending'    = pending \cup {r}
  /\ ticket'     = [ticket EXCEPT ![r] = nextTicket]
  /\ nextTicket' = nextTicket + 1
  /\ UNCHANGED <<cancelled, closed, queueDue, dispVars, execClock, task,
                 watchCancel, shutCancel, restart, expiryVars, apiClose,
                 shutdownVars, backStop>>

\* cancel() up to the release of the queue condition.  The worker is told to
\* stop a running record outside the lock; the backend model may end the
\* execution at any time, so that call adds nothing here.
Cancel(r) ==
  /\ r \in registered
  /\ life[r] \notin TERMINAL
  /\ RegistryCancel(r)
  /\ IF life'[r] = "CANCELLED"
       THEN /\ pending'  = pending \ {r}
            /\ apiClose' = apiClose \cup {r}
       ELSE UNCHANGED <<pending, apiClose>>
  /\ UNCHANGED <<registered, closed, ticket, nextTicket, queueDue, dispVars,
                 execClock, task, watchCancel, shutCancel, restart, expiryVars,
                 shutdownVars, backStop>>

\* The rest of cancel(), after the lock: close the record's event buffer.
CancelClose(r) ==
  /\ r \in apiClose
  /\ closed'   = closed \cup {r}
  /\ apiClose' = apiClose \ {r}
  /\ UNCHANGED <<recordVars, registered, cancelled, queueVars, queueDue,
                 dispVars, execClock, task, watchCancel, shutCancel, restart,
                 expiryVars, shutdownVars, backStop>>

-----------------------------------------------------------------------------
(***************************************************************************)
(* The expiry thread: _expire_queued.                                      *)
(***************************************************************************)

Overdue == pending \cap queueDue

\* One pass under the queue condition: every overdue record is timed out (if
\* it is still queued) and removed before the lock is released.
ExpireQueued ==
  /\ expiry = "wait" /\ ~stopping
  /\ Overdue # {}
  /\ LET won == {r \in Overdue : life[r] = "QUEUED"}
     IN /\ life'     = [r \in Requests |-> IF r \in won THEN "TIMED_OUT" ELSE life[r]]
        /\ error'    = [r \in Requests |-> IF r \in won THEN "queue_timeout" ELSE error[r]]
        /\ notified' = [r \in Requests |-> IF r \in won THEN notified[r] + 1 ELSE notified[r]]
  /\ pending' = pending \ Overdue
  /\ expired' = Overdue
  /\ expiry'  = "close"
  /\ UNCHANGED <<registered, cancelled, closed, ticket, nextTicket, queueDue,
                 dispVars, execClock, task, watchCancel, shutCancel, restart,
                 apiClose, shutdownVars, backStop>>

ExpiryClose ==
  /\ expiry = "close"
  /\ closed'  = closed \cup {r \in expired : life[r] \in TERMINAL}
  /\ expiry'  = "wait"
  /\ expired' = {}
  /\ UNCHANGED <<recordVars, registered, cancelled, queueVars, queueDue,
                 dispVars, execClock, task, watchCancel, shutCancel, restart,
                 apiClose, shutdownVars, backStop>>

ExpiryStop ==
  /\ expiry = "wait" /\ stopping
  /\ expiry' = "done"
  /\ UNCHANGED <<recordVars, registered, cancelled, closed, queueVars, queueDue,
                 dispVars, execClock, task, watchCancel, shutCancel, restart,
                 expired, apiClose, shutdownVars, backStop>>

-----------------------------------------------------------------------------
(***************************************************************************)
(* The dispatcher thread: _run, one action per step between two locks.     *)
(***************************************************************************)

RestartAlive == restart \in {"starting", "running"}

\* What _run leaves alone while it only moves itself.
dispRest == <<registered, queueDue, shutCancel, expiryVars, apiClose,
              shutdownVars, backStop>>

\* Mutation: the loop does not wait for a restart under way.
AwaitNothing ==
  /\ disp = "await_restart"
  /\ disp' = IF stopping THEN "done" ELSE "next"
  /\ UNCHANGED <<recordVars, cancelled, closed, queueVars, current, verdict,
                 restartNeeded, execClock, task, watchCancel, restart, dispRest>>

\* _wait_for_restart
AwaitRestart ==
  /\ disp = "await_restart"
  /\ \/ stopping /\ disp' = "done"
     \/ ~stopping /\ ~RestartAlive /\ disp' = "next"
  /\ UNCHANGED <<recordVars, cancelled, closed, queueVars, current, verdict,
                 restartNeeded, execClock, task, watchCancel, restart, dispRest>>

\* Mutation: pop() instead of popleft().
Newest(r) == r \in pending /\ \A s \in pending : ticket[s] <= ticket[r]

Oldest(r) == r \in pending /\ \A s \in pending : ticket[r] <= ticket[s]

\* Mutation: the record is popped before the stop flag is looked at.
PopThenStop ==
  /\ disp = "next"
  /\ \E r \in pending :
       /\ Oldest(r)
       /\ pending' = pending \ {r}
       /\ current' = IF stopping THEN NoRequest ELSE r
  /\ disp' = IF stopping THEN "done" ELSE "popped"
  /\ UNCHANGED <<recordVars, cancelled, closed, ticket, nextTicket, verdict,
                 restartNeeded, execClock, task, watchCancel, restart, dispRest>>

\* _next_pending: stopping wins over a non-empty queue.
NextPending ==
  /\ disp = "next"
  /\ \/ /\ stopping
        /\ disp' = "done"
        /\ UNCHANGED <<pending, current>>
     \/ /\ ~stopping
        /\ \E r \in pending :
             /\ Oldest(r)
             /\ pending' = pending \ {r}
             /\ current' = r
        /\ disp' = "popped"
  /\ UNCHANGED <<recordVars, cancelled, closed, ticket, nextTicket, verdict,
                 restartNeeded, execClock, task, watchCancel, restart, dispRest>>

\* The guarded QUEUED -> RUNNING transition; the predicate is the deadline.
TryStart ==
  /\ disp = "popped"
  /\ IF life[current] = "QUEUED" /\ current \notin queueDue
       THEN /\ Transition(current, "RUNNING", "none")
            /\ disp' = "spawn"
            /\ execClock' = "open"
       ELSE /\ disp' = "not_started"
            /\ UNCHANGED <<recordVars, execClock>>
  /\ UNCHANGED <<cancelled, closed, queueVars, current, verdict, restartNeeded,
                 task, watchCancel, restart, dispRest>>

NotStarted ==
  /\ disp = "not_started"
  /\ CompareAndTransition(current, "QUEUED", "TIMED_OUT", "queue_timeout")
  /\ disp' = "close"
  /\ UNCHANGED <<cancelled, closed, queueVars, current, verdict, restartNeeded,
                 execClock, task, watchCancel, restart, dispRest>>

Spawn ==
  /\ disp = "spawn"
  /\ task' = [task EXCEPT ![current] = "alive"]
  /\ disp' = "watch"
  /\ UNCHANGED <<recordVars, cancelled, closed, queueVars, current, verdict,
                 restartNeeded, execClock, watchCancel, restart, dispRest>>

NoVerdict == <<"FAILED", "none">>

TaskAlive(r) == task[r] \in {"alive", "slow"}

\* Leaving the join loop because the record became terminal (shutdown).
WatchTerminal ==
  /\ disp = "watch"
  /\ life[current] \in TERMINAL
  /\ disp' = "close"
  /\ UNCHANGED <<recordVars, cancelled, closed, queueVars, current, verdict,
                 restartNeeded, execClock, task, watchCancel, restart, dispRest>>

\* Leaving it at the execution deadline with the task still running: set the
\* cancel event ...
WatchDeadline ==
  /\ disp = "watch"
  /\ life[current] \notin TERMINAL
  /\ TaskAlive(current) /\ execClock # "open"
  /\ cancelled' = cancelled \cup {current}
  /\ disp' = "overdue"
  /\ UNCHANGED <<recordVars, closed, queueVars, current, verdict, restartNeeded,
                 execClock, task, watchCancel, restart, dispRest>>

\* ... and deliver worker.cancel() from a tracked thread, whoever has settled
\* the record meanwhile.
SpawnCancel ==
  /\ disp = "overdue"
  /\ watchCancel' = watchCancel \cup {current}
  /\ disp' = "grace"
  /\ UNCHANGED <<recordVars, cancelled, closed, queueVars, current, verdict,
                 restartNeeded, execClock, task, restart, dispRest>>

\* The chain of branches on the outcome of a task that ended.
Verdict(r) ==
  IF task[r] = "slow_consumer" THEN <<"FAILED", "slow_consumer">>
  ELSE IF r \in cancelled      THEN <<"CANCELLED", "cancelled">>
  ELSE IF task[r] = "error"    THEN <<"FAILED", "worker_error">>
  ELSE <<"COMPLETED", "result">>

WatchEnded ==
  /\ disp = "watch"
  /\ life[current] \notin TERMINAL
  /\ ~TaskAlive(current)
  /\ verdict' = Verdict(current)
  /\ restartNeeded' = FALSE
  /\ disp' = "commit"
  /\ UNCHANGED <<recordVars, cancelled, closed, queueVars, current, execClock,
                 task, watchCancel, restart, dispRest>>

\* Mutation: the join after the deadline has no timeout.
GraceUnbounded ==
  /\ disp = "grace"
  /\ ~TaskAlive(current)
  /\ restartNeeded' = (current \in watchCancel)
  /\ verdict' = <<"TIMED_OUT", "deadline_exceeded">>
  /\ disp' = "commit"
  /\ UNCHANGED <<recordVars, cancelled, closed, queueVars, current, execClock,
                 task, watchCancel, restart, dispRest>>

\* The bounded join after the deadline; a thread that outlives it is wedged.
GraceEnd ==
  /\ disp = "grace"
  /\ ~TaskAlive(current) \/ execClock = "grace"
  /\ restartNeeded' = (TaskAlive(current) \/ current \in watchCancel)
  /\ verdict' = <<"TIMED_OUT", "deadline_exceeded">>
  /\ disp' = "commit"
  /\ UNCHANGED <<recordVars, cancelled, closed, queueVars, current, execClock,
                 task, watchCancel, restart, dispRest>>

\* compare_and_transition(RUNNING, ...) with the branch's target and error.
Commit ==
  /\ disp = "commit"
  /\ CompareAndTransition(current, "RUNNING", verdict[1], verdict[2])
  /\ disp' = IF restartNeeded THEN "schedule" ELSE "close"
  /\ UNCHANGED <<cancelled, closed, queueVars, current, verdict, restartNeeded,
                 execClock, task, watchCancel, restart, dispRest>>

\* _schedule_restart
ScheduleRestart ==
  /\ disp = "schedule"
  /\ restart' = IF shutdownStarted \/ RestartAlive THEN restart ELSE "starting"
  /\ restartNeeded' = FALSE
  /\ disp' = "close"
  /\ UNCHANGED <<recordVars, cancelled, closed, queueVars, current, verdict,
                 execClock, task, watchCancel, dispRest>>

\* _close_event_buffer(record) at the end of every branch of the loop.
CloseCurrent ==
  /\ disp = "close"
  /\ closed'  = closed \cup {current}
  /\ disp'    = "await_restart"
  \* the locals of this iteration go out of scope
  /\ current' = NoRequest /\ verdict' = NoVerdict /\ execClock' = "open"
  /\ task'    = [task EXCEPT ![current] =
                   IF TaskAlive(current) \/ @ = "idle" THEN @ ELSE "ended"]
  /\ UNCHANGED <<recordVars, cancelled, queueVars, restartNeeded, watchCancel,
                 restart, dispRest>>

DispatcherStep ==
  \/ AwaitRestart \/ NextPending \/ TryStart \/ NotStarted \/ Spawn
  \/ WatchTerminal \/ WatchDeadline \/ SpawnCancel \/ WatchEnded \/ GraceEnd
  \/ Commit \/ ScheduleRestart \/ CloseCurrent

-----------------------------------------------------------------------------
(***************************************************************************)
(* The worker backend, as the dispatcher sees it: request threads, the     *)
(* threads delivering a cancellation, the restart thread.                  *)
(***************************************************************************)

backendRest == <<recordVars, registered, closed, queueVars, queueDue, dispVars,
                 execClock, expiryVars, apiClose, shutdownVars>>

\* execute() meets a slow stream consumer: it sets the cancel event itself.
TaskSlow(r) ==
  /\ task[r] = "alive"
  /\ task' = [task EXCEPT ![r] = "slow"]
  /\ cancelled' = cancelled \cup {r}
  /\ UNCHANGED <<watchCancel, shutCancel, restart, backStop, backendRest>>

\* execute() returns a result or raises; after a slow consumer it raises.  The
\* outcome is local to the loop iteration that started the thread.
TaskEnd(r) ==
  /\ TaskAlive(r)
  /\ \E outcome \in IF r # current       THEN {"ended"}
                 ELSE IF task[r] = "slow" THEN {"slow_consumer", "error"}
                                          ELSE {"result", "error"} :
       task' = [task EXCEPT ![r] = outcome]
  /\ UNCHANGED <<cancelled, watchCancel, shutCancel, restart, backStop, backendRest>>

WatchCancelEnd(r) ==
  /\ r \in watchCancel
  /\ watchCancel' = watchCancel \ {r}
  /\ UNCHANGED <<cancelled, task, shutCancel, restart, backStop, backendRest>>

ShutCancelEnd(r) ==
  /\ r \in shutCancel
  /\ shutCancel' = shutCancel \ {r}
  /\ UNCHANGED <<cancelled, task, watchCancel, restart, backStop, backendRest>>

\* The restart thread: take the backend lifecycle lock, kill and restart.
\* Whether it succeeded is recorded and never read: the next request's
\* execute() finds out.
RestartStep ==
  /\ \/ restart = "starting" /\ backStop # "running" /\ restart' = "running"
     \/ restart = "running" /\ restart' = "idle"
  /\ UNCHANGED <<cancelled, task, watchCancel, shutCancel, backStop, backendRest>>

\* The backend shutdown thread takes the same lock.
BackStopStep ==
  /\ \/ backStop = "starting" /\ restart # "running" /\ backStop' = "running"
     \/ backStop = "running" /\ backStop' = "ended"
  /\ UNCHANGED <<cancelled, task, watchCancel, shutCancel, restart, backendRest>>

-----------------------------------------------------------------------------
(***************************************************************************)
(* shutdown(): the caller that holds _shutdown_call_lock.                  *)
(***************************************************************************)

shutdownRest == <<registered, ticket, nextTicket, queueDue, dispVars, execClock,
                  task, watchCancel, restart, expiryVars, apiClose>>

ShutdownFlags ==
  /\ \/ /\ shut = "idle"
        /\ accepting' = FALSE
        /\ shut' = "closed_admission"
        /\ UNCHANGED <<shutdownStarted, stopping, draining>>
     \/ /\ shut = "closed_admission"
        /\ shutdownStarted' = TRUE
        /\ shut' = "started"
        /\ UNCHANGED <<accepting, stopping, draining>>
     \/ /\ shut = "started"
        /\ stopping' = TRUE
        /\ draining' = registered
        /\ shut' = "drain"
        /\ UNCHANGED <<accepting, shutdownStarted>>
  /\ UNCHANGED <<recordVars, cancelled, closed, pending, shutCancel, backStop,
                 shutdownComplete, drainee, looked, shutdownRest>>

\* The snapshot loop, first half: skip a terminal record or cancel it.
DrainCancel(r) ==
  /\ shut = "drain" /\ drainee = NoRequest
  /\ r \in draining
  /\ draining' = draining \ {r}
  /\ IF life[r] \in TERMINAL
       THEN UNCHANGED <<recordVars, cancelled, drainee>>
       ELSE RegistryCancel(r) /\ drainee' = r
  /\ UNCHANGED <<closed, pending, shutCancel, backStop, accepting,
                 shutdownStarted, stopping, shutdownComplete, shut, looked,
                 shutdownRest>>

\* Mutation: shutdown does not close the streams it ends.
DrainKeepsStreams ==
  /\ shut = "drain" /\ drainee # NoRequest
  /\ CompareAndTransition(drainee, "RUNNING", "CANCELLED", "shutdown")
  /\ pending' = IF life[drainee] = "CANCELLED" THEN pending \ {drainee} ELSE pending
  /\ shutCancel' = IF life[drainee] = "RUNNING" THEN shutCancel \cup {drainee}
                                                ELSE shutCancel
  /\ drainee' = NoRequest
  /\ UNCHANGED <<cancelled, closed, backStop, accepting, shutdownStarted,
                 stopping, shutdownComplete, shut, draining, looked, shutdownRest>>

\* Second half: a queued record leaves the queue, a running one is cancelled
\* under it, and the buffer of what is now terminal is closed.
DrainSettle ==
  /\ shut = "drain" /\ drainee # NoRequest
  /\ CompareAndTransition(drainee, "RUNNING", "CANCELLED", "shutdown")
  /\ pending' = IF life[drainee] = "CANCELLED" THEN pending \ {drainee} ELSE pending
  /\ shutCancel' = IF life[drainee] = "RUNNING"
                     THEN shutCancel \cup {drainee} ELSE shutCancel
  /\ closed'  = IF life'[drainee] \in TERMINAL THEN closed \cup {drainee} ELSE closed
  /\ drainee' = NoRequest
  /\ UNCHANGED <<cancelled, backStop, accepting, shutdownStarted, stopping,
                 shutdownComplete, shut, draining, looked, shutdownRest>>

DrainDone ==
  /\ shut = "drain" /\ drainee = NoRequest /\ draining = {}
  /\ backStop' = "starting"
  /\ shut' = "join"
  /\ UNCHANGED <<recordVars, cancelled, closed, pending, shutCancel, accepting,
                 shutdownStarted, stopping, shutdownComplete, draining, drainee,
                 looked, shutdownRest>>

\* The live threads _start_tracked_thread has entered in _request_threads.
Tracked == {<<"execute", r>> : r \in {q \in Requests : TaskAlive(q)}}
             \cup {<<"cancel", r>> : r \in watchCancel}
             \cup {<<"shutdown", r>> : r \in shutCancel}

joinRest == <<recordVars, cancelled, closed, pending, shutCancel, backStop, accepting,
              shutdownStarted, stopping, draining, drainee, shutdownRest>>

\* Mutation: only the dispatcher's own threads are looked at.
LookAtMainThreads ==
  /\ shut = "join"
  /\ looked' = {}
  /\ shut'   = "looking"
  /\ UNCHANGED <<shutdownComplete, joinRest>>

\* _live_shutdown_threads, first half, under _request_threads_lock.  The join
\* loop before it may be left at any time, when its hard timeout is over, and
\* an incomplete shutdown may be called again and only joins.
LookAtThreads ==
  /\ shut = "join"
  /\ looked' = Tracked
  /\ shut'   = "looking"
  /\ UNCHANGED <<shutdownComplete, joinRest>>

\* Second half, under no lock: is_alive() of the dispatcher's own threads and
\* of the copied ones, but not of one started since.  The own threads stay
\* the same after _begin_shutdown, and the dead stay dead: one look at all of
\* them finds what looks one after another find.
MainThreadsEnded ==
  disp = "done" /\ expiry = "done" /\ ~RestartAlive /\ backStop = "ended"

LookEnds ==
  /\ shut = "looking"
  /\ shutdownComplete' = (MainThreadsEnded /\ looked \cap Tracked = {})
  /\ looked' = {}
  /\ shut'   = IF shutdownComplete' THEN "returned" ELSE "join"
  /\ UNCHANGED joinRest

ShutdownJoin == LookAtThreads \/ LookEnds

-----------------------------------------------------------------------------
(***************************************************************************)
(* The clock.                                                              *)
(***************************************************************************)

QueueDeadline(r) ==
  /\ life[r] = "QUEUED" /\ r \notin queueDue
  /\ queueDue' = queueDue \cup {r}
  /\ UNCHANGED <<recordVars, registered, cancelled, closed, queueVars, dispVars,
                 execClock, task, watchCancel, shutCancel, restart, expiryVars,
                 apiClose, shutdownVars, backStop>>

ExecDeadline ==
  /\ \/ disp = "watch" /\ execClock = "open" /\ execClock' = "deadline"
     \/ disp = "grace" /\ execClock = "deadline" /\ execClock' = "grace"
  /\ UNCHANGED <<recordVars, registered, cancelled, closed, queueVars, queueDue,
                 dispVars, task, watchCancel, shutCancel, restart, expiryVars,
                 apiClose, shutdownVars, backStop>>

-----------------------------------------------------------------------------

Init ==
  /\ life     = [r \in Requests |-> "NONE"]
  /\ error    = [r \in Requests |-> "none"]
  /\ notified = [r \in Requests |-> 0]
  /\ registered = {} /\ cancelled = {} /\ closed = {}
  /\ pending = {} /\ queueDue = {}
  /\ ticket = [r \in Requests |-> 0] /\ nextTicket = 0
  /\ disp = "await_restart" /\ current = NoRequest
  /\ verdict = NoVerdict
  /\ restartNeeded = FALSE
  /\ execClock = "open"
  /\ task = [r \in Requests |-> "idle"]
  /\ watchCancel = {} /\ shutCancel = {}
  /\ restart = "idle"
  /\ expiry = "wait" /\ expired = {}
  /\ apiClose = {}
  /\ accepting = TRUE
  /\ shutdownStarted = FALSE /\ stopping = FALSE /\ shutdownComplete = FALSE
  /\ shut = "idle" /\ draining = {} /\ drainee = NoRequest /\ looked = {}
  /\ backStop = "none"

ExpiryStep == ExpireQueued \/ ExpiryClose \/ ExpiryStop

DrainStep == (\E r \in Requests : DrainCancel(r)) \/ DrainSettle \/ DrainDone

Next ==
  \/ \E r \in Requests :
       \/ Submit(r) \/ Cancel(r) \/ CancelClose(r) \/ Prune(r)
       \/ TaskSlow(r) \/ TaskEnd(r) \/ WatchCancelEnd(r) \/ ShutCancelEnd(r)
       \/ QueueDeadline(r)
  \/ ExpiryStep \/ DispatcherStep \/ RestartStep \/ BackStopStep
  \/ ShutdownFlags \/ DrainStep \/ ShutdownJoin
  \/ ExecDeadline

\* Threads that are runnable run and deadlines pass.  Nothing is assumed of
\* the API callers, of execute() or of worker.cancel(): they may hang.
Fairness ==
  /\ WF_vars(DispatcherStep) /\ WF_vars(ExpiryStep)
  /\ WF_vars(RestartStep) /\ WF_vars(BackStopStep)
  /\ WF_vars(shut # "idle" /\ ShutdownFlags) /\ WF_vars(DrainStep)
  /\ WF_vars(ExecDeadline)
  /\ \A r \in Requests : WF_vars(QueueDeadline(r)) /\ WF_vars(CancelClose(r))

Spec     == Init /\ [][Next]_vars
FairSpec == Spec /\ Fairness

-----------------------------------------------------------------------------
(***************************************************************************)
(* Properties.                                                             *)
(***************************************************************************)

\* Type invariant: every variable stays in the set its declaration names.
TypeOK ==
  /\ life \in [Requests -> Lifecycles]
  /\ error \in [Requests -> Errors]
  /\ notified \in [Requests -> Nat]
  /\ registered \subseteq Requests /\ cancelled \subseteq Requests
  /\ closed \subseteq Requests /\ pending \subseteq Requests
  /\ queueDue \subseteq Requests /\ expired \subseteq Requests
  /\ apiClose \subseteq Requests /\ draining \subseteq Requests
  /\ ticket \in [Requests -> Nat] /\ nextTicket \in Nat
  /\ disp \in {"await_restart", "next", "popped", "not_started", "spawn",
               "watch", "overdue", "grace", "commit", "schedule", "close", "done"}
  /\ current \in Requests \cup {NoRequest}
  /\ drainee \in Requests \cup {NoRequest}
  /\ verdict \in TERMINAL \X Errors
  /\ restartNeeded \in BOOLEAN
  /\ execClock \in {"open", "deadline", "grace"}
  /\ task \in [Requests -> {"idle", "alive", "slow", "slow_consumer", "error",
                          "result", "ended"}]
  /\ watchCancel \subseteq Requests /\ shutCancel \subseteq Requests
  /\ restart \in {"idle", "starting", "running"}
  /\ expiry \in {"wait", "close", "done"}
  /\ accepting \in BOOLEAN /\ shutdownStarted \in BOOLEAN
  /\ stopping \in BOOLEAN /\ shutdownComplete \in BOOLEAN
  /\ shut \in {"idle", "closed_admission", "started", "drain", "join", "looking",
               "returned"}
  /\ looked \subseteq {"execute", "cancel", "shutdown"} \X Requests
  /\ backStop \in {"none", "starting", "running", "ended"}

\* No request is lost: a queued record is in the queue, or it is the one the
\* dispatcher thread popped and has not tried to start or time out yet.
NoLostRequest ==
  \A r \in Requests : life[r] = "QUEUED" =>
    r \in pending \/ (current = r /\ disp \in {"popped", "not_started"})

\* "Only live queued records are stored": a record in the deque is queued,
\* but for the one shutdown has just cancelled and is about to remove.
OnlyLivePending ==
  \A r \in pending : life[r] = "QUEUED" \/ (life[r] = "CANCELLED" /\ drainee = r)

\* The worker is serial: the only running record is the one the dispatcher
\* thread is supervising, and cancel, expiry or shutdown never leave behind a
\* running record nobody watches.
OneSupervisedRunner ==
  \A r \in Requests : life[r] = "RUNNING" =>
    current = r /\ disp \in {"spawn", "watch", "overdue", "grace", "commit"}

\* Every accepted record has one owner until it is settled: it waits in the
\* deque, is in the hands of the dispatcher thread, or is being supervised.
Owned == NoLostRequest /\ OnlyLivePending /\ OneSupervisedRunner

\* Exactly one terminal transition wins: the observers see every record that
\* ended once, whoever raced to end it.
NotifiedOnce ==
  \A r \in Requests : notified[r] = IF life[r] \in TERMINAL THEN 1 ELSE 0

\* A record that timed out in the queue was never sent to the worker, and one
\* whose execution completed had not been settled by anybody before.
QueueTimeoutNeverRan ==
  \A r \in Requests : error[r] = "queue_timeout" => task[r] = "idle"

\* Once shutdown has walked its snapshot every accepted record is settled and
\* the queue is empty, whatever the other threads were doing meanwhile.
ShutdownSettlesAll ==
  shut \in {"join", "looking", "returned"} =>
    /\ pending = {}
    /\ \A r \in Requests : life[r] \in TERMINAL \cup {"NONE"}

\* shutdown_complete is final: the dispatcher, expiry, restart and backend
\* shutdown threads have ended and start no thread again, every cancellation
\* shutdown() sent is over, and every stream is closed or is being closed by
\* its cancel() call.  At most one thread is left, which the dispatcher thread
\* started while shutdown() looked; its request is settled like all others.
CompleteIsFinal ==
  shutdownComplete =>
    /\ MainThreadsEnded
    /\ shutCancel = {}
    /\ \A s, t \in Tracked : s = t
    /\ \A r \in Requests : life[r] = "NONE" \/ r \in closed \cup apiClose

\* Shutdown is clean: it settles everything, and when it says it is complete
\* nothing of the dispatcher is alive but a late request thread.
ShutdownIsClean == ShutdownSettlesAll /\ CompleteIsFinal

\* No thread runs into the "invalid lifecycle transition" error: whatever the
\* races, every change of a record is one the ALLOWED table permits, so a
\* settled record is never reopened or settled otherwise.
LegalTransitions ==
  [][\A r \in Requests : life[r] \in {"NONE", life'[r]}
       \/ (life[r] \in DOMAIN ALLOWED /\ life'[r] \in ALLOWED[life[r]])]_vars

\* A request thread is only started while no backend restart is under way.
NoStartDuringRestart ==
  [][\A r \in Requests : task[r] = "idle" /\ task'[r] # "idle" => ~RestartAlive]_vars

\* Every settled request's stream is closed, so that its reader returns.
EveryStreamCloses ==
  \A r \in Requests : life[r] \in TERMINAL ~> r \in closed

-----------------------------------------------------------------------------
(***************************************************************************)
(* The dispatcher implements RequestService.  The popped record no longer  *)
(* occupies the deque but still waits, hence the bound.                    *)
(***************************************************************************)

ServiceStatus(s) ==
  IF s \in TERMINAL THEN "settled"
  ELSE [NONE |-> "new", QUEUED |-> "waiting", RUNNING |-> "running"][s]

Service == INSTANCE RequestService WITH
  Bound    <- Capacity + 1,
  status   <- [r \in Requests |-> ServiceStatus(life[r])],
  rank     <- ticket,
  nextRank <- nextTicket

\* Clients get a bounded first-come-first-served service whose every accepted
\* request is settled exactly once: RequestService, liveness included.
ImplementsService == Service!Spec

\* The safety half alone.
ImplementsServiceSafely == Service!Safety
=============================================================================
