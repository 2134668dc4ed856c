-------------------------- MODULE DispatcherProofs --------------------------
(***************************************************************************)
(* Theorems about the dispatcher, for every finite set of requests and     *)
(* every queue capacity.                                                   *)
(***************************************************************************)
EXTENDS Dispatcher, FiniteSetTheorems, TLAPS

USE DEF recordVars, queueVars, dispVars, expiryVars, shutdownVars, dispRest,
        backendRest, shutdownRest, joinRest

-----------------------------------------------------------------------------
(***************************************************************************)
(* Type correctness.  TypeOK alone is not inductive: the steps of _run     *)
(* that use the record they hold rely on there being one.                  *)
(***************************************************************************)

\* The dispatcher thread holds a record exactly while it works on one.
HoldsRecord == (current = NoRequest) <=> (disp \in {"await_restart", "next", "done"})

TypeInv == TypeOK /\ HoldsRecord

RecordType ==
  /\ life \in [Requests -> Lifecycles]
  /\ error \in [Requests -> Errors]
  /\ notified \in [Requests -> Nat]

FlagType ==
  /\ restartNeeded \in BOOLEAN
  /\ accepting \in BOOLEAN /\ shutdownStarted \in BOOLEAN
  /\ stopping \in BOOLEAN /\ shutdownComplete \in BOOLEAN

\* What a transition does to the type of the record variables.
LEMMA TransitionType ==
  ASSUME TypeOK, NEW r, NEW expected, NEW target \in Lifecycles, NEW why \in Errors,
         \/ Transition(r, target, why)
         \/ CompareAndTransition(r, expected, target, why)
         \/ UNCHANGED recordVars
  PROVE  RecordType'
BY DEF TypeOK, RecordType, Transition, CompareAndTransition, SetLifecycle

\* Every step of every thread of the dispatcher keeps the types.
LEMMA TypeStep == TypeInv /\ [Next]_vars => TypeInv'
<1> SUFFICES ASSUME TypeInv, [Next]_vars PROVE TypeInv'
  OBVIOUS
<1> USE RequestsAssumption DEF TypeInv, HoldsRecord
<1>0. /\ {"QUEUED", "RUNNING", "CANCELLED", "TIMED_OUT"} \subseteq Lifecycles
      /\ {"none", "cancelled", "queue_timeout", "shutdown"} \subseteq Errors
      /\ verdict[1] \in Lifecycles /\ verdict[2] \in Errors
  BY DEF TypeOK, Lifecycles, Errors, TERMINAL
<1>1. ASSUME NEW r \in Requests, Submit(r) PROVE TypeInv'
  <2>1. RecordType'
    BY <1>0, <1>1, TransitionType DEF Submit
  <2>2. FlagType'
    BY <1>1, Zenon DEF Submit, TypeOK, FlagType
  <2>3. /\ ticket' \in [Requests -> Nat] /\ nextTicket' \in Nat
        /\ pending' \subseteq Requests /\ registered' \subseteq Requests
        /\ UNCHANGED <<cancelled, closed, queueDue, dispVars, execClock, task,
                       watchCancel, shutCancel, restart, expiryVars, apiClose,
                       shutdownVars, backStop>>
    BY <1>1 DEF Submit, TypeOK
  <2>4. TypeOK'
    BY <2>1, <2>2, <2>3 DEF TypeOK, RecordType, FlagType
  <2> QED BY <1>1, <2>4 DEF Submit
<1>2. ASSUME NEW r \in Requests, Cancel(r) PROVE TypeInv'
  <2>1. RecordType'
    BY <1>0, <1>2, TransitionType DEF Cancel, RegistryCancel
  <2> QED BY <1>2, <2>1 DEF Cancel, RegistryCancel, TypeOK, RecordType
<1>3. ASSUME NEW r \in Requests, DrainCancel(r) PROVE TypeInv'
  <2>1. RecordType'
    BY <1>0, <1>3, TransitionType DEF DrainCancel, RegistryCancel
  <2> QED BY <1>3, <2>1 DEF DrainCancel, RegistryCancel, TypeOK, RecordType
<1>4. ASSUME NEW r \in Requests, CancelClose(r) \/ Prune(r) \/ QueueDeadline(r)
      PROVE TypeInv'
  BY <1>4 DEF CancelClose, Prune, QueueDeadline, TypeOK
<1>5. ASSUME NEW r \in Requests,
             TaskSlow(r) \/ TaskEnd(r) \/ WatchCancelEnd(r) \/ ShutCancelEnd(r)
      PROVE TypeInv'
  BY <1>5 DEF TaskSlow, TaskEnd, TaskAlive, WatchCancelEnd, ShutCancelEnd, TypeOK
<1>6. ASSUME ExpiryStep PROVE TypeInv'
  <2>1. RecordType'
    BY <1>6 DEF ExpiryStep, ExpireQueued, ExpiryClose, ExpiryStop, TypeOK, RecordType,
                Lifecycles, Errors, TERMINAL
  <2> QED BY <1>6, <2>1
          DEF ExpiryStep, ExpireQueued, ExpiryClose, ExpiryStop, Overdue, TypeOK, RecordType
<1>7. ASSUME DispatcherStep PROVE TypeInv'
  <2>1. CASE AwaitRestart \/ NextPending
    BY <2>1 DEF AwaitRestart, NextPending, Oldest, TypeOK
  <2>2. CASE TryStart
    <3>1. RecordType'
      BY <1>0, <2>2, TransitionType DEF TryStart
    <3> QED BY <2>2, <3>1 DEF TryStart, TypeOK, RecordType
  <2>3. CASE NotStarted
    <3>1. RecordType'
      BY <1>0, <2>3, TransitionType DEF NotStarted
    <3> QED BY <2>3, <3>1 DEF NotStarted, TypeOK, RecordType
  <2>4. CASE Spawn \/ WatchTerminal \/ WatchDeadline \/ SpawnCancel
    BY <2>4 DEF Spawn, WatchTerminal, WatchDeadline, SpawnCancel, TypeOK
  <2>5. CASE WatchEnded
    <3>1. verdict' \in TERMINAL \X Errors
      BY <2>5 DEF WatchEnded, Verdict, TERMINAL, Errors
    <3>2. FlagType'
      BY <2>5, Zenon DEF WatchEnded, TypeOK, FlagType
    <3>3. TypeOK'
      BY <2>5, <3>1, <3>2 DEF WatchEnded, TypeOK, FlagType
    <3> QED BY <2>5, <3>3 DEF WatchEnded
  <2>6. CASE GraceEnd
    <3>1. restartNeeded' \in BOOLEAN
      BY <2>6, Zenon DEF GraceEnd
    <3>2. verdict' \in TERMINAL \X Errors
      BY <2>6 DEF GraceEnd, TERMINAL, Errors
    <3> QED BY <2>6, <3>1, <3>2 DEF GraceEnd, TypeOK
  <2>7. CASE Commit
    <3>1. RecordType'
      BY <1>0, <2>7, TransitionType DEF Commit
    <3> QED BY <2>7, <3>1 DEF Commit, TypeOK, RecordType
  <2>8. CASE ScheduleRestart
    <3>1. FlagType'
      BY <2>8, Zenon DEF ScheduleRestart, TypeOK, FlagType
    <3>2. TypeOK'
      BY <2>8, <3>1 DEF ScheduleRestart, TypeOK, FlagType
    <3> QED BY <2>8, <3>2 DEF ScheduleRestart
  <2>9. CASE CloseCurrent
    <3>1. verdict' \in TERMINAL \X Errors
      BY <2>9 DEF CloseCurrent, NoVerdict, TERMINAL, Errors
    <3> QED BY <2>9, <3>1 DEF CloseCurrent, TaskAlive, TypeOK
  <2> QED BY <1>7, <2>1, <2>2, <2>3, <2>4, <2>5, <2>6, <2>7, <2>8, <2>9
          DEF DispatcherStep
<1>8. ASSUME RestartStep \/ BackStopStep \/ ExecDeadline PROVE TypeInv'
  BY <1>8 DEF RestartStep, BackStopStep, ExecDeadline, TypeOK
<1>9. ASSUME ShutdownFlags PROVE TypeInv'
  <2>1. FlagType'
    BY <1>9, Zenon DEF ShutdownFlags, TypeOK, FlagType
  <2>2. TypeOK'
    BY <1>9, <2>1 DEF ShutdownFlags, TypeOK, FlagType
  <2> QED BY <1>9, <2>2 DEF ShutdownFlags
<1>10. ASSUME ShutdownJoin PROVE TypeInv'
  <2>1. shutdownComplete' \in BOOLEAN
    BY <1>10, Zenon DEF ShutdownJoin, LookAtThreads, LookEnds, TypeOK
  <2>2. looked' \subseteq {"execute", "cancel", "shutdown"} \X Requests
    BY <1>10 DEF ShutdownJoin, LookAtThreads, LookEnds, Tracked, TypeOK
  <2>3. /\ shut' \in {"idle", "closed_admission", "started", "drain", "join", "looking",
                      "returned"}
        /\ UNCHANGED <<joinRest, registered, pending>>
    BY <1>10 DEF ShutdownJoin, LookAtThreads, LookEnds
  <2>4. TypeOK'
    BY <2>1, <2>2, <2>3 DEF TypeOK
  <2> QED BY <2>3, <2>4
<1>11. ASSUME DrainSettle PROVE TypeInv'
  <2>1. RecordType'
    BY <1>0, <1>11, TransitionType DEF DrainSettle
  <2> QED BY <1>11, <2>1 DEF DrainSettle, TypeOK, RecordType
<1>12. ASSUME DrainDone PROVE TypeInv'
  BY <1>12 DEF DrainDone, TypeOK
<1>13. CASE UNCHANGED vars
  BY <1>13 DEF vars, TypeOK
<1> QED BY <1>1, <1>2, <1>3, <1>4, <1>5, <1>6, <1>7, <1>8, <1>9, <1>10, <1>11,
           <1>12, <1>13 DEF Next, DrainStep

-----------------------------------------------------------------------------
(***************************************************************************)
(* Who owns a record.  A live record is always in the hands of exactly one *)
(* thread or of the queue; the lifecycle says which.                       *)
(***************************************************************************)

\* What the dispatcher thread knows of the lifecycle of the record it holds.
HeldLifecycle ==
  /\ current \notin pending
  /\ disp \in {"popped", "not_started"} => life[current] \in {"QUEUED"} \cup TERMINAL
  /\ disp \in {"spawn", "watch", "overdue", "grace", "commit"} =>
       life[current] \in {"RUNNING"} \cup TERMINAL
  /\ disp \in {"schedule", "close"} => life[current] \in TERMINAL

\* A record shutdown has cancelled is no longer queued.
DraineeLifecycle ==
  drainee # NoRequest => life[drainee] \in {"RUNNING"} \cup TERMINAL

\* The registry and the snapshot hold created records only.
KnownRecords == \A r \in registered \cup draining : life[r] # "NONE"

OwnerInv ==
  /\ HeldLifecycle /\ DraineeLifecycle /\ KnownRecords
  /\ NoLostRequest /\ OnlyLivePending /\ OneSupervisedRunner

\* Before the snapshot nothing is drained; after it every record that is not
\* settled is still in front of the loop or under its cursor, and is one the
\* registry can find.
DrainInv ==
  /\ \A r \in Requests : life[r] \in {"QUEUED", "RUNNING"} => r \in registered
  /\ shut # "idle" => ~accepting
  /\ shut # "drain" => drainee = NoRequest
  /\ shut \in {"drain", "join", "looking", "returned"} =>
       \A r \in Requests : life[r] \in {"QUEUED", "RUNNING"} => r \in draining \cup {drainee}
  /\ shut \in {"join", "looking", "returned"} => draining = {}

\* Every settled record's stream is closed or somebody is about to close it.
StreamInv ==
  /\ \A r \in Requests : life[r] \in TERMINAL =>
       r \in closed \cup apiClose \cup expired \cup {current, drainee}
  /\ expired # {} => expiry = "close"
  /\ \A r \in expired : life[r] \in TERMINAL

\* A restart begins only after the last request thread was started and is
\* over before the next one is.
RestartInv ==
  disp \notin {"await_restart", "close", "done"} => ~RestartAlive

\* A thread the copy misses is one the dispatcher thread started since, for a
\* record it held: after that it has no more to start, and shutdown() starts
\* none.
LookInv ==
  shut = "looking" =>
    /\ \A r \in shutCancel : <<"shutdown", r>> \in looked
    /\ \A s, t \in Tracked \ looked : s = t
    /\ disp \in {"spawn", "overdue"} => Tracked \subseteq looked

\* A complete shutdown leaves nobody who could start a thread.
QuietInv ==
  shutdownComplete =>
    /\ shut = "returned" /\ MainThreadsEnded
    /\ shutCancel = {}
    /\ \A s, t \in Tracked : s = t

\* A request thread starts after the record's last chance to expire.
ExpiryInv ==
  /\ \A r \in Requests : life[r] \in {"NONE", "QUEUED"} \/ r \in pending => task[r] = "idle"
  /\ \A r \in Requests : error[r] = "queue_timeout" => life[r] = "TIMED_OUT"
  /\ disp \in {"popped", "not_started", "spawn"} => task[current] = "idle"
  /\ disp = "spawn" => error[current] # "queue_timeout"
  /\ verdict[2] # "queue_timeout"
  /\ QueueTimeoutNeverRan

\* The steps that change neither a lifecycle nor who holds a record.
FrameStep ==
  \/ \E r \in Requests :
       \/ CancelClose(r) \/ Prune(r) \/ TaskSlow(r) \/ TaskEnd(r)
       \/ WatchCancelEnd(r) \/ ShutCancelEnd(r) \/ QueueDeadline(r)
  \/ ExpiryClose \/ ExpiryStop \/ RestartStep \/ BackStopStep
  \/ ShutdownFlags \/ DrainDone \/ ShutdownJoin \/ ExecDeadline
  \/ UNCHANGED vars

\* The frame steps leave lifecycles, the queue and the held records alone.
LEMMA FrameEffect ==
  ASSUME FrameStep
  PROVE  /\ UNCHANGED <<recordVars, queueVars, disp, current, verdict, drainee>>
         /\ registered' \subseteq registered
         /\ draining' \subseteq draining \cup registered
<1>1. ASSUME NEW r \in Requests,
             \/ CancelClose(r) \/ Prune(r) \/ TaskSlow(r) \/ TaskEnd(r)
             \/ WatchCancelEnd(r) \/ ShutCancelEnd(r) \/ QueueDeadline(r)
      PROVE /\ UNCHANGED <<recordVars, queueVars, disp, current, verdict, drainee>>
            /\ registered' \subseteq registered
            /\ draining' \subseteq draining \cup registered
  BY <1>1 DEF CancelClose, Prune, TaskSlow, TaskEnd, WatchCancelEnd,
              ShutCancelEnd, QueueDeadline
<1>2. ASSUME \/ ExpiryClose \/ ExpiryStop \/ RestartStep \/ BackStopStep
             \/ ShutdownFlags \/ DrainDone \/ ShutdownJoin \/ ExecDeadline
             \/ UNCHANGED vars
      PROVE /\ UNCHANGED <<recordVars, queueVars, disp, current, verdict, drainee>>
            /\ registered' \subseteq registered
            /\ draining' \subseteq draining \cup registered
  BY <1>2 DEF ExpiryClose, ExpiryStop, RestartStep, BackStopStep, ShutdownFlags,
              DrainDone, ShutdownJoin, LookAtThreads, LookEnds, ExecDeadline, vars
<1> QED BY <1>1, <1>2 DEF FrameStep

\* How one step changes one lifecycle.
LEMMA TransitionEffect ==
  ASSUME TypeOK, NEW r, NEW expected, NEW target, NEW why,
         CompareAndTransition(r, expected, target, why)
  PROVE  IF life[r] = expected /\ expected \notin TERMINAL
           THEN SetLifecycle(r, target, why) ELSE UNCHANGED recordVars
BY DEF CompareAndTransition, Transition

\* Every step of the dispatcher keeps each live record in exactly one pair of
\* hands: the queue's or the dispatcher thread's.
LEMMA OwnerStep == TypeInv /\ OwnerInv /\ [Next]_vars => OwnerInv'
<1> SUFFICES ASSUME TypeInv, OwnerInv, [Next]_vars PROVE OwnerInv'
  OBVIOUS
<1> USE RequestsAssumption
    DEF TypeInv, HoldsRecord, OwnerInv, HeldLifecycle, DraineeLifecycle,
        KnownRecords, NoLostRequest, OnlyLivePending, OneSupervisedRunner, TERMINAL,
        CompareAndTransition, Transition, SetLifecycle
<1>0. /\ life \in [Requests -> Lifecycles] /\ pending \subseteq Requests
      /\ current \in Requests \cup {NoRequest} /\ drainee \in Requests \cup {NoRequest}
      /\ registered \subseteq Requests /\ draining \subseteq Requests
      /\ verdict[1] \in TERMINAL
  BY DEF TypeOK
<1>1. CASE FrameStep
  BY <1>1, FrameEffect
<1>2. ASSUME NEW r \in Requests, Submit(r) PROVE OwnerInv'
  <2>1. current # r
    BY <1>2 DEF Submit, TypeOK
  <2> QED BY <1>0, <1>2, <2>1 DEF Submit
<1>3. ASSUME NEW r \in Requests, Cancel(r) PROVE OwnerInv'
  BY <1>0, <1>3 DEF Cancel, RegistryCancel
<1>4. CASE ExpireQueued
  BY <1>0, <1>4 DEF ExpireQueued, Overdue
<1>5. CASE DispatcherStep
  <2>1. CASE AwaitRestart
    BY <1>0, <2>1 DEF AwaitRestart
  <2>2. CASE NextPending
    BY <1>0, <2>2 DEF NextPending, Oldest
  <2>3. CASE TryStart
    BY <1>0, <2>3 DEF TryStart
  <2>4. CASE NotStarted
    BY <1>0, <2>4 DEF NotStarted
  <2>5. CASE Spawn \/ WatchTerminal \/ WatchDeadline \/ SpawnCancel \/ WatchEnded \/ GraceEnd
    BY <1>0, <2>5 DEF Spawn, WatchTerminal, WatchDeadline, SpawnCancel, WatchEnded, GraceEnd
  <2>6. CASE Commit
    BY <1>0, <2>6 DEF Commit
  <2>7. CASE ScheduleRestart \/ CloseCurrent
    BY <1>0, <2>7 DEF ScheduleRestart, CloseCurrent
  <2> QED BY <1>5, <2>1, <2>2, <2>3, <2>4, <2>5, <2>6, <2>7 DEF DispatcherStep
<1>6. ASSUME NEW r \in Requests, DrainCancel(r) PROVE OwnerInv'
  BY <1>0, <1>6 DEF DrainCancel, RegistryCancel, Lifecycles
<1>7. CASE DrainSettle
  BY <1>0, <1>7 DEF DrainSettle
<1> QED BY <1>1, <1>2, <1>3, <1>4, <1>5, <1>6, <1>7
        DEF Next, FrameStep, ExpiryStep, DrainStep

\* Init establishes the invariants of this module.
LEMMA InitInv == Init => TypeInv /\ OwnerInv
<1>1. NoVerdict \in TERMINAL \X Errors /\ "NONE" \in Lifecycles /\ "none" \in Errors
  BY DEF NoVerdict, TERMINAL, Errors, Lifecycles
<1>2. Init => FlagType
  BY Zenon DEF Init, FlagType
<1>3. Init => TypeOK
  BY <1>1, <1>2 DEF Init, TypeOK, FlagType
<1>4. Init => OwnerInv
  BY DEF Init, OwnerInv, HeldLifecycle, DraineeLifecycle, KnownRecords,
         NoLostRequest, OnlyLivePending, OneSupervisedRunner
<1> QED BY <1>3, <1>4 DEF Init, TypeInv, HoldsRecord

\* Type correctness: no interleaving of the dispatcher's threads takes a
\* variable out of the values its declaration names.
THEOREM TypeCorrect == Spec => []TypeOK
<1>1. TypeInv => TypeOK
  BY DEF TypeInv
<1> QED BY <1>1, InitInv, TypeStep, PTL DEF Spec

\* Ownership: for every number of requests and every interleaving of submit,
\* cancel, expiry, dispatch, restart and shutdown, no queued record is lost,
\* the deque holds live records only, and the one running record is supervised.
THEOREM Ownership == Spec => []Owned
<1>1. OwnerInv => Owned
  BY DEF OwnerInv, Owned
<1> QED BY <1>1, InitInv, TypeStep, OwnerStep, PTL DEF Spec

\* Exactly one terminal transition wins, whichever threads race for a record.
THEOREM SettledOnce == Spec => []NotifiedOnce
<1>1. Init => NotifiedOnce
  BY DEF Init, NotifiedOnce, TERMINAL
<1>2. TypeInv /\ OwnerInv /\ NotifiedOnce /\ [Next]_vars => NotifiedOnce'
  <2> SUFFICES ASSUME TypeInv, OwnerInv, NotifiedOnce, [Next]_vars PROVE NotifiedOnce'
    OBVIOUS
  <2>0. /\ life \in [Requests -> Lifecycles] /\ notified \in [Requests -> Nat]
        /\ verdict[1] \in TERMINAL
    BY DEF TypeInv, TypeOK
  <2> USE DEF NotifiedOnce, CompareAndTransition, Transition, SetLifecycle
  <2>1. CASE FrameStep
    BY <2>1, FrameEffect
  <2>2. ASSUME NEW r \in Requests, Submit(r) PROVE NotifiedOnce'
    BY <2>0, <2>2 DEF Submit, TERMINAL
  <2>3. ASSUME NEW r \in Requests, Cancel(r) \/ DrainCancel(r) PROVE NotifiedOnce'
    BY <2>0, <2>3 DEF Cancel, DrainCancel, RegistryCancel, TERMINAL
  <2>4. CASE ExpireQueued
    BY <2>0, <2>4 DEF ExpireQueued, TERMINAL
  <2>5. CASE DispatcherStep
    <3>1. CASE \/ AwaitRestart \/ NextPending \/ Spawn \/ WatchTerminal \/ WatchDeadline
               \/ SpawnCancel \/ WatchEnded \/ GraceEnd \/ ScheduleRestart \/ CloseCurrent
      BY <3>1 DEF AwaitRestart, NextPending, Spawn, WatchTerminal, WatchDeadline, SpawnCancel,
                  WatchEnded, GraceEnd, ScheduleRestart, CloseCurrent
    <3>2. CASE TryStart \/ NotStarted
      BY <2>0, <3>2 DEF TryStart, NotStarted, TERMINAL
    <3>3. CASE Commit
      BY <2>0, <3>3 DEF Commit, TERMINAL
    <3> QED BY <2>5, <3>1, <3>2, <3>3 DEF DispatcherStep
  <2>6. CASE DrainSettle
    BY <2>0, <2>6 DEF DrainSettle, TERMINAL
  <2> QED BY <2>1, <2>2, <2>3, <2>4, <2>5, <2>6
          DEF Next, FrameStep, ExpiryStep, DrainStep
<1> QED BY <1>1, <1>2, InitInv, TypeStep, OwnerStep, PTL DEF Spec

\* A settled record never changes, and no thread asks for a lifecycle change
\* that the ALLOWED table refuses.
THEOREM OnlyLegalTransitions == Spec => LegalTransitions
<1> DEFINE Legal == \A r \in Requests : life[r] \in {"NONE", life'[r]}
       \/ (life[r] \in DOMAIN ALLOWED /\ life'[r] \in ALLOWED[life[r]])
<1>1. TypeInv /\ OwnerInv /\ [Next]_vars => Legal
  <2> SUFFICES ASSUME TypeInv, OwnerInv, [Next]_vars PROVE Legal
    OBVIOUS
  <2>0. /\ life \in [Requests -> Lifecycles] /\ verdict[1] \in TERMINAL
    BY DEF TypeInv, TypeOK
  <2>A. /\ {"QUEUED", "RUNNING"} \subseteq DOMAIN ALLOWED
        /\ {"RUNNING", "CANCELLED", "TIMED_OUT"} \subseteq ALLOWED["QUEUED"]
        /\ TERMINAL \subseteq ALLOWED["RUNNING"]
    BY DEF ALLOWED, TERMINAL
  <2> USE DEF CompareAndTransition, Transition, SetLifecycle
  <2>1. CASE FrameStep
    BY <2>1, FrameEffect
  <2>2. ASSUME NEW r \in Requests, Submit(r) PROVE Legal
    BY <2>0, <2>2 DEF Submit
  <2>3. ASSUME NEW r \in Requests, Cancel(r) \/ DrainCancel(r) PROVE Legal
    BY <2>0, <2>A, <2>3 DEF Cancel, DrainCancel, RegistryCancel
  <2>4. CASE ExpireQueued
    BY <2>0, <2>A, <2>4 DEF ExpireQueued
  <2>5. CASE DispatcherStep
    <3>1. CASE \/ AwaitRestart \/ NextPending \/ Spawn \/ WatchTerminal \/ WatchDeadline
               \/ SpawnCancel \/ WatchEnded \/ GraceEnd \/ ScheduleRestart \/ CloseCurrent
      BY <3>1 DEF AwaitRestart, NextPending, Spawn, WatchTerminal, WatchDeadline, SpawnCancel,
                  WatchEnded, GraceEnd, ScheduleRestart, CloseCurrent
    <3>2. CASE TryStart \/ NotStarted
      BY <2>0, <2>A, <3>2 DEF TryStart, NotStarted
    <3>3. CASE Commit
      BY <2>0, <2>A, <3>3 DEF Commit
    <3> QED BY <2>5, <3>1, <3>2, <3>3 DEF DispatcherStep
  <2>6. CASE DrainSettle
    BY <2>0, <2>A, <2>6 DEF DrainSettle, TERMINAL
  <2> QED BY <2>1, <2>2, <2>3, <2>4, <2>5, <2>6
          DEF Next, FrameStep, ExpiryStep, DrainStep
<1> QED BY <1>1, InitInv, TypeStep, OwnerStep, PTL DEF Spec, LegalTransitions

-----------------------------------------------------------------------------
(***************************************************************************)
(* Shutdown, streams, restarts and queue timeouts.                         *)
(***************************************************************************)

\* Every step keeps the shutdown walk ahead of the records it has to settle.
LEMMA DrainStepInv ==
  TypeInv /\ OwnerInv /\ DrainInv /\ [Next]_vars => DrainInv'
<1> SUFFICES ASSUME TypeInv, OwnerInv, DrainInv, [Next]_vars PROVE DrainInv'
  OBVIOUS
<1> USE RequestsAssumption
    DEF DrainInv, DraineeLifecycle, CompareAndTransition, Transition, SetLifecycle
<1>0. /\ life \in [Requests -> Lifecycles] /\ draining \subseteq Requests
      /\ drainee \in Requests \cup {NoRequest} /\ verdict[1] \in TERMINAL
      /\ DraineeLifecycle
  BY DEF TypeInv, TypeOK, OwnerInv
<1>1. ASSUME NEW r \in Requests, Submit(r) PROVE DrainInv'
  BY <1>0, <1>1 DEF Submit
<1>2. ASSUME NEW r \in Requests, Cancel(r) PROVE DrainInv'
  BY <1>0, <1>2 DEF Cancel, RegistryCancel
<1>3. ASSUME NEW r \in Requests,
             \/ CancelClose(r) \/ Prune(r) \/ TaskSlow(r) \/ TaskEnd(r)
             \/ WatchCancelEnd(r) \/ ShutCancelEnd(r) \/ QueueDeadline(r)
      PROVE DrainInv'
  BY <1>0, <1>3 DEF CancelClose, Prune, TaskSlow, TaskEnd, WatchCancelEnd,
              ShutCancelEnd, QueueDeadline, TERMINAL
<1>4. CASE ExpiryStep
  BY <1>0, <1>4 DEF ExpiryStep, ExpireQueued, ExpiryClose, ExpiryStop
<1>5. CASE DispatcherStep
  <2>1. CASE \/ AwaitRestart \/ NextPending \/ Spawn \/ WatchTerminal \/ WatchDeadline
             \/ SpawnCancel \/ WatchEnded \/ GraceEnd \/ ScheduleRestart \/ CloseCurrent
    BY <2>1 DEF AwaitRestart, NextPending, Spawn, WatchTerminal, WatchDeadline, SpawnCancel,
                WatchEnded, GraceEnd, ScheduleRestart, CloseCurrent
  <2>2. CASE TryStart \/ NotStarted
    BY <1>0, <2>2 DEF TryStart, NotStarted
  <2>3. CASE Commit
    BY <1>0, <2>3 DEF Commit, TERMINAL
  <2> QED BY <1>5, <2>1, <2>2, <2>3 DEF DispatcherStep
<1>6. CASE RestartStep \/ BackStopStep \/ ExecDeadline \/ UNCHANGED vars
  BY <1>6 DEF RestartStep, BackStopStep, ExecDeadline, vars
<1>7. CASE ShutdownFlags
  BY <1>7 DEF ShutdownFlags
<1>8. ASSUME NEW r \in Requests, DrainCancel(r) PROVE DrainInv'
  BY <1>0, <1>8 DEF DrainCancel, RegistryCancel, TERMINAL
<1>9. CASE DrainSettle
  BY <1>0, <1>9 DEF DrainSettle, TERMINAL
<1>10. CASE DrainDone \/ ShutdownJoin
  BY <1>10 DEF DrainDone, ShutdownJoin, LookAtThreads, LookEnds
<1> QED BY <1>1, <1>2, <1>3, <1>4, <1>5, <1>6, <1>7, <1>8, <1>9, <1>10
        DEF Next, DrainStep

\* Once shutdown() has walked the registry, every accepted record is settled
\* and the queue is empty, although clients, the expiry thread and the
\* dispatcher thread kept working during the walk.
THEOREM ShutdownSettles == Spec => []ShutdownSettlesAll
<1>1. Init => DrainInv
  BY DEF Init, DrainInv
<1>2. TypeInv /\ OwnerInv /\ DrainInv => ShutdownSettlesAll
  BY RequestsAssumption DEF TypeInv, TypeOK, Lifecycles, OwnerInv, OnlyLivePending,
     DrainInv, ShutdownSettlesAll
<1> QED BY <1>1, <1>2, InitInv, TypeStep, OwnerStep, DrainStepInv, PTL DEF Spec

\* Every settled record's stream has somebody to close it until it is closed.
LEMMA StreamStep ==
  TypeInv /\ OwnerInv /\ StreamInv /\ [Next]_vars => StreamInv'
<1> SUFFICES ASSUME TypeInv, OwnerInv, StreamInv, [Next]_vars PROVE StreamInv'
  OBVIOUS
<1> USE RequestsAssumption
    DEF StreamInv, CompareAndTransition, Transition, SetLifecycle, TERMINAL
<1>0. /\ life \in [Requests -> Lifecycles] /\ pending \subseteq Requests
      /\ expired \subseteq Requests
      /\ current \in Requests \cup {NoRequest} /\ drainee \in Requests \cup {NoRequest}
      /\ verdict[1] \in TERMINAL /\ HoldsRecord
      /\ DraineeLifecycle /\ OnlyLivePending
  BY DEF TypeInv, TypeOK, OwnerInv
<1>1. ASSUME NEW r \in Requests, Submit(r) PROVE StreamInv'
  BY <1>0, <1>1 DEF Submit
<1>2. ASSUME NEW r \in Requests, Cancel(r) PROVE StreamInv'
  BY <1>0, <1>2 DEF Cancel, RegistryCancel
<1>3. ASSUME NEW r \in Requests,
             \/ CancelClose(r) \/ Prune(r) \/ TaskSlow(r) \/ TaskEnd(r)
             \/ WatchCancelEnd(r) \/ ShutCancelEnd(r) \/ QueueDeadline(r)
      PROVE StreamInv'
  BY <1>0, <1>3 DEF CancelClose, Prune, TaskSlow, TaskEnd, WatchCancelEnd,
              ShutCancelEnd, QueueDeadline
<1>4. CASE ExpireQueued
  BY <1>0, <1>4 DEF ExpireQueued, Overdue, OnlyLivePending
<1>5. CASE ExpiryClose \/ ExpiryStop
  BY <1>0, <1>5 DEF ExpiryClose, ExpiryStop
<1>6. CASE DispatcherStep
  <2>1. CASE \/ AwaitRestart \/ Spawn \/ WatchTerminal \/ WatchDeadline
             \/ SpawnCancel \/ WatchEnded \/ GraceEnd \/ ScheduleRestart
    BY <2>1 DEF AwaitRestart, Spawn, WatchTerminal, WatchDeadline, SpawnCancel,
                WatchEnded, GraceEnd, ScheduleRestart
  <2>2. CASE NextPending
    BY <1>0, <2>2 DEF NextPending, HoldsRecord
  <2>3. CASE TryStart \/ NotStarted
    BY <1>0, <2>3 DEF TryStart, NotStarted
  <2>4. CASE Commit
    BY <1>0, <2>4 DEF Commit
  <2>5. CASE CloseCurrent
    BY <1>0, <2>5 DEF CloseCurrent
  <2> QED BY <1>6, <2>1, <2>2, <2>3, <2>4, <2>5 DEF DispatcherStep
<1>7. CASE \/ RestartStep \/ BackStopStep \/ ExecDeadline \/ ShutdownFlags
           \/ DrainDone \/ ShutdownJoin \/ UNCHANGED vars
  BY <1>7 DEF RestartStep, BackStopStep, ExecDeadline, ShutdownFlags, DrainDone,
              ShutdownJoin, LookAtThreads, LookEnds, vars
<1>8. ASSUME NEW r \in Requests, DrainCancel(r) PROVE StreamInv'
  BY <1>0, <1>8 DEF DrainCancel, RegistryCancel
<1>9. CASE DrainSettle
  BY <1>0, <1>9 DEF DrainSettle, DraineeLifecycle
<1> QED BY <1>1, <1>2, <1>3, <1>4, <1>5, <1>6, <1>7, <1>8, <1>9
        DEF Next, ExpiryStep, DrainStep

\* Only the dispatcher thread and the shutdown walk enter threads in
\* _request_threads; no other step adds one.
LEMMA NoNewThread ==
  ASSUME TypeInv, [Next]_vars, ~Spawn, ~SpawnCancel, ~DrainSettle
  PROVE  Tracked' \subseteq Tracked /\ shutCancel' \subseteq shutCancel
<1>0. task \in [Requests -> {"idle", "alive", "slow", "slow_consumer", "error",
                             "result", "ended"}]
  BY DEF TypeInv, TypeOK
<1> DEFINE Fewer == /\ \A r \in Requests : TaskAlive(r)' => TaskAlive(r)
                    /\ watchCancel' \subseteq watchCancel
                    /\ shutCancel' \subseteq shutCancel
<1>1. Fewer
  <2> USE DEF TaskAlive
  <2>1. ASSUME NEW r \in Requests,
               \/ Submit(r) \/ Cancel(r) \/ CancelClose(r) \/ Prune(r)
               \/ WatchCancelEnd(r) \/ ShutCancelEnd(r) \/ QueueDeadline(r)
               \/ DrainCancel(r)
        PROVE Fewer
    BY <2>1 DEF Submit, Cancel, CancelClose, Prune, WatchCancelEnd, ShutCancelEnd,
                QueueDeadline, DrainCancel
  <2>2. ASSUME NEW r \in Requests, TaskSlow(r) \/ TaskEnd(r) PROVE Fewer
    BY <1>0, <2>2 DEF TaskSlow, TaskEnd
  <2>3. CASE ExpiryStep \/ RestartStep \/ BackStopStep \/ ExecDeadline
    BY <2>3 DEF ExpiryStep, ExpireQueued, ExpiryClose, ExpiryStop, RestartStep,
                BackStopStep, ExecDeadline
  <2>4. CASE DispatcherStep
    BY <1>0, <2>4 DEF DispatcherStep, AwaitRestart, NextPending, TryStart, NotStarted,
       WatchTerminal, WatchDeadline, WatchEnded, GraceEnd, Commit, ScheduleRestart,
       CloseCurrent
  <2>5. CASE ShutdownFlags \/ DrainDone \/ ShutdownJoin \/ UNCHANGED vars
    BY <2>5 DEF ShutdownFlags, DrainDone, ShutdownJoin, LookAtThreads, LookEnds, vars
  <2> QED BY <2>1, <2>2, <2>3, <2>4, <2>5 DEF Next, DrainStep
<1> QED BY <1>1 DEF Tracked

\* The steps that leave the look of shutdown() alone, and how they move the
\* dispatcher thread once every record is settled.
LEMMA LookFrame ==
  ASSUME TypeInv, OwnerInv, DrainInv, [Next]_vars, ~ShutdownJoin,
         shut \in {"looking", "returned"}
  PROVE  /\ UNCHANGED <<shut, looked, shutdownComplete>>
         /\ ~DrainSettle
         /\ disp' \in {"spawn", "overdue"} => disp' = disp
<1>0. /\ life \in [Requests -> Lifecycles] /\ HoldsRecord
      /\ current \in Requests \cup {NoRequest}
      /\ drainee = NoRequest /\ draining = {} /\ NoRequest \notin Requests
      /\ \A r \in Requests : life[r] \notin {"QUEUED", "RUNNING"}
  BY RequestsAssumption DEF TypeInv, TypeOK, DrainInv
<1>1. ASSUME NEW r \in Requests,
             \/ Submit(r) \/ Cancel(r) \/ CancelClose(r) \/ Prune(r)
             \/ TaskSlow(r) \/ TaskEnd(r)
             \/ WatchCancelEnd(r) \/ ShutCancelEnd(r) \/ QueueDeadline(r)
      PROVE UNCHANGED <<shut, looked, shutdownComplete, disp>>
  BY <1>1 DEF Submit, Cancel, CancelClose, Prune, TaskSlow, TaskEnd, WatchCancelEnd,
              ShutCancelEnd, QueueDeadline
<1>2. CASE ExpiryStep \/ RestartStep \/ BackStopStep \/ ExecDeadline \/ UNCHANGED vars
  BY <1>2 DEF ExpiryStep, ExpireQueued, ExpiryClose, ExpiryStop, RestartStep,
              BackStopStep, ExecDeadline, DrainSettle, vars
<1>3. CASE DispatcherStep
  <2>1. UNCHANGED <<shut, looked, shutdownComplete>>
    BY <1>3 DEF DispatcherStep, AwaitRestart, NextPending, TryStart, NotStarted, Spawn,
       WatchTerminal, WatchDeadline, SpawnCancel, WatchEnded, GraceEnd, Commit,
       ScheduleRestart, CloseCurrent
  <2>2. ~WatchDeadline
    BY <1>0 DEF WatchDeadline, HoldsRecord, HeldLifecycle, OwnerInv
  <2>3. ASSUME TryStart PROVE disp' = "not_started"
    BY <1>0, <2>3 DEF TryStart, HoldsRecord
  <2>4. ASSUME AwaitRestart \/ NextPending \/ NotStarted \/ Spawn \/ WatchTerminal
               \/ SpawnCancel \/ WatchEnded \/ GraceEnd \/ Commit \/ ScheduleRestart
               \/ CloseCurrent
        PROVE disp' \notin {"spawn", "overdue"}
    BY <2>4 DEF AwaitRestart, NextPending, NotStarted, Spawn, WatchTerminal, SpawnCancel,
                WatchEnded, GraceEnd, Commit, ScheduleRestart, CloseCurrent
  <2> QED BY <1>0, <1>3, <2>1, <2>2, <2>3, <2>4 DEF DispatcherStep, DrainSettle
<1>4. ~ShutdownFlags /\ ~DrainStep
  BY DEF ShutdownFlags, DrainStep, DrainCancel, DrainSettle, DrainDone
<1> QED BY <1>1, <1>2, <1>3, <1>4 DEF Next, DrainStep

\* What the copy of the request threads misses, and what a complete shutdown
\* leaves, stays one late thread.
LEMMA LookStep ==
  TypeInv /\ OwnerInv /\ DrainInv /\ LookInv /\ QuietInv /\ [Next]_vars
    => LookInv' /\ QuietInv'
<1> SUFFICES ASSUME TypeInv, OwnerInv, DrainInv, LookInv, QuietInv, [Next]_vars
             PROVE  LookInv' /\ QuietInv'
  OBVIOUS
<1>1. CASE LookAtThreads
  <2>1. /\ Tracked' = Tracked /\ looked' = Tracked /\ UNCHANGED <<shutCancel, shutdownComplete>>
        /\ shut = "join"
    BY <1>1 DEF LookAtThreads, Tracked, TaskAlive
  <2>2. \A r \in shutCancel : <<"shutdown", r>> \in Tracked
    BY DEF Tracked
  <2> QED BY <2>1, <2>2 DEF LookInv, QuietInv
<1>2. CASE LookEnds
  <2>1. /\ Tracked' = Tracked /\ UNCHANGED <<shutCancel, disp, expiry, restart, backStop>>
        /\ shut = "looking" /\ shut' # "looking"
        /\ shutdownComplete' => /\ shut' = "returned"
                                /\ MainThreadsEnded /\ looked \cap Tracked = {}
    BY <1>2 DEF LookEnds, Tracked, TaskAlive
  <2>2. \A r \in shutCancel : <<"shutdown", r>> \in Tracked
    BY DEF Tracked
  <2> QED BY <2>1, <2>2 DEF LookInv, QuietInv, MainThreadsEnded, RestartAlive
<1>3. CASE ~ShutdownJoin /\ shut = "looking"
  <2>1. /\ UNCHANGED <<shut, looked, shutdownComplete>> /\ ~DrainSettle
        /\ disp' \in {"spawn", "overdue"} => disp' = disp
    BY <1>3, LookFrame
  <2>2. CASE Spawn \/ SpawnCancel
    <3>1. PICK t : Tracked' \subseteq Tracked \cup {t}
      <4>1. CASE Spawn
        BY <4>1 DEF Spawn, Tracked, TaskAlive, TypeInv, TypeOK
      <4>2. CASE SpawnCancel
        BY <4>2 DEF SpawnCancel, Tracked, TaskAlive
      <4> QED BY <2>2, <4>1, <4>2
    <3>2. /\ disp \in {"spawn", "overdue"} /\ disp' \notin {"spawn", "overdue"}
          /\ UNCHANGED shutCancel
      BY <2>2 DEF Spawn, SpawnCancel
    <3> QED BY <1>3, <2>1, <3>1, <3>2 DEF LookInv, QuietInv
  <2>3. CASE ~Spawn /\ ~SpawnCancel
    <3>1. Tracked' \subseteq Tracked /\ shutCancel' \subseteq shutCancel
      BY <2>1, <2>3, NoNewThread
    <3> QED BY <1>3, <2>1, <3>1 DEF LookInv, QuietInv
  <2> QED BY <2>2, <2>3
<1>4. CASE ~ShutdownJoin /\ shutdownComplete
  <2>0. shut = "returned" /\ disp = "done" /\ expiry = "done" /\ ~RestartAlive
        /\ backStop = "ended" /\ shutCancel = {} /\ \A s, t \in Tracked : s = t
    BY <1>4 DEF QuietInv, MainThreadsEnded
  <2>1. UNCHANGED <<shut, looked, shutdownComplete>> /\ ~DrainSettle
    BY <1>4, <2>0, LookFrame
  <2>2. ~DispatcherStep /\ ~ExpiryStep /\ ~RestartStep /\ ~BackStopStep
    BY <2>0 DEF DispatcherStep, AwaitRestart, NextPending, TryStart, NotStarted, Spawn,
       WatchTerminal, WatchDeadline, SpawnCancel, WatchEnded, GraceEnd, Commit,
       ScheduleRestart, CloseCurrent, ExpiryStep, ExpireQueued, ExpiryClose, ExpiryStop,
       RestartStep, RestartAlive, BackStopStep
  <2>3. Tracked' \subseteq Tracked /\ shutCancel' \subseteq shutCancel
    BY <2>1, <2>2, NoNewThread DEF DispatcherStep
  <2>4. UNCHANGED <<disp, expiry, restart, backStop>>
    BY <1>4, <2>0, <2>2 DEF Next, Submit, Cancel, CancelClose, Prune, TaskSlow, TaskEnd,
       WatchCancelEnd, ShutCancelEnd, QueueDeadline, ShutdownFlags, DrainStep, DrainCancel,
       DrainSettle, DrainDone, ExecDeadline, vars
  <2> QED BY <2>0, <2>1, <2>3, <2>4 DEF LookInv, QuietInv, MainThreadsEnded, RestartAlive
<1>5. CASE ~ShutdownJoin /\ shut # "looking" /\ ~shutdownComplete
  <2>1. shut' # "looking" /\ UNCHANGED shutdownComplete
    BY <1>5 DEF Next, Submit, Cancel, CancelClose, Prune, TaskSlow, TaskEnd,
       WatchCancelEnd, ShutCancelEnd, QueueDeadline, ExpiryStep, ExpireQueued,
       ExpiryClose, ExpiryStop, DispatcherStep, AwaitRestart, NextPending, TryStart,
       NotStarted, Spawn, WatchTerminal, WatchDeadline, SpawnCancel, WatchEnded, GraceEnd,
       Commit, ScheduleRestart, CloseCurrent, RestartStep, BackStopStep,
       ShutdownFlags, DrainStep, DrainCancel, DrainSettle, DrainDone, ExecDeadline,
       vars
  <2> QED BY <1>5, <2>1 DEF LookInv, QuietInv
<1> QED BY <1>1, <1>2, <1>3, <1>4, <1>5 DEF ShutdownJoin

\* shutdown_complete is final: the dispatcher's own threads have ended for
\* good, shutdown()'s cancellations are over, at most one late request or
\* cancellation thread is left, which started while shutdown() looked, and
\* only a cancel() call that already settled its record may still have a
\* stream to close.
THEOREM CompletionIsFinal == Spec => []CompleteIsFinal
<1>1. Init => StreamInv /\ DrainInv /\ LookInv /\ QuietInv
  BY DEF Init, StreamInv, DrainInv, LookInv, QuietInv, TERMINAL
<1>2. TypeInv /\ OwnerInv /\ DrainInv /\ StreamInv /\ QuietInv => CompleteIsFinal
  BY RequestsAssumption DEF TypeInv, TypeOK, HoldsRecord, OwnerInv, DrainInv, StreamInv,
     QuietInv, MainThreadsEnded, CompleteIsFinal, Lifecycles
<1> QED BY <1>1, <1>2, InitInv, TypeStep, OwnerStep, DrainStepInv, StreamStep,
           LookStep, PTL DEF Spec

\* The two together: the walk settles every record, and shutdown() reports
\* completion only when at most one late thread is left.
THEOREM ShutdownClean == Spec => []ShutdownIsClean
BY ShutdownSettles, CompletionIsFinal, PTL DEF ShutdownIsClean

\* A request thread is never started while a backend restart is under way.
THEOREM RestartsExclude == Spec => NoStartDuringRestart
<1> DEFINE Safe == \A r \in Requests : task[r] = "idle" /\ task'[r] # "idle" => ~RestartAlive
<1>1. Init => RestartInv
  BY DEF Init, RestartInv
<1>2. TypeInv /\ RestartInv /\ [Next]_vars => RestartInv' /\ Safe
  <2> SUFFICES ASSUME TypeInv, RestartInv, [Next]_vars PROVE RestartInv' /\ Safe
    OBVIOUS
  <2> USE DEF RestartInv, RestartAlive
  <2>0. task \in [Requests -> {"idle", "alive", "slow", "slow_consumer", "error",
                              "result", "ended"}]
    BY DEF TypeInv, TypeOK
  <2>1. ASSUME NEW r \in Requests,
             \/ Submit(r) \/ Cancel(r) \/ CancelClose(r) \/ Prune(r)
             \/ WatchCancelEnd(r) \/ ShutCancelEnd(r) \/ QueueDeadline(r)
        PROVE RestartInv' /\ Safe
    BY <2>1 DEF Submit, Cancel, CancelClose, Prune, WatchCancelEnd, ShutCancelEnd,
                QueueDeadline
  <2>2. ASSUME NEW r \in Requests, TaskSlow(r) \/ TaskEnd(r) PROVE RestartInv' /\ Safe
    BY <2>0, <2>2 DEF TaskSlow, TaskEnd, TaskAlive
  <2>3. CASE ExpiryStep
    BY <2>3 DEF ExpiryStep, ExpireQueued, ExpiryClose, ExpiryStop
  <2>4. CASE DispatcherStep
    BY <2>0, <2>4 DEF DispatcherStep,
       AwaitRestart, NextPending, TryStart, NotStarted, Spawn, WatchTerminal, TaskAlive,
       WatchDeadline, SpawnCancel, WatchEnded, GraceEnd, Commit, ScheduleRestart, CloseCurrent
  <2>5. CASE \/ RestartStep \/ BackStopStep \/ ShutdownFlags \/ DrainStep
             \/ ShutdownJoin \/ ExecDeadline \/ UNCHANGED vars
    BY <2>5 DEF RestartStep, BackStopStep, ShutdownFlags, DrainStep, DrainCancel,
                DrainSettle, DrainDone, ShutdownJoin, LookAtThreads, LookEnds, ExecDeadline, vars
  <2> QED BY <2>1, <2>2, <2>3, <2>4, <2>5 DEF Next
<1> QED BY <1>1, <1>2, InitInv, TypeStep, PTL DEF Spec, NoStartDuringRestart

\* Every step keeps queue timeouts and started request threads apart.
LEMMA ExpiryInvStep ==
  TypeInv /\ OwnerInv /\ ExpiryInv /\ [Next]_vars => ExpiryInv'
<1> SUFFICES ASSUME TypeInv, OwnerInv, ExpiryInv, [Next]_vars PROVE ExpiryInv'
  OBVIOUS
<1> USE RequestsAssumption
    DEF ExpiryInv, QueueTimeoutNeverRan, HoldsRecord,
        CompareAndTransition, Transition, SetLifecycle
<1>0. /\ life \in [Requests -> Lifecycles] /\ error \in [Requests -> Errors]
      /\ pending \subseteq Requests
      /\ task \in [Requests -> {"idle", "alive", "slow", "slow_consumer", "error",
                                "result", "ended"}]
      /\ current \in Requests \cup {NoRequest}
      /\ verdict[1] \in TERMINAL /\ HoldsRecord /\ HeldLifecycle
      /\ OnlyLivePending /\ OneSupervisedRunner
  BY DEF TypeInv, TypeOK, OwnerInv
<1>1. ASSUME NEW r \in Requests, Submit(r) PROVE ExpiryInv'
  BY <1>0, <1>1 DEF Submit, HoldsRecord, HeldLifecycle, TERMINAL
<1>2. ASSUME NEW r \in Requests, Cancel(r) \/ DrainCancel(r) PROVE ExpiryInv'
  BY <1>0, <1>2 DEF Cancel, DrainCancel, RegistryCancel
<1>3. ASSUME NEW r \in Requests,
             \/ CancelClose(r) \/ Prune(r) \/ QueueDeadline(r)
             \/ WatchCancelEnd(r) \/ ShutCancelEnd(r)
      PROVE ExpiryInv'
  BY <1>3 DEF CancelClose, Prune, WatchCancelEnd, ShutCancelEnd, QueueDeadline
<1>4. ASSUME NEW r \in Requests, TaskSlow(r) \/ TaskEnd(r) PROVE ExpiryInv'
  BY <1>0, <1>4 DEF TaskSlow, TaskEnd, TaskAlive
<1>5. CASE ExpiryStep
  BY <1>0, <1>5 DEF ExpiryStep, ExpireQueued, ExpiryClose, ExpiryStop, Overdue,
                    HeldLifecycle, TERMINAL
<1>6. CASE DispatcherStep
  <2>1. CASE AwaitRestart \/ WatchTerminal \/ WatchDeadline \/ SpawnCancel \/ ScheduleRestart
    BY <2>1 DEF AwaitRestart, WatchTerminal, WatchDeadline, SpawnCancel, ScheduleRestart
  <2>2. CASE NextPending
    BY <1>0, <2>2 DEF NextPending, OnlyLivePending
  <2>3. CASE TryStart \/ NotStarted
    BY <1>0, <2>3 DEF TryStart, NotStarted, HoldsRecord
  <2>4. CASE Spawn
    BY <1>0, <2>4 DEF Spawn, HoldsRecord, HeldLifecycle, TERMINAL
  <2>5. CASE WatchEnded \/ GraceEnd
    BY <2>5 DEF WatchEnded, GraceEnd, Verdict
  <2>6. CASE Commit
    BY <1>0, <2>6 DEF Commit, TERMINAL
  <2>7. CASE CloseCurrent
    BY <1>0, <2>7 DEF CloseCurrent, NoVerdict, TaskAlive
  <2> QED BY <1>6, <2>1, <2>2, <2>3, <2>4, <2>5, <2>6, <2>7 DEF DispatcherStep
<1>7. CASE DrainSettle
  BY <1>0, <1>7 DEF DrainSettle
<1>8. CASE \/ RestartStep \/ BackStopStep \/ ExecDeadline \/ ShutdownFlags
           \/ DrainDone \/ ShutdownJoin \/ UNCHANGED vars
  BY <1>8 DEF RestartStep, BackStopStep, ExecDeadline, ShutdownFlags, DrainDone,
              ShutdownJoin, LookAtThreads, LookEnds, vars
<1> QED BY <1>1, <1>2, <1>3, <1>4, <1>5, <1>6, <1>7, <1>8 DEF Next, DrainStep

\* A record that timed out in the queue was never handed to the worker.
THEOREM TimeoutMeansNotRun == Spec => []QueueTimeoutNeverRan
<1>1. Init => ExpiryInv
  BY DEF Init, ExpiryInv, QueueTimeoutNeverRan, NoVerdict
<1>2. ExpiryInv => QueueTimeoutNeverRan
  BY DEF ExpiryInv
<1> QED BY <1>1, <1>2, InitInv, TypeStep, OwnerStep, ExpiryInvStep, PTL DEF Spec

-----------------------------------------------------------------------------
(***************************************************************************)
(* The dispatcher implements the safety part of RequestService.            *)
(***************************************************************************)

\* Tickets are handed out in order, and the popped record is the oldest.
OrderInv ==
  /\ \A r \in pending : ticket[r] < nextTicket
  /\ current # NoRequest => ticket[current] < nextTicket
  /\ disp \in {"popped", "not_started"} =>
       \A s \in pending : ticket[current] <= ticket[s]

\* Every step keeps the admission order of the queue.
LEMMA OrderStep == TypeInv /\ OwnerInv /\ OrderInv /\ [Next]_vars => OrderInv'
<1> SUFFICES ASSUME TypeInv, OwnerInv, OrderInv, [Next]_vars PROVE OrderInv'
  OBVIOUS
<1>0. /\ ticket \in [Requests -> Nat] /\ nextTicket \in Nat
      /\ pending \subseteq Requests
      /\ current \in Requests \cup {NoRequest} /\ HoldsRecord
  BY DEF TypeInv, TypeOK
<1> USE RequestsAssumption DEF OrderInv, HoldsRecord
<1>1. CASE FrameStep
  BY <1>1, FrameEffect
<1>2. ASSUME NEW r \in Requests, Submit(r) PROVE OrderInv'
  <2>1. current # r
    BY <1>2 DEF Submit, TypeInv, TypeOK, OwnerInv, HeldLifecycle, TERMINAL
  <2> QED BY <1>0, <1>2, <2>1 DEF Submit
<1>3. ASSUME NEW r \in Requests, Cancel(r) \/ DrainCancel(r) PROVE OrderInv'
  BY <1>0, <1>3 DEF Cancel, DrainCancel
<1>4. CASE ExpireQueued
  BY <1>0, <1>4 DEF ExpireQueued
<1>5. CASE NextPending
  BY <1>0, <1>5 DEF NextPending, Oldest
<1>6. CASE DispatcherStep /\ ~NextPending
  BY <1>0, <1>6 DEF DispatcherStep, AwaitRestart, TryStart, NotStarted, Spawn,
     WatchTerminal, WatchDeadline, SpawnCancel, WatchEnded, GraceEnd, Commit, ScheduleRestart,
     CloseCurrent
<1>7. CASE DrainSettle
  BY <1>0, <1>7 DEF DrainSettle
<1> QED BY <1>1, <1>2, <1>3, <1>4, <1>5, <1>6, <1>7
        DEF Next, FrameStep, ExpiryStep, DrainStep

\* The records the service sees waiting are the queue and the popped record.
LEMMA WaitingBound ==
  ASSUME TypeInv, OwnerInv, Cardinality(pending) < Capacity
  PROVE  Cardinality({r \in Requests : life[r] = "QUEUED"}) < Capacity + 1
<1> DEFINE W == {r \in Requests : life[r] = "QUEUED"}
           P == pending \cup {current}
<1>1. IsFiniteSet(pending) /\ Cardinality(pending) \in Nat
  BY RequestsAssumption, FS_Subset, FS_CardinalityType DEF TypeInv, TypeOK
<1>2. IsFiniteSet(P) /\ Cardinality(P) \in Nat /\ Cardinality(P) <= Cardinality(pending) + 1
  BY <1>1, FS_AddElement, FS_CardinalityType
<1>3. W \subseteq P
  BY DEF OwnerInv, NoLostRequest
<1>4. Cardinality(W) \in Nat /\ Cardinality(W) <= Cardinality(P)
  BY <1>2, <1>3, FS_Subset, FS_CardinalityType
<1> QED BY <1>1, <1>2, <1>4, CapacityAssumption

\* What the refinement mapping makes of a record's lifecycle.
LEMMA StatusOf ==
  /\ ServiceStatus("NONE") = "new" /\ ServiceStatus("QUEUED") = "waiting"
  /\ ServiceStatus("RUNNING") = "running"
  /\ \A s \in TERMINAL : ServiceStatus(s) = "settled"
BY DEF ServiceStatus, TERMINAL

\* The step that settles the live records of S is a step of the service.
LEMMA SettleRefines ==
  ASSUME life \in [Requests -> Lifecycles], UNCHANGED <<ticket, nextTicket>>,
         NEW S \in SUBSET Requests, \A r \in S : life[r] \in {"QUEUED", "RUNNING"},
         NEW done \in TERMINAL,
         life' = [r \in Requests |-> IF r \in S THEN done ELSE life[r]]
  PROVE  [Service!Next]_Service!vars
<1>1. CASE S = {}
  <2>1. life' = life
    BY <1>1
  <2> QED BY <2>1 DEF Service!vars
<1>2. CASE S # {}
  <2>1. Service!Settle(S)
    BY <1>2, StatusOf DEF Service!Settle, Service!With
  <2> QED BY <2>1 DEF Service!Next
<1> QED BY <1>1, <1>2

\* Every step of the dispatcher is a step of RequestService or leaves its
\* variables unchanged.
LEMMA ServiceStep ==
  TypeInv /\ OwnerInv /\ OrderInv /\ [Next]_vars => [Service!Next]_Service!vars
<1> SUFFICES ASSUME TypeInv, OwnerInv, OrderInv, [Next]_vars
             PROVE  [Service!Next]_Service!vars
  OBVIOUS
<1>0. /\ life \in [Requests -> Lifecycles] /\ ticket \in [Requests -> Nat]
      /\ pending \subseteq Requests
      /\ current \in Requests \cup {NoRequest} /\ drainee \in Requests \cup {NoRequest}
      /\ verdict[1] \in TERMINAL /\ HoldsRecord
  BY DEF TypeInv, TypeOK
<1>1. ASSUME UNCHANGED <<life, ticket, nextTicket>> PROVE [Service!Next]_Service!vars
  BY <1>1 DEF Service!vars
<1>2. ASSUME NEW r, NEW expected \in {"QUEUED", "RUNNING"},
             NEW target \in TERMINAL, NEW why,
             CompareAndTransition(r, expected, target, why),
             UNCHANGED <<ticket, nextTicket>>
      PROVE  [Service!Next]_Service!vars
  <2>1. CASE r \in Requests /\ life[r] = expected
    <3>1. life' = [s \in Requests |-> IF s \in {r} THEN target ELSE life[s]]
      BY <1>0, <1>2, <2>1 DEF CompareAndTransition, Transition, SetLifecycle, TERMINAL
    <3> QED BY <1>0, <1>2, <2>1, <3>1, SettleRefines
  <2>2. CASE ~(r \in Requests /\ life[r] = expected)
    BY <1>0, <1>1, <1>2, <2>2 DEF CompareAndTransition, Transition, SetLifecycle
  <2> QED BY <2>1, <2>2
<1>3. CASE FrameStep
  BY <1>1, <1>3, FrameEffect
<1>4. ASSUME NEW r \in Requests, Submit(r) PROVE [Service!Next]_Service!vars
  <2>1. life' = [life EXCEPT ![r] = "QUEUED"]
    BY <1>4 DEF Submit, Transition, SetLifecycle, TERMINAL
  <2>2. Service!With("waiting") = {s \in Requests : life[s] = "QUEUED"}
    BY <1>0, StatusOf DEF Service!With, Lifecycles
  <2>3. Cardinality(Service!With("waiting")) < Capacity + 1
    BY <1>4, <2>2, WaitingBound DEF Submit
  <2>4. /\ life[r] = "NONE"
        /\ ticket' = [ticket EXCEPT ![r] = nextTicket] /\ nextTicket' = nextTicket + 1
    BY <1>4 DEF Submit
  <2>5. [s \in Requests |-> ServiceStatus(life'[s])] =
          [[s \in Requests |-> ServiceStatus(life[s])] EXCEPT ![r] = "waiting"]
    BY <1>0, <2>1, StatusOf
  <2>6. Service!Cardinality(Service!With("waiting")) < Capacity + 1
    BY <2>3, Zenon DEF Cardinality, Service!Cardinality
  <2>7. Service!Accept(r)
    BY <2>4, <2>5, <2>6, StatusOf DEF Service!Accept
  <2> QED BY <2>7 DEF Service!Next
<1>5. ASSUME NEW r \in Requests, Cancel(r) \/ DrainCancel(r)
      PROVE [Service!Next]_Service!vars
  BY <1>1, <1>2, <1>5 DEF Cancel, DrainCancel, RegistryCancel, TERMINAL
<1>6. CASE ExpireQueued
  <2>1. PICK won \in SUBSET Requests :
          /\ \A r \in won : life[r] = "QUEUED"
          /\ life' = [r \in Requests |-> IF r \in won THEN "TIMED_OUT" ELSE life[r]]
    BY <1>0, <1>6 DEF ExpireQueued, Overdue
  <2> QED BY <1>0, <1>6, <2>1, SettleRefines DEF ExpireQueued, TERMINAL
<1>7. CASE TryStart
  <2>1. CASE life[current] = "QUEUED" /\ current \notin queueDue
    <3>1. current \in Requests /\ life' = [life EXCEPT ![current] = "RUNNING"]
      BY <1>0, <1>7, <2>1 DEF TryStart, Transition, SetLifecycle, TERMINAL, HoldsRecord
    <3>2. Service!With("running") = {}
      BY <1>0, <1>7, StatusOf DEF Service!With, TryStart, OwnerInv, OneSupervisedRunner,
         Lifecycles
    <3>3. \A s \in Service!With("waiting") : s \in pending \/ s = current
      BY <1>0, <1>7, StatusOf DEF Service!With, TryStart, OwnerInv, NoLostRequest, Lifecycles
    <3>4. \A s \in Service!With("waiting") : ticket[current] <= ticket[s]
      BY <1>0, <1>7, <3>1, <3>3 DEF OrderInv, TryStart
    <3>5. Service!Start(current)
      BY <1>0, <1>7, <2>1, <3>1, <3>2, <3>4, StatusOf DEF Service!Start, TryStart
    <3> QED BY <3>1, <3>5 DEF Service!Next
  <2>2. CASE ~(life[current] = "QUEUED" /\ current \notin queueDue)
    BY <1>1, <1>7, <2>2 DEF TryStart
  <2> QED BY <2>1, <2>2
<1>8. CASE NotStarted \/ Commit
  BY <1>0, <1>2, <1>8 DEF NotStarted, Commit, TERMINAL
<1>9. CASE \/ AwaitRestart \/ NextPending \/ Spawn \/ WatchTerminal \/ WatchDeadline
           \/ SpawnCancel \/ WatchEnded \/ GraceEnd \/ ScheduleRestart \/ CloseCurrent
  BY <1>1, <1>9 DEF AwaitRestart, NextPending, Spawn, WatchTerminal, WatchDeadline, SpawnCancel,
                    WatchEnded, GraceEnd, ScheduleRestart, CloseCurrent
<1>10. CASE DrainSettle
  BY <1>2, <1>10 DEF DrainSettle, TERMINAL
<1> QED BY <1>3, <1>4, <1>5, <1>6, <1>7, <1>8, <1>9, <1>10
        DEF Next, DispatcherStep, FrameStep, ExpiryStep, DrainStep

\* The dispatcher is a bounded first-come-first-served service: it accepts no
\* more than it can hold, starts one request at a time, oldest first, and
\* settles every request at most once.
THEOREM Implements == Spec => ImplementsServiceSafely
<1>1. Init => OrderInv
  BY DEF Init, OrderInv
<1>2. Init => Service!Init
  BY StatusOf DEF Init, Service!Init
<1> QED BY <1>1, <1>2, InitInv, TypeStep, OwnerStep, OrderStep, ServiceStep, PTL
        DEF Spec, ImplementsServiceSafely, Service!Safety
=============================================================================
