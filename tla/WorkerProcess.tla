---------------------------- MODULE WorkerProcess ----------------------------
(***************************************************************************)
(* NativeWorkerProcess (model_worker/worker_process.py): the supervisor of *)
(* the native worker, with the frame verifier of model_worker/ipc.py.      *)
(*                                                                         *)
(* Actors: the request threads in execute(), one reader thread per         *)
(* process, the restart and shutdown threads, the dispatcher that starts   *)
(* and gives up requests (as in Dispatcher), the native processes.         *)
(*                                                                         *)
(* A section under `lock' is one step, although a start in it may wait for *)
(* the model to load: others wait for the lock.  A process is its spawn    *)
(* number; it names its generation, its frame queue and its reader.  The   *)
(* queue of a process holds what it wrote, read by its reader or not yet.  *)
(* Native processes answer jobs in order, may fail a job at any time (as a *)
(* cancel frame makes them), write rubbish, exit or hang; bytes that do    *)
(* not decode end the reader of a process that lives on.                   *)
(***************************************************************************)
EXTENDS Naturals, FiniteSets, Sequences

CONSTANTS Requests, MaxProcs, \* bound on the processes spawned
          KillMayFail,        \* a kill may stay unconfirmed for the whole grace
          ReaderMayFail,      \* a reader may end while its process lives
          MayStop             \* the service may be shut down

ASSUME WorkerAssumption ==
  /\ IsFiniteSet(Requests) /\ MaxProcs \in Nat \ {0}
  /\ KillMayFail \in BOOLEAN /\ ReaderMayFail \in BOOLEAN /\ MayStop \in BOOLEAN

Procs == 1..MaxProcs

NoProc == 0

VARIABLES
  sup, process, frames, readerThread, \* _state, process, _frames, _reader_thread
  spawned,   \* processes spawned so far
  status,    \* "none", "alive", "dying" (killed, not reaped) or "dead"
  jobs,      \* generate frames on the stdin of each process
  serving,   \* frames written for the head of jobs
  queue,     \* its frame queue
  reader,    \* its reader thread: "none", "reading", "notice", "done"
  swallowed, \* history: processes that lived when a request that had its answer
             \* took the end-of-pipe mark of their failed reader
  pc,        \* where each request thread is in execute()
  mine,      \* the process it holds
  verifier,  \* the next_sequence of its FrameVerifier
  outcome,   \* "none", "answered", "raised" or "assertion"
  cancelled, \* records whose cancel_event is set
  watched,   \* the requests the dispatcher waits for (at most one)
  restart,   \* the restart thread: "idle", "due"
  stop,      \* shutdown(): "no", "due", "join", "done"
  joining    \* its locals: the reader to join, and whether the process ended

supVars    == <<sup, process, frames, readerThread>>
nativeVars == <<jobs, serving>>
execVars   == <<pc, mine, verifier, outcome>>
callerVars == <<cancelled, watched, restart, stop, joining>>
vars == <<supVars, spawned, status, nativeVars, queue, reader, swallowed, execVars, callerVars>>

\* process.poll() is None
Running(p) == status[p] \in {"alive", "dying"}

-----------------------------------------------------------------------------
(***************************************************************************)
(* Sections under the lock, as functions of what they find.                *)
(***************************************************************************)

\* Mutation: ready is declared before the ready frame is checked.
ReadyTooEarly(st, owner) ==
  LET p == spawned + 1 IN
  \/ /\ spawned < MaxProcs /\ spawned' = p
     /\ sup' = "READY"
     /\ \/ /\ status' = [st EXCEPT ![p] = "alive"]
           /\ process' = p /\ frames' = p /\ readerThread' = p
           /\ reader' = [reader EXCEPT ![p] = "reading"]
        \/ /\ status' = [st EXCEPT ![p] = "dead"]
           /\ process' = NoProc
           /\ UNCHANGED <<frames, readerThread, reader>>
  \/ /\ sup' = "DEGRADED" /\ process' = owner /\ status' = st
     /\ UNCHANGED <<spawned, frames, readerThread, reader>>

\* _start_locked over the process statuses st, with self.process = owner: it
\* succeeds, fails after the spawn and kills what it spawned, or cannot spawn.
StartLocked(st, owner) ==
  LET p == spawned + 1 IN
  \/ /\ spawned < MaxProcs /\ spawned' = p
     /\ status' = [st EXCEPT ![p] = "alive"]
     /\ sup' = "READY" /\ process' = p /\ frames' = p /\ readerThread' = p
     /\ reader' = [reader EXCEPT ![p] = "reading"]
  \/ /\ spawned < MaxProcs /\ spawned' = p
     /\ \E s \in {"dead"} \cup (IF KillMayFail THEN {"dying"} ELSE {}) :
          status' = [st EXCEPT ![p] = s]
     /\ sup' = "DEGRADED" /\ process' = NoProc
     /\ UNCHANGED <<frames, readerThread, reader>>
  \/ /\ sup' = "DEGRADED" /\ process' = owner /\ status' = st
     /\ UNCHANGED <<spawned, frames, readerThread, reader>>

\* kill, wait, then start: the body of kill_and_restart and of
\* _recover_protocol_failure.
KillThenStart ==
  \/ LET st == IF process # NoProc THEN [status EXCEPT ![process] = "dead"] ELSE status
     IN StartLocked(st, NoProc)
  \/ /\ KillMayFail /\ process # NoProc /\ Running(process)
     /\ status' = [status EXCEPT ![process] = "dying"]
     /\ sup' = "DEGRADED"
     /\ UNCHANGED <<process, frames, readerThread, reader, spawned>>

-----------------------------------------------------------------------------
(***************************************************************************)
(* execute().                                                              *)
(***************************************************************************)

Ended(r) == pc[r] \in {"new", "ended"}

\* execute() returns or raises; its locals are gone.
Ends(r, what) ==
  /\ pc' = [pc EXCEPT ![r] = "ended"]
  /\ outcome' = [outcome EXCEPT ![r] = what]
  /\ mine' = [mine EXCEPT ![r] = NoProc]
  /\ verifier' = [verifier EXCEPT ![r] = 0]

Goto(r, where) == pc' = [pc EXCEPT ![r] = where]

\* A request cancelled before its thread runs is not sent.
ExecBegin(r) ==
  /\ pc[r] = "begin"
  /\ IF r \in cancelled THEN Ends(r, "raised")
                        ELSE Goto(r, "start") /\ UNCHANGED <<mine, verifier, outcome>>
  /\ UNCHANGED <<supVars, spawned, status, nativeVars, queue, reader, swallowed,
                 callerVars>>

\* start(): nothing to do, or a new process; a failed start is raised.
ExecStart(r) ==
  /\ pc[r] = "start"
  /\ IF process # NoProc /\ Running(process) /\ sup = "READY"
       THEN /\ Goto(r, "grab")
            /\ UNCHANGED <<supVars, spawned, status, reader, mine, verifier, outcome>>
       ELSE /\ StartLocked(status, process)
            /\ IF sup' = "READY" THEN Goto(r, "grab") /\ UNCHANGED <<mine, verifier,
                                                                     outcome>>
                                 ELSE Ends(r, "raised")
  /\ UNCHANGED <<nativeVars, queue, swallowed, callerVars>>

\* The section that reads self.process and self._frames, and the assertion.
ExecGrab(r) ==
  /\ pc[r] = "grab"
  /\ IF process = NoProc \/ frames = NoProc
       THEN Ends(r, "assertion")
       ELSE /\ mine' = [mine EXCEPT ![r] = process]
            /\ Goto(r, "write") /\ UNCHANGED <<verifier, outcome>>
  /\ UNCHANGED <<supVars, spawned, status, nativeVars, queue, reader, swallowed,
                 callerVars>>

\* The generate frame; a broken pipe is a crash.
ExecWrite(r) ==
  /\ pc[r] = "write"
  /\ \/ /\ Running(mine[r])
        /\ jobs' = [jobs EXCEPT ![mine[r]] = Append(@, r)]
        /\ Goto(r, "read") /\ UNCHANGED serving
     \/ /\ status[mine[r]] # "alive"
        /\ Goto(r, "recover") /\ UNCHANGED nativeVars
  /\ UNCHANGED <<supVars, spawned, status, queue, reader, mine, verifier, outcome,
                 swallowed, callerVars>>

\* FrameVerifier.verify accepts the frame.  The events between `started' and
\* the terminal frame are left out.
Verifies(r, f) ==
  /\ f.type \notin {"bad", "eof"} /\ f.request = r /\ f.sequence = verifier[r]
  /\ f.type = "started" <=> f.sequence = 0

\* One frame from the queue, or the end of the pipe.
ExecRead(r) ==
  LET q == queue[mine[r]] f == Head(q) IN
  /\ pc[r] = "read" /\ q # <<>>
  /\ queue' = [queue EXCEPT ![mine[r]] = Tail(q)]
  /\ IF Verifies(r, f)
       THEN /\ verifier' = [verifier EXCEPT ![r] = @ + 1]
            /\ IF f.type = "started" THEN UNCHANGED <<pc, outcome>>
               ELSE Goto(r, "extra") /\ outcome' = [outcome EXCEPT ![r] = "answered"]
       ELSE Goto(r, "recover") /\ UNCHANGED <<verifier, outcome>>
  /\ UNCHANGED <<supVars, spawned, status, nativeVars, reader, mine, swallowed, callerVars>>

\* Mutation: execute() relies on the end-of-pipe mark alone.
TimeoutIgnored(r) == FALSE /\ UNCHANGED vars

\* Nothing arrives within 50 ms (what was written may still be in the pipe)
\* and the process is gone or no longer the supervisor's.
ExecTimeout(r) ==
  /\ pc[r] = "read"
  /\ queue[mine[r]] = <<>> \/ reader[mine[r]] = "reading"
  /\ process # mine[r] \/ ~Running(mine[r])
  /\ Goto(r, "recover")
  /\ UNCHANGED <<supVars, spawned, status, nativeVars, queue, reader, mine, verifier,
                 outcome, swallowed, callerVars>>

\* Mutation: what follows the terminal frame is swallowed.
ExtraIgnored(r) ==
  LET q == queue[mine[r]] IN
  /\ pc[r] = "extra"
  /\ Ends(r, outcome[r])
  /\ queue' = [queue EXCEPT ![mine[r]] = IF q = <<>> THEN q ELSE Tail(q)]
  /\ UNCHANGED <<supVars, spawned, status, nativeVars, reader, swallowed, callerVars>>

\* _reject_extra_terminal_frame: any frame but the end of the pipe is one too
\* many.
ExecExtra(r) ==
  LET p == mine[r] q == queue[p] IN
  /\ pc[r] = "extra"
  /\ \/ /\ q = <<>> \/ reader[p] = "reading"
        /\ Ends(r, outcome[r]) /\ UNCHANGED <<queue, swallowed>>
     \/ /\ q # <<>> /\ Head(q).type = "eof"
        /\ queue' = [queue EXCEPT ![p] = Tail(q)]
        /\ swallowed' = IF Running(p) THEN swallowed \cup {p} ELSE swallowed
        /\ Ends(r, outcome[r])
     \/ /\ q # <<>> /\ Head(q).type # "eof"
        /\ queue' = [queue EXCEPT ![p] = Tail(q)]
        /\ Goto(r, "recover") /\ UNCHANGED <<mine, verifier, outcome, swallowed>>
  /\ UNCHANGED <<supVars, spawned, status, nativeVars, reader, callerVars>>

\* Mutation: the failure of an old generation restarts whatever runs now.
RecoverAny(r) ==
  /\ pc[r] = "recover"
  /\ KillThenStart
  /\ Ends(r, "raised")
  /\ UNCHANGED <<nativeVars, queue, swallowed, callerVars>>

\* _recover_protocol_failure: only the generation that failed is restarted.
ExecRecover(r) ==
  /\ pc[r] = "recover"
  /\ IF process # mine[r] THEN UNCHANGED <<supVars, spawned, status, reader>>
                          ELSE KillThenStart
  /\ Ends(r, "raised")
  /\ UNCHANGED <<nativeVars, queue, swallowed, callerVars>>

-----------------------------------------------------------------------------
(***************************************************************************)
(* Restart, shutdown, readers and observers.                               *)
(***************************************************************************)

\* kill_and_restart; the restart and the shutdown thread exclude each other.
KillAndRestart ==
  /\ restart = "due" /\ stop # "join" /\ restart' = "idle"
  /\ KillThenStart
  /\ UNCHANGED <<nativeVars, queue, swallowed, execVars, cancelled, watched, stop, joining>>

ReaderGone(p) == p = NoProc \/ reader[p] = "done"

\* shutdown(), first section: ask, terminate, kill.
ShutdownKill ==
  /\ stop = "due"
  /\ IF sup = "STOPPED" /\ process = NoProc /\ ReaderGone(readerThread)
       THEN stop' = "done" /\ UNCHANGED <<supVars, status, joining>>
       ELSE /\ sup' = "DRAINING" /\ stop' = "join"
            /\ \/ /\ process' = NoProc /\ frames' = NoProc
                  /\ status' = IF process = NoProc THEN status
                               ELSE [status EXCEPT ![process] = "dead"]
                  /\ joining' = [reader |-> readerThread, ended |-> TRUE]
               \/ /\ KillMayFail /\ process # NoProc /\ Running(process)
                  /\ status' = [status EXCEPT ![process] = "dying"]
                  /\ joining' = [reader |-> readerThread, ended |-> FALSE]
                  /\ UNCHANGED <<process, frames>>
            /\ UNCHANGED readerThread
  /\ UNCHANGED <<spawned, nativeVars, queue, reader, swallowed, execVars, cancelled,
                 watched,
                 restart>>

\* Second section, after the bounded join of the reader.
ShutdownJoin ==
  /\ stop = "join" /\ stop' = "done"
  /\ IF joining.ended /\ ReaderGone(joining.reader)
       THEN sup' = "STOPPED" /\ readerThread' = NoProc
       ELSE sup' = "DEGRADED" /\ UNCHANGED readerThread
  /\ UNCHANGED <<process, frames, spawned, status, nativeVars, queue, reader, swallowed,
                 execVars,
                 cancelled, watched, restart, joining>>

Writes(p, f) == queue' = [queue EXCEPT ![p] = Append(@, f)]

\* The reader sees the end of the pipe ...
ReaderEof(p) ==
  /\ reader[p] = "reading" /\ status[p] = "dead"
  /\ Writes(p, [type |-> "eof"])
  /\ reader' = [reader EXCEPT ![p] = "notice"]
  /\ UNCHANGED <<supVars, spawned, status, nativeVars, swallowed, execVars, callerVars>>

\* ... or ends with the process alive, at bytes that are not UTF-8: its queue
\* gets the mark all the same.  What the process had written and the reader had
\* not read is lost, as if it had not been written.
ReaderFails(p) ==
  /\ ReaderMayFail /\ reader[p] = "reading"
  /\ Writes(p, [type |-> "eof"])
  /\ reader' = [reader EXCEPT ![p] = "notice"]
  /\ UNCHANGED <<supVars, spawned, status, nativeVars, swallowed, execVars, callerVars>>

\* It tells the supervisor, unless that has moved on.
ReaderNotice(p) ==
  /\ reader[p] = "notice"
  /\ reader' = [reader EXCEPT ![p] = "done"]
  /\ sup' = IF process = p /\ sup = "READY" THEN "DEGRADED" ELSE sup
  /\ UNCHANGED <<process, frames, readerThread, spawned, status, nativeVars, queue,
                 execVars, swallowed, callerVars>>

\* The supervisor_state property looks at the process as well.
Observe ==
  /\ sup = "READY" /\ (process = NoProc \/ ~Running(process))
  /\ sup' = "DEGRADED"
  /\ UNCHANGED <<process, frames, readerThread, spawned, status, nativeVars, queue,
                 reader, execVars, swallowed, callerVars>>

-----------------------------------------------------------------------------
(***************************************************************************)
(* The native processes.                                                   *)
(***************************************************************************)

Frame(r, n, type) == [request |-> r, sequence |-> n, type |-> type]

\* Somebody may still read what p writes; the rest is left out.
HasAudience(p) == reader[p] = "reading" /\ (process = p \/ \E r \in Requests : mine[r] = p)

JobDone(p) ==
  /\ jobs' = [jobs EXCEPT ![p] = Tail(@)]
  /\ serving' = [serving EXCEPT ![p] = 0]

\* The next frame of the job at the head: started, then completed
\* or failed, which execute() takes alike.
NativeEmit(p) ==
  /\ Running(p) /\ jobs[p] # <<>> /\ HasAudience(p)
  /\ LET r == Head(jobs[p]) IN
     \/ /\ serving[p] = 0
        /\ Writes(p, Frame(r, 0, "started"))
        /\ serving' = [serving EXCEPT ![p] = 1]
        /\ UNCHANGED jobs
     \/ /\ serving[p] = 1
        /\ Writes(p, Frame(r, 1, "terminal"))
        /\ JobDone(p)
  /\ UNCHANGED <<supVars, spawned, status, reader, execVars, swallowed, callerVars>>

\* A frame no verifier accepts.
NativeRubbish(p) ==
  /\ Running(p) /\ jobs[p] # <<>> /\ HasAudience(p)
  /\ Writes(p, [type |-> "bad"])
  /\ JobDone(p)
  /\ UNCHANGED <<supVars, spawned, status, reader, execVars, swallowed, callerVars>>

NativeExit(p) ==
  /\ Running(p)
  /\ status' = [status EXCEPT ![p] = "dead"]
  /\ UNCHANGED <<supVars, spawned, nativeVars, queue, reader, execVars, swallowed,
                 callerVars>>

-----------------------------------------------------------------------------
(***************************************************************************)
(* The dispatcher: one request at a time, none during a restart.           *)
(***************************************************************************)

Dispatch(r) ==
  /\ stop = "no" /\ restart = "idle" /\ watched = {} /\ pc[r] = "new"
  /\ watched' = {r} /\ Goto(r, "begin")
  /\ UNCHANGED <<supVars, spawned, status, nativeVars, queue, reader, swallowed, mine,
                 verifier, outcome,
                 cancelled, restart, stop, joining>>

Settle(r) ==
  /\ r \in watched /\ pc[r] = "ended"
  /\ watched' = {}
  /\ UNCHANGED <<supVars, spawned, status, nativeVars, queue, reader, swallowed, execVars,
                 cancelled, restart, stop, joining>>

\* Once execute() has begun, a cancel only makes the job fail earlier.
Cancel(r) ==
  /\ r \in watched \ cancelled /\ pc[r] = "begin"
  /\ cancelled' = cancelled \cup {r}
  /\ UNCHANGED <<supVars, spawned, status, nativeVars, queue, reader, swallowed, execVars,
                 watched, restart, stop, joining>>

\* Deadline and grace are over: settled as timed out, restart scheduled.
GiveUp(r) ==
  /\ r \in watched /\ ~Ended(r)
  /\ cancelled' = cancelled \cup {r}
  /\ watched' = {}
  /\ restart' = "due"
  /\ UNCHANGED <<supVars, spawned, status, nativeVars, queue, reader, swallowed,
                 execVars, stop, joining>>

BeginShutdown ==
  /\ MayStop /\ stop = "no" /\ stop' = "due"
  /\ cancelled' = cancelled \cup watched
  /\ watched' = {}
  /\ UNCHANGED <<supVars, spawned, status, nativeVars, queue, reader, swallowed,
                 execVars, restart, joining>>

-----------------------------------------------------------------------------

Init ==
  /\ sup = "STOPPED" /\ process = NoProc /\ frames = NoProc /\ readerThread = NoProc
  /\ spawned = 0 /\ status = [p \in Procs |-> "none"]
  /\ jobs = [p \in Procs |-> <<>>] /\ serving = [p \in Procs |-> 0]
  /\ queue = [p \in Procs |-> <<>>] /\ reader = [p \in Procs |-> "none"] /\ swallowed = {}
  /\ pc = [r \in Requests |-> "new"] /\ mine = [r \in Requests |-> NoProc]
  /\ verifier = [r \in Requests |-> 0] /\ outcome = [r \in Requests |-> "none"]
  /\ cancelled = {} /\ watched = {}
  /\ restart = "idle" /\ stop = "no" /\ joining = [reader |-> NoProc, ended |-> FALSE]

ExecStep(r) ==
  \/ ExecBegin(r) \/ ExecStart(r) \/ ExecGrab(r) \/ ExecWrite(r) \/ ExecRead(r)
  \/ ExecTimeout(r) \/ ExecExtra(r) \/ ExecRecover(r)

Next ==
  \/ \E r \in Requests :
       ExecStep(r) \/ Dispatch(r) \/ Settle(r) \/ Cancel(r) \/ GiveUp(r)
  \/ \E p \in Procs :
       \/ ReaderEof(p) \/ ReaderFails(p) \/ ReaderNotice(p)
       \/ NativeEmit(p) \/ NativeRubbish(p) \/ NativeExit(p)
  \/ KillAndRestart \/ ShutdownKill \/ ShutdownJoin \/ Observe \/ BeginShutdown

\* Threads run; a native process that is not killed answers its jobs.
Fairness ==
  /\ \A r \in Requests : WF_vars(ExecStep(r))
  /\ \A p \in Procs : WF_vars(ReaderEof(p)) /\ WF_vars(NativeEmit(p))
  /\ WF_vars(KillAndRestart)

Spec     == Init /\ [][Next]_vars
FairSpec == Spec /\ Fairness

-----------------------------------------------------------------------------
(***************************************************************************)
(* Properties.                                                             *)
(***************************************************************************)

Owners == Procs \cup {NoProc}

Frames == [request : Requests, sequence : 0..1, type : {"started", "terminal"}]
            \cup {[type |-> "eof"], [type |-> "bad"]}

\* Type invariant.
TypeOK ==
  /\ sup \in {"READY", "DEGRADED", "DRAINING", "STOPPED"}
  /\ process \in Owners /\ frames \in Owners /\ readerThread \in Owners
  /\ spawned \in 0..MaxProcs
  /\ status \in [Procs -> {"none", "alive", "dying", "dead"}]
  /\ jobs \in [Procs -> Seq(Requests)] /\ serving \in [Procs -> 0..1]
  /\ queue \in [Procs -> Seq(Frames)]
  /\ reader \in [Procs -> {"none", "reading", "notice", "done"}]
  /\ swallowed \subseteq Procs
  /\ pc \in [Requests -> {"new", "begin", "start", "grab", "write", "read", "extra",
                          "recover", "ended"}]
  /\ mine \in [Requests -> Owners]
  /\ verifier \in [Requests -> 0..2]
  /\ outcome \in [Requests -> {"none", "answered", "raised", "assertion"}]
  /\ cancelled \subseteq Requests /\ watched \subseteq Requests
  /\ restart \in {"idle", "due"} /\ stop \in {"no", "due", "join", "done"}
  /\ joining \in [reader : Owners, ended : BOOLEAN]

\* A supervisor that calls itself ready has a process, and the queue and the
\* reader of that very process, whichever start, restart, failure and
\* shutdown came in between; and that reader has not ended, or is about to say
\* so.
ReadyIsCurrent ==
  sup = "READY" => /\ process # NoProc /\ frames = process /\ readerThread = process
                   /\ reader[process] \in {"reading", "notice"}

\* "The old process is reaped before the new generation", but for one whose
\* reader failed and for one that did not confirm its kill within the grace:
\* until shutdown() has killed the process, a living process is the
\* supervisor's, or its own reader has ended, and so no two run side by side
\* of which both are read.
OneProcess ==
  stop \in {"no", "due"} =>
    \A p \in Procs : status[p] = "alive" => process = p \/ reader[p] = "done"

\* The supervisor's state is well typed, its readiness is true, and its process
\* is the only one that is read and was not killed.
SupervisorCoherent == TypeOK /\ ReadyIsCurrent /\ OneProcess

\* Shutdown apart, readiness is given up only for a process that is gone or
\* was sent a kill, or by the current process's own reader, and a process is
\* killed only by the restart, by the shutdown or by the request that failed
\* on it.
DegradedForCause ==
  sup = "READY" /\ sup' = "DEGRADED" /\ stop' = stop =>
    \/ status'[process] # "alive"
    \/ reader[process] = "notice" /\ reader'[process] = "done"

KilledForCause ==
  \A p \in Procs : status[p] = "alive" /\ status'[p] # "alive" =>
    \/ restart' # restart \/ stop' # stop
    \/ \E r \in Requests : pc[r] = "recover" /\ pc'[r] = "ended" /\ mine[r] = p
    \/ UNCHANGED <<supVars, pc>>

\* No generation suffers for another: neither the reader of an earlier process
\* nor a request that failed on one can degrade or kill the process that
\* replaced it.
GenerationsApart == [][DegradedForCause /\ KilledForCause]_vars

Holds(seq, x) == \E k \in 1..Len(seq) : seq[k] = x

\* A frame that ends the wait of r, whoever reads it.
EndsTheWait(q, r) ==
  \E f \in {Frame(r, 1, "terminal"), [type |-> "bad"], [type |-> "eof"]} : Holds(q, f)

\* A request that waits for frames of the living current process although the
\* reader of that process has failed, and a request that shared its queue and
\* had its own answer took the mark that should have told it.
Stranded(r) ==
  /\ pc[r] = "read" /\ mine[r] = process /\ process \in swallowed
  /\ reader[process] \in {"notice", "done"}

\* Nobody waits in vain: a request that waits for frames of the living current
\* process still has its job there with a reader to read the answer, or the
\* frame that ends its wait is in the queue, or some request that took a frame
\* of another is about to restart the process.  Otherwise the 50 ms poll tells
\* it to go.  (Two requests may share a process and its queue: one that was
\* given up before it got there, and the next one.)  A stranded one is not told,
\* but the supervisor is not ready any more, or about to be told, and the next
\* start() replaces the process.
NobodyWaitsInVain ==
  \A r \in Requests :
    LET p == mine[r] IN
    pc[r] = "read" /\ process = p /\ status[p] = "alive" =>
      \/ reader[p] = "reading" /\ Holds(jobs[p], r)
      \/ EndsTheWait(queue[p], r)
      \/ \E x \in Requests : mine[x] = p /\ pc[x] = "recover"
      \/ Stranded(r) /\ (reader[p] = "notice" \/ sup # "READY")

\* Every execute() returns, also one that was given up and whose process was
\* killed under it (while readers end with their processes: see Stranded).
ExecuteReturns == \A r \in Requests : pc[r] = "begin" ~> pc[r] = "ended"
==============================================================================
