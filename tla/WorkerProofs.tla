---------------------------- MODULE WorkerProofs ----------------------------
(***************************************************************************)
(* Proofs about the native worker.  The supervisor, for any requests, any  *)
(* number of processes and whether or not kills are confirmed; then the    *)
(* resident process itself, for any jobs, tokens, markers and budgets.     *)
(***************************************************************************)
EXTENDS WorkerProcess, NativeWorker, SequenceTheorems, FiniteSetTheorems, TLAPS

USE DEF supVars, nativeVars, execVars, callerVars, Owners, Procs, NoProc

Statuses == {"none", "alive", "dying", "dead"}

\* The places in execute() where a request holds a process.
Holding == {"write", "read", "extra", "recover"}

\* Processes are spawned in order, and everybody's process was spawned.
SpawnInv ==
  /\ \A p \in Procs : status[p] = "none" <=> p > spawned
  /\ process <= spawned
  /\ \A r \in Requests : mine[r] <= spawned /\ (mine[r] # NoProc <=> pc[r] \in Holding)

\* Until shutdown() kills it, a living process is the supervisor's and ready, or
\* its reader has failed and said so.
AliveInv ==
  stop \in {"no", "due"} =>
    \A p \in Procs : status[p] = "alive" =>
      (p = process /\ sup = "READY") \/ reader[p] = "done"

\* The supervisor's process has a reader.
ReaderInv == process # NoProc => reader[process] # "none"

\* A frame of the process that ends the wait of r.
AnswerWaits(q, r) == \E f \in {Frame(r, 1, "terminal"), [type |-> "bad"]} : Holds(q, f)

\* Nobody waits in vain while the process is read.
WaitInv ==
  \A r \in Requests :
    LET p == mine[r] IN
    pc[r] = "read" /\ process = p /\ status[p] = "alive" /\ reader[p] = "reading" =>
      \/ Holds(jobs[p], r)
      \/ AnswerWaits(queue[p], r)
      \/ \E x \in Requests : mine[x] = p /\ pc[x] = "recover"

\* The mark a failed reader left for the living current process is in the queue,
\* or whoever took it is about to restart the process, or it was swallowed.
MarkInv ==
  \A p \in Procs :
    process = p /\ status[p] = "alive" /\ reader[p] \in {"notice", "done"} =>
      \/ Holds(queue[p], [type |-> "eof"])
      \/ \E x \in Requests : mine[x] = p /\ pc[x] = "recover"
      \/ p \in swallowed

IInv == /\ TypeOK /\ SpawnInv /\ ReadyIsCurrent /\ AliveInv /\ ReaderInv
        /\ WaitInv

-----------------------------------------------------------------------------
(***************************************************************************)
(* The sections under the lock.                                            *)
(***************************************************************************)

SupervisorType ==
  /\ sup \in {"READY", "DEGRADED", "DRAINING", "STOPPED"}
  /\ process \in Owners /\ frames \in Owners /\ readerThread \in Owners
  /\ spawned \in 0..MaxProcs /\ status \in [Procs -> Statuses]
  /\ reader \in [Procs -> {"none", "reading", "notice", "done"}]

\* What holds of statuses st and owner when _start_locked is called.
Startable(st, owner) ==
  /\ st \in [Procs -> Statuses] /\ owner \in Owners /\ owner <= spawned
  /\ \A p \in Procs : st[p] = "none" <=> p > spawned
  /\ owner # NoProc => reader[owner] # "none"
  /\ stop \in {"no", "due"} => \A p \in Procs : st[p] = "alive" => reader[p] = "done"

\* What a section leaves behind that does not concern the requests.
SupervisorInv ==
  /\ SupervisorType /\ ReadyIsCurrent /\ AliveInv /\ ReaderInv
  /\ \A p \in Procs : status[p] = "none" <=> p > spawned
  /\ process <= spawned

\* A start that finds nobody alive who is read leaves at most its own process so.
LEMMA StartKeepsSupervisor ==
  ASSUME TypeOK, NEW st, NEW owner, Startable(st, owner), StartLocked(st, owner), stop' = stop
  PROVE  SupervisorInv' /\ spawned <= spawned'
<1> USE WorkerAssumption
<1>0. /\ spawned \in Nat /\ spawned <= MaxProcs /\ MaxProcs \in Nat
      /\ reader \in [Procs -> {"none", "reading", "notice", "done"}]
      /\ frames \in Owners /\ readerThread \in Owners
  BY DEF TypeOK
<1>1. CASE /\ spawned < MaxProcs /\ spawned' = spawned + 1
           /\ status' = [st EXCEPT ![spawned + 1] = "alive"]
           /\ sup' = "READY" /\ process' = spawned + 1 /\ frames' = spawned + 1
           /\ readerThread' = spawned + 1
           /\ reader' = [reader EXCEPT ![spawned + 1] = "reading"]
  <2>1. spawned + 1 \in Procs
    BY <1>0, <1>1
  <2>2. SupervisorType'
    BY <1>0, <1>1, <2>1 DEF SupervisorType, Startable, Statuses
  <2>3. ReadyIsCurrent' /\ AliveInv' /\ ReaderInv'
    BY <1>0, <1>1, <2>1 DEF ReadyIsCurrent, AliveInv, ReaderInv, Startable
  <2>4. \A p \in Procs : status'[p] = "none" <=> p > spawned'
    BY <1>0, <1>1, <2>1 DEF Startable
  <2> QED BY <1>0, <1>1, <2>2, <2>3, <2>4 DEF SupervisorInv
<1>2. ASSUME NEW s \in {"dead", "dying"}, spawned < MaxProcs, spawned' = spawned + 1,
             status' = [st EXCEPT ![spawned + 1] = s], sup' = "DEGRADED", process' = NoProc,
             UNCHANGED <<frames, readerThread, reader>>
      PROVE  SupervisorInv' /\ spawned <= spawned'
  <2>1. spawned + 1 \in Procs
    BY <1>0, <1>2
  <2>2. SupervisorType'
    BY <1>0, <1>2, <2>1 DEF SupervisorType, Startable, Statuses
  <2>3. ReadyIsCurrent' /\ AliveInv' /\ ReaderInv'
    BY <1>0, <1>2, <2>1 DEF ReadyIsCurrent, AliveInv, ReaderInv, Startable
  <2>4. \A p \in Procs : status'[p] = "none" <=> p > spawned'
    BY <1>0, <1>2, <2>1 DEF Startable
  <2> QED BY <1>0, <1>2, <2>2, <2>3, <2>4 DEF SupervisorInv
<1>3. CASE /\ sup' = "DEGRADED" /\ process' = owner /\ status' = st
           /\ UNCHANGED <<spawned, frames, readerThread, reader>>
  <2>1. SupervisorType'
    BY <1>0, <1>3 DEF SupervisorType, Startable
  <2>2. ReadyIsCurrent' /\ AliveInv' /\ ReaderInv'
    BY <1>3 DEF ReadyIsCurrent, AliveInv, ReaderInv, Startable
  <2> QED BY <1>0, <1>3, <2>1, <2>2 DEF SupervisorInv, Startable
<1> QED BY <1>1, <1>2, <1>3 DEF StartLocked

\* A restart kills before it starts; if the kill is not confirmed it does not
\* start.
LEMMA RestartKeepsSupervisor ==
  ASSUME IInv, KillThenStart, stop' = stop
  PROVE  /\ SupervisorInv' /\ spawned <= spawned'
         /\ process' # NoProc /\ process' <= spawned => status'[process'] # "alive"
         /\ process # NoProc => status'[process] # "alive"
         /\ \A p \in Procs : p # process /\ status[p] = "alive" => status'[p] = "alive"
<1> USE WorkerAssumption
<1>0. TypeOK /\ status \in [Procs -> Statuses] /\ process \in Owners /\ spawned \in Nat
      /\ spawned <= MaxProcs /\ MaxProcs \in Nat
  BY DEF IInv, TypeOK, Statuses
<1> DEFINE st == IF process # NoProc THEN [status EXCEPT ![process] = "dead"] ELSE status
<1>1. CASE StartLocked(st, NoProc)
  <2>1. st \in [Procs -> Statuses] /\ (process # NoProc => st[process] = "dead")
        /\ \A p \in Procs : p # process => st[p] = status[p]
    BY <1>0 DEF Statuses
  <2>2. process # NoProc => status[process] # "none"
    BY <1>0 DEF IInv, SpawnInv
  <2> HIDE DEF st
  <2>3. Startable(st, NoProc)
    BY <1>0, <2>1, <2>2 DEF Startable, IInv, SpawnInv, AliveInv, ReaderInv
  <2>4. SupervisorInv' /\ spawned <= spawned'
    BY <1>0, <1>1, <2>3, StartKeepsSupervisor
  <2>5. process' = NoProc \/ process' = spawned + 1
    BY <1>1 DEF StartLocked
  <2>6. \A p \in Procs : p <= spawned => status'[p] = st[p]
    BY <1>0, <1>1, <2>1 DEF StartLocked
  <2>7. \A p \in Procs : status[p] = "alive" => p <= spawned
    BY <1>0 DEF IInv, SpawnInv
  <2>8. process # NoProc => process <= spawned /\ process \in Procs
    BY <1>0 DEF IInv, SpawnInv
  <2> QED BY <1>0, <2>1, <2>4, <2>5, <2>6, <2>7, <2>8
<1>2. CASE /\ process # NoProc /\ Running(process)
           /\ status' = [status EXCEPT ![process] = "dying"]
           /\ sup' = "DEGRADED"
           /\ UNCHANGED <<process, frames, readerThread, reader, spawned>>
  <2>1. SupervisorType'
    BY <1>0, <1>2 DEF SupervisorType, TypeOK, Statuses
  <2>2. ReadyIsCurrent' /\ AliveInv' /\ ReaderInv'
    BY <1>0, <1>2 DEF ReadyIsCurrent, AliveInv, ReaderInv, IInv, Running
  <2>3. \A p \in Procs : status'[p] = "none" <=> p > spawned'
    BY <1>0, <1>2 DEF IInv, SpawnInv, Running
  <2> QED BY <1>0, <1>2, <2>1, <2>2, <2>3 DEF SupervisorInv, IInv, SpawnInv
<1> QED BY <1>1, <1>2 DEF KillThenStart

-----------------------------------------------------------------------------
(***************************************************************************)
(* Waiting for frames.                                                     *)
(***************************************************************************)

\* What is in a sequence stays there when something is appended.
LEMMA HoldsAppend ==
  ASSUME NEW S, NEW seq \in Seq(S), NEW e \in S
  PROVE  /\ Append(seq, e) \in Seq(S)
         /\ Holds(Append(seq, e), e)
         /\ \A x : Holds(seq, x) => Holds(Append(seq, e), x)
BY DEF Holds

\* Only the head leaves with Tail.
LEMMA HoldsTail ==
  ASSUME NEW S, NEW seq \in Seq(S), seq # <<>>
  PROVE  /\ Tail(seq) \in Seq(S) /\ Head(seq) \in S
         /\ \A x : Holds(seq, x) => x = Head(seq) \/ Holds(Tail(seq), x)
<1>1. Tail(seq) \in Seq(S) /\ Head(seq) \in S
  OBVIOUS
<1>2. ASSUME NEW x, Holds(seq, x), x # Head(seq) PROVE Holds(Tail(seq), x)
  <2>1. PICK k \in 1..Len(seq) : seq[k] = x
    BY <1>2 DEF Holds
  <2>2. k # 1
    BY <1>2, <2>1
  <2>3. k - 1 \in 1..Len(Tail(seq)) /\ Tail(seq)[k - 1] = x
    BY <2>1, <2>2
  <2> QED BY <2>3 DEF Holds
<1> QED BY <1>1, <1>2

\* A step that touches no pipe leaves nobody waiting in vain, if whoever was
\* about to restart a process still is, or the process is no longer in use.
LEMMA WaitKept ==
  ASSUME IInv, UNCHANGED <<jobs, queue>>,
         \A r \in Requests : pc'[r] = "read" => pc[r] = "read" /\ mine'[r] = mine[r],
         \A r \in Requests :
           pc[r] = "read" /\ process' = mine[r] /\ status'[mine[r]] = "alive"
             /\ reader'[mine[r]] = "reading" =>
               process = mine[r] /\ status[mine[r]] = "alive" /\ reader[mine[r]] = "reading",
         \A x \in Requests : pc[x] = "recover" =>
           \/ pc'[x] = "recover" /\ mine'[x] = mine[x]
           \/ process' # mine[x] \/ status'[mine[x]] # "alive"
  PROVE  WaitInv'
<1> SUFFICES ASSUME NEW r \in Requests, pc'[r] = "read", process' = mine'[r],
                    status'[mine'[r]] = "alive", reader'[mine'[r]] = "reading"
             PROVE  \/ Holds(jobs[mine[r]], r) \/ AnswerWaits(queue[mine[r]], r)
                    \/ \E x \in Requests : mine'[x] = mine[r] /\ pc'[x] = "recover"
  BY DEF WaitInv, Holds, AnswerWaits, Frame
<1>1. /\ pc[r] = "read" /\ mine'[r] = mine[r] /\ process = mine[r]
      /\ status[mine[r]] = "alive" /\ reader[mine[r]] = "reading"
  OBVIOUS
<1> QED BY <1>1 DEF IInv, WaitInv

-----------------------------------------------------------------------------
(***************************************************************************)
(* The steps of a request.                                                 *)
(***************************************************************************)

RequestType ==
  /\ pc \in [Requests -> {"new", "begin", "start", "grab", "write", "read", "extra",
                          "recover", "ended"}]
  /\ mine \in [Requests -> Owners]
  /\ verifier \in [Requests -> 0..2]
  /\ outcome \in [Requests -> {"none", "answered", "raised", "assertion"}]

PipeType ==
  /\ jobs \in [Procs -> Seq(Requests)] /\ serving \in [Procs -> 0..1]
  /\ queue \in [Procs -> Seq(Frames)] /\ swallowed \subseteq Procs

CallerType ==
  /\ cancelled \subseteq Requests /\ watched \subseteq Requests
  /\ restart \in {"idle", "due"} /\ stop \in {"no", "due", "join", "done"}
  /\ joining \in [reader : Owners, ended : BOOLEAN]

MineInv ==
  \A r \in Requests : mine[r] <= spawned /\ (mine[r] # NoProc <=> pc[r] \in Holding)

\* The invariant by the parts of the state.
LEMMA Parts ==
  IInv <=> /\ SupervisorInv /\ RequestType /\ PipeType /\ CallerType /\ MineInv
           /\ WaitInv
BY DEF IInv, TypeOK, SpawnInv, SupervisorInv, SupervisorType, RequestType, PipeType, CallerType,
       MineInv, Statuses

\* What changes nothing of the supervisor keeps its part.
LEMMA SameSupervisor ==
  ASSUME SupervisorInv, UNCHANGED <<supVars, spawned, status, reader>>,
         stop' = stop \/ (stop = "no" /\ stop' = "due")
  PROVE  SupervisorInv'
BY DEF SupervisorInv, SupervisorType, ReadyIsCurrent, AliveInv, ReaderInv

\* execute() ending leaves no process behind.
LEMMA EndsKeeps ==
  ASSUME RequestType, MineInv, NEW r \in Requests, NEW what \in {"answered", "raised", "assertion", "none"},
         Ends(r, what), spawned \in Nat, spawned' \in Nat, spawned <= spawned'
  PROVE  RequestType' /\ MineInv'
BY DEF RequestType, MineInv, Ends, Holding

\* execute() up to the write.
LEMMA BeginKeeps ==
  ASSUME IInv, NEW r \in Requests, ExecBegin(r) \/ ExecStart(r) \/ ExecGrab(r)
  PROVE  IInv'
<1>0. /\ SupervisorInv /\ RequestType /\ PipeType /\ CallerType /\ MineInv
      /\ spawned \in Nat /\ process \in Owners /\ process <= spawned
  BY Parts DEF SupervisorInv, SupervisorType
<1>1. pc[r] \in {"begin", "start", "grab"}
  BY DEF ExecBegin, ExecStart, ExecGrab
<1>2. /\ UNCHANGED <<nativeVars, queue, swallowed, callerVars>>
      /\ \A x \in Requests \ {r} : pc'[x] = pc[x] /\ mine'[x] = mine[x]
      /\ pc'[r] \in {"start", "grab", "write", "ended"}
  BY <1>0 DEF ExecBegin, ExecStart, ExecGrab, Ends, Goto, RequestType
<1>3. PipeType' /\ CallerType'
  BY <1>0, <1>2 DEF PipeType, CallerType
<1>4. CASE ExecBegin(r)
  <2>1. SupervisorInv'
    BY <1>0, <1>4, SameSupervisor DEF ExecBegin
  <2>2. RequestType' /\ MineInv'
    <3>1. CASE Ends(r, "raised")
      BY <1>0, <1>4, <3>1, EndsKeeps DEF ExecBegin
    <3>2. CASE Goto(r, "start") /\ UNCHANGED <<mine, verifier, outcome>>
      BY <1>0, <1>4, <3>2 DEF ExecBegin, Goto, RequestType, MineInv, Holding
    <3> QED BY <1>4, <3>1, <3>2 DEF ExecBegin
  <2>3. WaitInv'
    BY <1>1, <1>2, <1>4, WaitKept DEF ExecBegin
  <2> QED BY <1>3, <2>1, <2>2, <2>3, Parts, PTL
<1>5. CASE ExecStart(r)
  <2>1. CASE UNCHANGED <<supVars, spawned, status, reader, mine, verifier, outcome>> /\ Goto(r, "grab")
    <3>1. SupervisorInv'
      BY <1>0, <1>2, <2>1, SameSupervisor
    <3>2. RequestType' /\ MineInv'
      BY <1>0, <1>1, <2>1 DEF Goto, RequestType, MineInv, Holding
    <3>3. WaitInv'
      BY <1>1, <1>2, <2>1, WaitKept
    <3> QED BY <1>3, <3>1, <3>2, <3>3, Parts, PTL
  <2>2. CASE /\ ~(process # NoProc /\ Running(process) /\ sup = "READY")
             /\ StartLocked(status, process)
             /\ IF sup' = "READY" THEN Goto(r, "grab") /\ UNCHANGED <<mine, verifier, outcome>>
                                  ELSE Ends(r, "raised")
    <3>1. Startable(status, process)
      BY <1>0, <2>2 DEF Startable, SupervisorInv, SupervisorType, ReaderInv, AliveInv, Running
    <3>2. SupervisorInv' /\ spawned <= spawned' /\ spawned' \in Nat
      BY <1>2, <2>2, <3>1, StartKeepsSupervisor DEF IInv, SupervisorInv, SupervisorType
    <3>3. RequestType' /\ MineInv'
      <4>1. CASE Goto(r, "grab") /\ UNCHANGED <<mine, verifier, outcome>>
        BY <1>0, <1>1, <3>2, <4>1 DEF Goto, RequestType, MineInv, Holding
      <4>2. CASE Ends(r, "raised")
        BY <1>0, <3>2, <4>2, EndsKeeps
      <4> QED BY <2>2, <4>1, <4>2
    <3>4. WaitInv'
      <4>1. \/ process' = spawned + 1 \/ process' = NoProc
            \/ process' = process /\ status' = status /\ reader' = reader
        BY <2>2 DEF StartLocked
      <4>2. \A x \in Requests : pc[x] \in Holding => mine[x] # NoProc /\ mine[x] # spawned + 1
        BY <1>0 DEF MineInv, RequestType
      <4>3. \A x \in Requests : pc[x] = "recover" => pc'[x] = "recover" /\ mine'[x] = mine[x]
        BY <1>1, <1>2
      <4>4. \A x \in Requests : pc'[x] = "read" => pc[x] = "read" /\ mine'[x] = mine[x]
        BY <1>1, <1>2
      <4>5. \A x \in Requests :
              pc[x] = "read" /\ process' = mine[x] =>
                process = mine[x] /\ status' = status /\ reader' = reader
        BY <4>1, <4>2 DEF Holding
      <4> QED BY <1>2, <4>3, <4>4, <4>5, WaitKept
    <3> QED BY <1>3, <3>2, <3>3, <3>4, Parts, PTL
  <2> QED BY <1>5, <2>1, <2>2 DEF ExecStart
<1>6. CASE ExecGrab(r)
  <2>1. SupervisorInv'
    BY <1>0, <1>6, SameSupervisor DEF ExecGrab
  <2>2. RequestType' /\ MineInv'
    <3>1. CASE Ends(r, "assertion")
      BY <1>0, <1>6, <3>1, EndsKeeps DEF ExecGrab
    <3>2. CASE process # NoProc /\ mine' = [mine EXCEPT ![r] = process] /\ Goto(r, "write")
               /\ UNCHANGED <<verifier, outcome>>
      BY <1>0, <1>6, <3>2 DEF ExecGrab, Goto, RequestType, MineInv, Holding
    <3> QED BY <1>6, <3>1, <3>2 DEF ExecGrab
  <2>3. WaitInv'
    BY <1>1, <1>2, <1>6, WaitKept DEF ExecGrab
  <2> QED BY <1>3, <2>1, <2>2, <2>3, Parts, PTL
<1> QED BY <1>4, <1>5, <1>6

\* The generate frame makes the request's job one of the process.
LEMMA WriteKeeps ==
  ASSUME IInv, NEW r \in Requests, ExecWrite(r)
  PROVE  IInv'
<1>0. /\ SupervisorInv /\ RequestType /\ PipeType /\ CallerType /\ MineInv
  BY Parts
<1>1. /\ pc[r] = "write" /\ mine[r] \in Procs
  BY <1>0 DEF ExecWrite, MineInv, Holding, RequestType
<1>2. SupervisorInv' /\ CallerType'
  BY <1>0, SameSupervisor DEF ExecWrite, CallerType
<1>3. CASE /\ jobs' = [jobs EXCEPT ![mine[r]] = Append(@, r)]
           /\ Goto(r, "read") /\ UNCHANGED serving
  <2>1. PICK p \in Procs : p = mine[r]
    BY <1>1
  <2>2. /\ jobs'[p] = Append(jobs[p], r) /\ jobs[p] \in Seq(Requests)
        /\ \A q \in Procs \ {p} : jobs'[q] = jobs[q]
    BY <1>0, <1>3, <2>1 DEF PipeType
  <2>3. /\ Append(jobs[p], r) \in Seq(Requests) /\ Holds(jobs'[p], r)
        /\ \A x : Holds(jobs[p], x) => Holds(jobs'[p], x)
    BY <2>2, HoldsAppend
  <2>4. PipeType'
    BY <1>0, <1>3, <2>1, <2>3 DEF PipeType, ExecWrite
  <2>5. RequestType' /\ MineInv'
    BY <1>0, <1>1, <1>3 DEF ExecWrite, Goto, RequestType, MineInv, Holding
  <2>6. WaitInv'
    <3>1. /\ UNCHANGED <<process, status, reader, queue, mine>> /\ pc'[r] = "read"
          /\ \A x \in Requests \ {r} : pc'[x] = pc[x]
      BY <1>0, <1>3 DEF ExecWrite, Goto, RequestType
    <3> SUFFICES ASSUME NEW y \in Requests, pc'[y] = "read", process' = mine'[y],
                        status'[mine'[y]] = "alive", reader'[mine'[y]] = "reading"
                 PROVE  \/ Holds(jobs'[mine[y]], y) \/ AnswerWaits(queue'[mine[y]], y)
                        \/ \E x \in Requests : mine'[x] = mine[y] /\ pc'[x] = "recover"
      BY <3>1 DEF WaitInv
    <3>2. CASE y = r
      BY <2>1, <2>3, <3>2
    <3>3. CASE y # r
      <4>1. \/ Holds(jobs[mine[y]], y) \/ AnswerWaits(queue[mine[y]], y)
            \/ \E x \in Requests : mine[x] = mine[y] /\ pc[x] = "recover"
        BY <3>1, <3>3 DEF IInv, WaitInv
      <4>2. mine[y] \in Procs
        BY <1>0, <3>1, <3>3 DEF MineInv, Holding, RequestType
      <4>3. Holds(jobs[mine[y]], y) => Holds(jobs'[mine[y]], y)
        BY <2>2, <2>3, <4>2
      <4> QED BY <1>1, <3>1, <4>1, <4>3
    <3> QED BY <3>2, <3>3
  <2> QED BY <1>2, <2>4, <2>5, <2>6, Parts, PTL
<1>4. CASE Goto(r, "recover") /\ UNCHANGED nativeVars
  <2>1. RequestType' /\ MineInv' /\ PipeType'
    BY <1>0, <1>1, <1>4 DEF ExecWrite, Goto, RequestType, MineInv, Holding, PipeType
  <2>2. WaitInv'
    <3>1. \A x \in Requests : pc'[x] = IF x = r THEN "recover" ELSE pc[x]
      BY <1>0, <1>4 DEF Goto, RequestType
    <3> QED BY <1>4, <3>1, WaitKept DEF ExecWrite
  <2> QED BY <1>2, <2>1, <2>2, Parts, PTL
<1> QED BY <1>3, <1>4 DEF ExecWrite

\* Whoever takes a frame out of the queue of p either was to have it, or is
\* about to restart p.
LEMMA TakeKeepsWait ==
  ASSUME IInv, NEW r \in Requests, NEW p \in Procs, mine[r] = p, pc[r] \in {"read", "extra"},
         queue[p] # <<>>, queue' = [queue EXCEPT ![p] = Tail(@)],
         UNCHANGED <<process, status, reader, jobs>>,
         \A x \in Requests \ {r} : pc'[x] = pc[x] /\ mine'[x] = mine[x],
         \/ pc'[r] = "recover" /\ mine'[r] = p
         \/ pc'[r] \in {"extra", "ended"} /\ Head(queue[p]) # [type |-> "bad"]
            /\ \A x \in Requests \ {r} : Head(queue[p]) # Frame(x, 1, "terminal")
         \/ pc'[r] = pc[r] /\ mine'[r] = p /\ Head(queue[p]) # [type |-> "bad"]
            /\ \A x \in Requests : Head(queue[p]) # Frame(x, 1, "terminal")
  PROVE  WaitInv'
<1>0. queue[p] \in Seq(Frames) /\ queue \in [Procs -> Seq(Frames)] /\ MineInv /\ RequestType
  BY Parts DEF PipeType
<1>1. /\ queue'[p] = Tail(queue[p]) /\ \A q \in Procs \ {p} : queue'[q] = queue[q]
      /\ \A x : Holds(queue[p], x) => x = Head(queue[p]) \/ Holds(queue'[p], x)
  BY <1>0, HoldsTail
<1> SUFFICES ASSUME NEW y \in Requests, pc'[y] = "read", process' = mine'[y],
                    status'[mine'[y]] = "alive", reader'[mine'[y]] = "reading"
             PROVE  \/ Holds(jobs[mine[y]], y) \/ AnswerWaits(queue'[mine[y]], y)
                    \/ \E x \in Requests : mine'[x] = mine[y] /\ pc'[x] = "recover"
  BY DEF WaitInv
<1>2. pc[y] = "read" /\ mine'[y] = mine[y] /\ mine[y] \in Procs
  BY <1>0 DEF MineInv, Holding, RequestType
<1>3. \/ Holds(jobs[mine[y]], y) \/ AnswerWaits(queue[mine[y]], y)
      \/ \E x \in Requests : mine[x] = mine[y] /\ pc[x] = "recover"
  BY <1>2 DEF IInv, WaitInv
<1>4. CASE Holds(jobs[mine[y]], y)
  BY <1>4
<1>5. CASE \E x \in Requests : mine[x] = mine[y] /\ pc[x] = "recover"
  BY <1>5
<1>6. CASE AnswerWaits(queue[mine[y]], y)
  <2>1. CASE mine[y] # p
    BY <1>1, <1>2, <1>6, <2>1
  <2>2. CASE mine[y] = p
    <3>1. CASE pc'[r] = "recover" /\ mine'[r] = p
      BY <2>2, <3>1
    <3>2. CASE Head(queue[p]) # [type |-> "bad"] /\ Head(queue[p]) # Frame(y, 1, "terminal")
      BY <1>1, <1>6, <2>2, <3>2 DEF AnswerWaits
    <3> QED BY <3>1, <3>2
  <2> QED BY <2>1, <2>2
<1> QED BY <1>3, <1>4, <1>5, <1>6

\* A frame the verifier accepts is the request's own.
LEMMA VerifiedFrame ==
  ASSUME NEW r \in Requests, NEW f \in Frames, Verifies(r, f)
  PROVE  /\ f.type \in {"started", "terminal"} /\ verifier[r] \in 0..1
         /\ f # [type |-> "bad"] /\ f # [type |-> "eof"]
         /\ \A x \in Requests \ {r} : f # Frame(x, 1, "terminal")
         /\ f.type = "started" => \A x \in Requests : f # Frame(x, 1, "terminal")
<1>1. f \in [request : Requests, sequence : 0..1, type : {"started", "terminal"}]
  BY DEF Frames, Verifies
<1>2. f.request = r /\ f.sequence = verifier[r]
  BY DEF Verifies
<1>3. f.type # "bad" /\ f.type # "eof"
  BY DEF Verifies
<1> QED BY <1>1, <1>2, <1>3 DEF Frame

\* Reading a frame.
LEMMA ReadKeeps ==
  ASSUME IInv, NEW r \in Requests, ExecRead(r)
  PROVE  IInv'
<1>0. /\ SupervisorInv /\ RequestType /\ PipeType /\ CallerType /\ MineInv
  BY Parts
<1>1. PICK p \in Procs : p = mine[r] /\ pc[r] = "read"
  BY <1>0 DEF ExecRead, MineInv, Holding, RequestType
<1>2. SupervisorInv' /\ CallerType'
  BY <1>0, SameSupervisor DEF ExecRead, CallerType
<1>3. queue[p] \in Seq(Frames) /\ queue[p] # <<>> /\ queue' = [queue EXCEPT ![p] = Tail(@)]
  BY <1>0, <1>1 DEF ExecRead, PipeType
<1>4. PipeType'
  BY <1>0, <1>1, <1>3, HoldsTail DEF ExecRead, PipeType
<1>5. PICK f \in Frames : f = Head(queue[p])
  BY <1>3, HoldsTail
<1>6. /\ UNCHANGED <<process, status, reader, jobs, mine, spawned>>
      /\ \A x \in Requests \ {r} : pc'[x] = pc[x]
  BY <1>0 DEF ExecRead, Goto, RequestType
<1>7. CASE Verifies(r, f) /\ f.type = "started"
  <2>1. verifier' = [verifier EXCEPT ![r] = @ + 1] /\ UNCHANGED <<pc, outcome>>
    BY <1>1, <1>5, <1>7 DEF ExecRead
  <2>2. RequestType' /\ MineInv'
    BY <1>0, <1>6, <1>7, <2>1, VerifiedFrame DEF RequestType, MineInv
  <2>3. WaitInv'
    BY <1>1, <1>3, <1>5, <1>6, <1>7, <2>1, VerifiedFrame, TakeKeepsWait
  <2> QED BY <1>2, <1>4, <2>2, <2>3, Parts, PTL
<1>8. CASE Verifies(r, f) /\ f.type # "started"
  <2>1. /\ verifier' = [verifier EXCEPT ![r] = @ + 1]
        /\ pc' = [pc EXCEPT ![r] = "extra"] /\ outcome' = [outcome EXCEPT ![r] = "answered"]
    BY <1>1, <1>5, <1>8 DEF ExecRead, Goto
  <2>2. RequestType' /\ MineInv'
    BY <1>0, <1>1, <1>6, <1>8, <2>1, VerifiedFrame DEF RequestType, MineInv, Holding
  <2>3. pc'[r] = "extra"
    BY <1>0, <2>1 DEF RequestType
  <2>4. WaitInv'
    BY <1>1, <1>3, <1>5, <1>6, <1>8, <2>3, VerifiedFrame, TakeKeepsWait
  <2> QED BY <1>2, <1>4, <2>2, <2>4, Parts, PTL
<1>9. CASE ~Verifies(r, f)
  <2>1. pc' = [pc EXCEPT ![r] = "recover"] /\ UNCHANGED <<verifier, outcome>>
    BY <1>1, <1>5, <1>9 DEF ExecRead, Goto
  <2>2. RequestType' /\ MineInv'
    BY <1>0, <1>1, <1>6, <2>1 DEF RequestType, MineInv, Holding
  <2>3. pc'[r] = "recover"
    BY <1>0, <2>1 DEF RequestType
  <2>4. WaitInv'
    BY <1>1, <1>3, <1>6, <2>3, TakeKeepsWait
  <2> QED BY <1>2, <1>4, <2>2, <2>4, Parts, PTL
<1> QED BY <1>7, <1>8, <1>9

\* The poll, the look at an extra frame, and the recovery.
LEMMA EndKeeps ==
  ASSUME IInv, NEW r \in Requests, ExecTimeout(r) \/ ExecExtra(r) \/ ExecRecover(r)
  PROVE  IInv'
<1>0. /\ SupervisorInv /\ RequestType /\ PipeType /\ CallerType /\ MineInv
      /\ spawned \in Nat /\ outcome[r] \in {"none", "answered", "raised", "assertion"}
  BY Parts DEF SupervisorInv, SupervisorType, RequestType
<1>1. PICK p \in Procs : p = mine[r] /\ pc[r] \in {"read", "extra", "recover"}
  BY <1>0 DEF ExecTimeout, ExecExtra, ExecRecover, MineInv, Holding, RequestType
<1>2. /\ UNCHANGED <<nativeVars, callerVars>>
      /\ \A x \in Requests \ {r} : pc'[x] = pc[x] /\ mine'[x] = mine[x]
  BY <1>0 DEF ExecTimeout, ExecExtra, ExecRecover, Goto, Ends, RequestType
<1>3. CallerType'
  BY <1>0, <1>2 DEF CallerType
<1>4. CASE ExecTimeout(r)
  <2>1. SupervisorInv' /\ PipeType'
    BY <1>0, <1>4, SameSupervisor DEF ExecTimeout, PipeType
  <2>2. RequestType' /\ MineInv' /\ pc'[r] = "recover" /\ mine' = mine
    BY <1>0, <1>1, <1>4 DEF ExecTimeout, Goto, RequestType, MineInv, Holding
  <2>3. WaitInv'
    BY <1>2, <1>4, <2>2, WaitKept DEF ExecTimeout
  <2> QED BY <1>3, <2>1, <2>2, <2>3, Parts, PTL
<1>5. CASE ExecExtra(r)
  <2>0. /\ SupervisorInv' /\ spawned' = spawned
        /\ pc[r] = "extra" /\ UNCHANGED <<process, status, reader, jobs, serving>>
    BY <1>0, <1>5, SameSupervisor DEF ExecExtra
  <2>1. CASE Ends(r, outcome[r]) /\ UNCHANGED <<queue, swallowed>>
    <3>1. RequestType' /\ MineInv'
      BY <1>0, <2>0, <2>1, EndsKeeps
    <3>2. PipeType'
      BY <1>0, <2>0, <2>1 DEF PipeType
    <3>3. pc'[r] = "ended"
      BY <1>0, <2>1 DEF Ends, RequestType
    <3>4. WaitInv'
      BY <1>2, <2>0, <2>1, <3>3, WaitKept
    <3> QED BY <1>3, <2>0, <3>1, <3>2, <3>4, Parts, PTL
  <2>2. CASE /\ queue[p] # <<>> /\ queue' = [queue EXCEPT ![p] = Tail(@)]
             /\ swallowed' \subseteq Procs
             /\ \/ Head(queue[p]).type = "eof" /\ Ends(r, outcome[r])
                \/ Goto(r, "recover") /\ UNCHANGED <<mine, verifier, outcome>>
    <3>1. queue[p] \in Seq(Frames)
      BY <1>0 DEF PipeType
    <3>2. PipeType'
      BY <1>0, <2>0, <2>2, <3>1, HoldsTail DEF PipeType
    <3>3. CASE Head(queue[p]).type = "eof" /\ Ends(r, outcome[r])
      <4>1. RequestType' /\ MineInv' /\ pc'[r] = "ended"
        <5>1. RequestType' /\ MineInv'
          BY <1>0, <2>0, <3>3, EndsKeeps
        <5> QED BY <1>0, <3>3, <5>1 DEF Ends, RequestType
      <4>2. /\ Head(queue[p]) # [type |-> "bad"]
            /\ \A x \in Requests : Head(queue[p]) # Frame(x, 1, "terminal")
        BY <3>3 DEF Frame
      <4>3. WaitInv'
        BY <1>1, <1>2, <2>0, <2>2, <4>1, <4>2, TakeKeepsWait
      <4> QED BY <1>3, <2>0, <3>2, <4>1, <4>3, Parts, PTL
    <3>4. CASE Goto(r, "recover") /\ UNCHANGED <<mine, verifier, outcome>>
      <4>1. RequestType' /\ MineInv' /\ pc'[r] = "recover"
        BY <1>0, <1>1, <2>0, <3>4 DEF Goto, RequestType, MineInv, Holding
      <4>2. WaitInv'
        BY <1>1, <1>2, <2>0, <2>2, <3>4, <4>1, TakeKeepsWait
      <4> QED BY <1>3, <2>0, <3>2, <4>1, <4>2, Parts, PTL
    <3> QED BY <2>2, <3>3, <3>4
  <2> QED BY <1>0, <1>1, <1>5, <2>1, <2>2 DEF ExecExtra, PipeType
<1>6. CASE ExecRecover(r)
  <2>0. pc[r] = "recover" /\ Ends(r, "raised") /\ UNCHANGED <<nativeVars, queue, swallowed>>
    BY <1>6 DEF ExecRecover
  <2>1. PipeType' /\ pc'[r] = "ended"
    BY <1>0, <1>2, <2>0 DEF PipeType, Ends, RequestType
  <2>2. CASE process # mine[r] /\ UNCHANGED <<supVars, spawned, status, reader>>
    <3>1. SupervisorInv'
      BY <1>0, <1>2, <2>2, SameSupervisor
    <3>2. RequestType' /\ MineInv'
      BY <1>0, <2>0, <2>2, EndsKeeps
    <3>3. WaitInv'
      <4>1. \A x \in Requests : pc'[x] = "read" => pc[x] = "read" /\ mine'[x] = mine[x]
        BY <1>2, <2>1
      <4>2. \A x \in Requests : pc[x] = "recover" =>
              (pc'[x] = "recover" /\ mine'[x] = mine[x]) \/ process' # mine[x]
        BY <1>2, <2>2
      <4> QED BY <1>2, <2>0, <2>2, <4>1, <4>2, WaitKept
    <3> QED BY <1>3, <2>1, <3>1, <3>2, <3>3, Parts, PTL
  <2>3. CASE process = mine[r] /\ KillThenStart
    <3>1. /\ SupervisorInv' /\ spawned <= spawned'
          /\ process' # NoProc /\ process' <= spawned => status'[process'] # "alive"
      BY <1>2, <2>3, RestartKeepsSupervisor
    <3>2. spawned' \in Nat
      BY <3>1 DEF SupervisorInv, SupervisorType
    <3>3. RequestType' /\ MineInv'
      BY <1>0, <2>0, <3>1, <3>2, EndsKeeps
    <3>4. \A x \in Requests : pc[x] \in Holding => mine[x] # NoProc /\ mine[x] <= spawned
      BY <1>0 DEF MineInv
    <3>5. WaitInv'
      BY <1>2, <2>0, <2>1, <3>1, <3>4, WaitKept DEF Holding
    <3> QED BY <1>3, <2>1, <3>1, <3>3, <3>5, Parts, PTL
  <2> QED BY <1>6, <2>2, <2>3 DEF ExecRecover
<1> QED BY <1>4, <1>5, <1>6

-----------------------------------------------------------------------------
(***************************************************************************)
(* The steps of the others.                                                *)
(***************************************************************************)

\* Restart and shutdown.
LEMMA SupervisorKeeps ==
  ASSUME IInv, KillAndRestart \/ ShutdownKill \/ ShutdownJoin \/ Observe
  PROVE  IInv'
<1> USE WorkerAssumption
<1>0. /\ SupervisorInv /\ RequestType /\ PipeType /\ CallerType /\ MineInv
      /\ spawned \in Nat
  BY Parts DEF SupervisorInv, SupervisorType
<1>1. UNCHANGED <<jobs, serving, queue, swallowed, pc, mine, verifier, outcome>>
  BY DEF KillAndRestart, ShutdownKill, ShutdownJoin, Observe
<1>2. PipeType' /\ RequestType'
  BY <1>0, <1>1 DEF PipeType, RequestType
<1>3. \A x \in Requests : pc[x] \in Holding => mine[x] # NoProc /\ mine[x] <= spawned
  BY <1>0 DEF MineInv
<1>4. CASE KillAndRestart
  <2>1. /\ SupervisorInv' /\ spawned <= spawned'
        /\ process' # NoProc /\ process' <= spawned => status'[process'] # "alive"
    BY <1>4, RestartKeepsSupervisor DEF KillAndRestart
  <2>2. spawned' \in Nat
    BY <2>1 DEF SupervisorInv, SupervisorType
  <2>3. MineInv'
    BY <1>0, <1>1, <2>1, <2>2 DEF MineInv, RequestType
  <2>4. CallerType'
    BY <1>0, <1>4 DEF KillAndRestart, CallerType
  <2>5. WaitInv'
    BY <1>1, <1>3, <2>1, WaitKept DEF Holding
  <2> QED BY <1>2, <2>1, <2>3, <2>4, <2>5, Parts, PTL
<1>5. ASSUME spawned' = spawned PROVE MineInv'
  BY <1>0, <1>1, <1>5 DEF MineInv
<1>6. CASE ShutdownKill
  <2>1. CASE stop' = "done" /\ UNCHANGED <<supVars, status, joining>>
    <3>1. SupervisorInv'
      BY <1>0, <1>6, <2>1 DEF ShutdownKill, SupervisorInv, SupervisorType, ReadyIsCurrent,
                              AliveInv, ReaderInv
    <3>2. CallerType'
      BY <1>0, <1>6, <2>1 DEF ShutdownKill, CallerType
    <3>3. WaitInv'
      <4>1. UNCHANGED <<process, status, reader>>
        BY <1>6, <2>1 DEF ShutdownKill
      <4> QED BY <1>1, <4>1, WaitKept
    <3>4. MineInv'
      BY <1>5, <1>6 DEF ShutdownKill
    <3> QED BY <1>2, <3>1, <3>2, <3>3, <3>4, Parts, PTL
  <2>2. CASE /\ sup' = "DRAINING" /\ stop' = "join" /\ process' = NoProc /\ frames' = NoProc
             /\ status' = IF process = NoProc THEN status ELSE [status EXCEPT ![process] = "dead"]
             /\ joining' = [reader |-> readerThread, ended |-> TRUE]
             /\ UNCHANGED readerThread
    <3>0. /\ UNCHANGED <<spawned, reader, cancelled, watched, restart>>
          /\ process # NoProc => process \in Procs /\ status[process] # "none"
      BY <1>0, <1>6 DEF ShutdownKill, SupervisorInv, SupervisorType
    <3>1. SupervisorInv'
      BY <1>0, <2>2, <3>0 DEF SupervisorInv, SupervisorType, ReadyIsCurrent, AliveInv, ReaderInv,
                              Statuses
    <3>2. CallerType'
      BY <1>0, <2>2, <3>0 DEF CallerType, SupervisorInv, SupervisorType
    <3>3. WaitInv'
      BY <1>1, <1>3, <2>2, WaitKept DEF Holding
    <3>4. MineInv'
      BY <1>5, <3>0
    <3> QED BY <1>2, <3>1, <3>2, <3>3, <3>4, Parts, PTL
  <2>3. CASE /\ sup' = "DRAINING" /\ stop' = "join" /\ process # NoProc /\ Running(process)
             /\ status' = [status EXCEPT ![process] = "dying"]
             /\ joining' = [reader |-> readerThread, ended |-> FALSE]
             /\ UNCHANGED <<process, frames, readerThread>>
    <3>0. /\ UNCHANGED <<spawned, reader, cancelled, watched, restart>>
          /\ process \in Procs /\ status[process] \notin {"none", "dead"}
      BY <1>0, <1>6, <2>3 DEF ShutdownKill, SupervisorInv, SupervisorType, Running
    <3>1. SupervisorInv'
      BY <1>0, <2>3, <3>0 DEF SupervisorInv, SupervisorType, ReadyIsCurrent, AliveInv, ReaderInv,
                              Statuses
    <3>2. CallerType'
      BY <1>0, <2>3, <3>0 DEF CallerType, SupervisorInv, SupervisorType
    <3>3. status'[process] = "dying" /\ process' = process
      BY <1>0, <2>3, <3>0 DEF SupervisorInv, SupervisorType
    <3>4. WaitInv'
      BY <1>1, <3>3, WaitKept
    <3>5. MineInv'
      BY <1>5, <3>0
    <3> QED BY <1>2, <3>1, <3>2, <3>4, <3>5, Parts, PTL
  <2> QED BY <1>6, <2>1, <2>2, <2>3 DEF ShutdownKill
<1>7. CASE ShutdownJoin
  <2>1. SupervisorInv'
    BY <1>0, <1>7 DEF ShutdownJoin, SupervisorInv, SupervisorType, ReadyIsCurrent, AliveInv, ReaderInv
  <2>2. CallerType'
    BY <1>0, <1>7 DEF ShutdownJoin, CallerType
  <2>3. WaitInv'
    BY <1>1, <1>7, WaitKept DEF ShutdownJoin
  <2>4. MineInv'
    BY <1>5, <1>7 DEF ShutdownJoin
  <2> QED BY <1>2, <2>1, <2>2, <2>3, <2>4, Parts, PTL
<1>8. CASE Observe
  <2>1. SupervisorInv'
    BY <1>0, <1>8 DEF Observe, SupervisorInv, SupervisorType, ReadyIsCurrent, AliveInv, ReaderInv, Running
  <2>2. CallerType'
    BY <1>0, <1>8 DEF Observe, CallerType
  <2>3. WaitInv'
    BY <1>1, <1>8, WaitKept DEF Observe
  <2>4. MineInv'
    BY <1>5, <1>8 DEF Observe
  <2> QED BY <1>2, <2>1, <2>2, <2>3, <2>4, Parts, PTL
<1> QED BY <1>4, <1>6, <1>7, <1>8

\* Nobody's wait depends on a frame more in some queue, if a job that left came
\* with one that ends the wait.
LEMMA WriteKeepsWait ==
  ASSUME IInv, NEW p \in Procs, NEW f \in Frames, Writes(p, f),
         UNCHANGED <<process, status, pc, mine>>,
         \A q \in Procs : reader'[q] = "reading" => reader[q] = "reading",
         \/ jobs' = jobs
         \/ /\ jobs[p] # <<>> /\ jobs' = [jobs EXCEPT ![p] = Tail(@)]
            /\ f = [type |-> "bad"] \/ f = Frame(Head(jobs[p]), 1, "terminal")
  PROVE  /\ WaitInv' /\ queue' \in [Procs -> Seq(Frames)]
         /\ jobs' \in [Procs -> Seq(Requests)]
<1>0. /\ queue \in [Procs -> Seq(Frames)] /\ jobs \in [Procs -> Seq(Requests)]
      /\ MineInv /\ RequestType
  BY Parts DEF PipeType
<1>1. /\ queue'[p] = Append(queue[p], f) /\ queue[p] \in Seq(Frames)
      /\ \A q \in Procs \ {p} : queue'[q] = queue[q]
  BY <1>0 DEF Writes
<1>2. /\ Append(queue[p], f) \in Seq(Frames) /\ Holds(queue'[p], f)
      /\ \A x : Holds(queue[p], x) => Holds(queue'[p], x)
  BY <1>1, HoldsAppend
<1>3. /\ jobs' \in [Procs -> Seq(Requests)]
      /\ \A q \in Procs, x \in Requests :
           Holds(jobs[q], x) => Holds(jobs'[q], x) \/ (q = p /\ AnswerWaits(queue'[p], x))
  <2>1. CASE jobs' = jobs
    BY <1>0, <2>1
  <2>2. CASE /\ jobs[p] # <<>> /\ jobs' = [jobs EXCEPT ![p] = Tail(@)]
             /\ f = [type |-> "bad"] \/ f = Frame(Head(jobs[p]), 1, "terminal")
    <3>1. /\ Tail(jobs[p]) \in Seq(Requests)
          /\ \A x : Holds(jobs[p], x) => x = Head(jobs[p]) \/ Holds(Tail(jobs[p]), x)
      BY <1>0, <2>2, HoldsTail
    <3>2. /\ jobs' \in [Procs -> Seq(Requests)] /\ jobs'[p] = Tail(jobs[p])
          /\ \A q \in Procs \ {p} : jobs'[q] = jobs[q]
      BY <1>0, <2>2, <3>1
    <3>3. \A x \in Requests : x = Head(jobs[p]) => AnswerWaits(queue'[p], x)
      BY <1>2, <2>2 DEF AnswerWaits
    <3> QED BY <3>1, <3>2, <3>3
  <2> QED BY <2>1, <2>2
<1>4. queue' \in [Procs -> Seq(Frames)]
  BY <1>0, <1>2 DEF Writes
<1>5. \A q \in Procs, x \in Requests : AnswerWaits(queue[q], x) => AnswerWaits(queue'[q], x)
  BY <1>1, <1>2 DEF AnswerWaits
<1>6. ASSUME NEW y \in Requests, pc'[y] = "read", process' = mine'[y],
             status'[mine'[y]] = "alive", reader'[mine'[y]] = "reading"
      PROVE  \/ Holds(jobs'[mine[y]], y) \/ AnswerWaits(queue'[mine[y]], y)
             \/ \E x \in Requests : mine'[x] = mine[y] /\ pc'[x] = "recover"
  <2>1. mine[y] \in Procs
    BY <1>0, <1>6 DEF MineInv, Holding, RequestType
  <2>2. \/ Holds(jobs[mine[y]], y) \/ AnswerWaits(queue[mine[y]], y)
        \/ \E x \in Requests : mine[x] = mine[y] /\ pc[x] = "recover"
    <3>1. /\ pc[y] = "read" /\ process = mine[y] /\ status[mine[y]] = "alive"
          /\ reader[mine[y]] = "reading"
      BY <1>6, <2>1
    <3> QED BY <3>1 DEF IInv, WaitInv
  <2> QED BY <1>3, <1>5, <1>6, <2>1, <2>2
<1> QED BY <1>3, <1>4, <1>6 DEF WaitInv

\* Readers and native processes.
LEMMA ProcessKeeps ==
  ASSUME IInv, NEW p \in Procs,
         \/ ReaderEof(p) \/ ReaderFails(p) \/ ReaderNotice(p)
         \/ NativeEmit(p) \/ NativeRubbish(p) \/ NativeExit(p)
  PROVE  IInv'
<1>0. /\ SupervisorInv /\ RequestType /\ PipeType /\ CallerType /\ MineInv
  BY Parts
<1>1. UNCHANGED <<pc, mine, verifier, outcome, spawned, callerVars>>
  BY DEF ReaderEof, ReaderFails, ReaderNotice, NativeEmit, NativeRubbish, NativeExit
<1>2. RequestType' /\ MineInv' /\ CallerType'
  BY <1>0, <1>1 DEF RequestType, MineInv, CallerType
<1>3. /\ [type |-> "eof"] \in Frames /\ [type |-> "bad"] \in Frames
      /\ \A r \in Requests : Frame(r, 0, "started") \in Frames /\ Frame(r, 1, "terminal") \in Frames
  BY DEF Frames, Frame
<1>4. CASE ReaderEof(p) \/ ReaderFails(p)
  <2>1. SupervisorInv'
    BY <1>0, <1>4 DEF ReaderEof, ReaderFails, SupervisorInv, SupervisorType, ReadyIsCurrent, AliveInv, ReaderInv
  <2>2. WaitInv' /\ queue' \in [Procs -> Seq(Frames)]
    <3>1. /\ Writes(p, [type |-> "eof"]) /\ UNCHANGED <<process, status, pc, mine, jobs>>
          /\ reader' = [reader EXCEPT ![p] = "notice"]
      BY <1>4 DEF ReaderEof, ReaderFails
    <3>2. \A q \in Procs : reader'[q] = "reading" => reader[q] = "reading"
      BY <1>0, <3>1 DEF SupervisorInv, SupervisorType
    <3> QED BY <1>3, <3>1, <3>2, WriteKeepsWait
  <2>3. PipeType'
    BY <1>0, <1>4, <2>2 DEF ReaderEof, ReaderFails, PipeType
  <2> QED BY <1>2, <2>1, <2>2, <2>3, Parts, PTL
<1>5. CASE ReaderNotice(p)
  <2>1. SupervisorInv'
    BY <1>0, <1>5 DEF ReaderNotice, SupervisorInv, SupervisorType, ReadyIsCurrent, AliveInv, ReaderInv
  <2>2. PipeType'
    BY <1>0, <1>5 DEF ReaderNotice, PipeType
  <2>3. WaitInv'
    BY <1>5, WaitKept DEF ReaderNotice
  <2> QED BY <1>2, <2>1, <2>2, <2>3, Parts, PTL
<1>6. CASE NativeEmit(p)
  <2>0. jobs[p] # <<>> /\ Head(jobs[p]) \in Requests
    BY <1>0, <1>6, HoldsTail DEF NativeEmit, PipeType
  <2>1. SupervisorInv'
    BY <1>0, <1>6, SameSupervisor DEF NativeEmit
  <2>2. CASE /\ Writes(p, Frame(Head(jobs[p]), 0, "started"))
             /\ serving' = [serving EXCEPT ![p] = 1] /\ UNCHANGED jobs
    <3>1. /\ WaitInv' /\ queue' \in [Procs -> Seq(Frames)]
          /\ jobs' \in [Procs -> Seq(Requests)]
      <4>1. UNCHANGED <<process, status, pc, mine, reader>>
        BY <1>6 DEF NativeEmit
      <4> QED BY <1>3, <2>0, <2>2, <4>1, WriteKeepsWait
    <3>2. PipeType'
      BY <1>0, <1>6, <2>2, <3>1 DEF PipeType, NativeEmit
    <3> QED BY <1>2, <2>1, <3>1, <3>2, Parts, PTL
  <2>3. CASE Writes(p, Frame(Head(jobs[p]), 1, "terminal")) /\ JobDone(p)
    <3>1. /\ WaitInv' /\ queue' \in [Procs -> Seq(Frames)]
          /\ jobs' \in [Procs -> Seq(Requests)]
      <4>1. UNCHANGED <<process, status, pc, mine, reader>>
        BY <1>6 DEF NativeEmit
      <4>2. jobs' = [jobs EXCEPT ![p] = Tail(@)]
        BY <2>3 DEF JobDone
      <4> QED BY <1>3, <2>0, <2>3, <4>1, <4>2, WriteKeepsWait
    <3>2. PipeType'
      BY <1>0, <1>6, <2>3, <3>1 DEF PipeType, NativeEmit, JobDone
    <3> QED BY <1>2, <2>1, <3>1, <3>2, Parts, PTL
  <2> QED BY <1>6, <2>2, <2>3 DEF NativeEmit
<1>7. CASE NativeRubbish(p)
  <2>1. SupervisorInv'
    BY <1>0, <1>7, SameSupervisor DEF NativeRubbish
  <2>2. /\ WaitInv' /\ queue' \in [Procs -> Seq(Frames)]
        /\ jobs' \in [Procs -> Seq(Requests)]
    BY <1>3, <1>7, WriteKeepsWait DEF NativeRubbish, JobDone
  <2>3. PipeType'
    BY <1>0, <1>7, <2>2 DEF PipeType, NativeRubbish, JobDone
  <2> QED BY <1>2, <2>1, <2>2, <2>3, Parts, PTL
<1>8. CASE NativeExit(p)
  <2>1. SupervisorInv'
    BY <1>0, <1>8 DEF NativeExit, SupervisorInv, SupervisorType, ReadyIsCurrent, AliveInv,
                      ReaderInv, Running, Statuses
  <2>2. PipeType'
    BY <1>0, <1>8 DEF NativeExit, PipeType
  <2>3. \A q \in Procs : status'[q] = "alive" => status[q] = "alive"
    BY <1>0, <1>8 DEF NativeExit, SupervisorInv, SupervisorType
  <2>4. \A r \in Requests : pc[r] = "read" => mine[r] \in Procs
    BY <1>0 DEF MineInv, Holding, RequestType
  <2>5. WaitInv'
    BY <1>8, <2>3, <2>4, WaitKept DEF NativeExit
  <2> QED BY <1>2, <2>1, <2>2, <2>5, Parts, PTL
<1> QED BY <1>4, <1>5, <1>6, <1>7, <1>8

\* The dispatcher's steps.
LEMMA DispatcherKeeps ==
  ASSUME IInv,
         \/ BeginShutdown
         \/ \E r \in Requests : Dispatch(r) \/ Settle(r) \/ Cancel(r) \/ GiveUp(r)
  PROVE  IInv'
<1>0. /\ SupervisorInv /\ RequestType /\ PipeType /\ CallerType /\ MineInv
  BY Parts
<1>1. /\ UNCHANGED <<supVars, spawned, status, nativeVars, queue, reader, swallowed, mine,
                     verifier, outcome>>
      /\ stop' = stop \/ (stop = "no" /\ stop' = "due")
      /\ pc' = pc \/ \E r \in Requests : pc[r] = "new" /\ pc' = [pc EXCEPT ![r] = "begin"]
  BY DEF BeginShutdown, Dispatch, Settle, Cancel, GiveUp, Goto
<1>2. \A x \in Requests : pc'[x] = pc[x] \/ (pc[x] = "new" /\ pc'[x] = "begin")
  BY <1>0, <1>1 DEF RequestType
<1>3. SupervisorInv' /\ PipeType'
  BY <1>0, <1>1, SameSupervisor DEF PipeType
<1>4. RequestType'
  BY <1>0, <1>1 DEF RequestType
<1>5. MineInv'
  BY <1>0, <1>1, <1>2 DEF MineInv, Holding
<1>6. CallerType'
  BY <1>0 DEF CallerType, BeginShutdown, Dispatch, Settle, Cancel, GiveUp
<1>7. WaitInv'
  BY <1>1, <1>2, WaitKept
<1> QED BY <1>3, <1>4, <1>5, <1>6, <1>7, Parts, PTL

-----------------------------------------------------------------------------
(***************************************************************************)
(* The theorems.                                                           *)
(***************************************************************************)

\* Before the first start there is no process.
LEMMA InitHolds == Init => IInv
<1> SUFFICES ASSUME Init PROVE IInv
  OBVIOUS
<1> USE WorkerAssumption DEF Init
<1>1. TypeOK
  BY DEF TypeOK
<1>2. SpawnInv /\ ReadyIsCurrent /\ AliveInv /\ ReaderInv /\ WaitInv
  BY DEF SpawnInv, ReadyIsCurrent, AliveInv, ReaderInv, WaitInv, Holding
<1> QED BY <1>1, <1>2 DEF IInv

\* Every step of every actor keeps the invariant.
LEMMA StepHolds == IInv /\ [Next]_vars => IInv'
<1> SUFFICES ASSUME IInv, [Next]_vars PROVE IInv'
  OBVIOUS
<1>1. ASSUME UNCHANGED vars PROVE IInv'
  <2>1. SupervisorInv'
    BY <1>1, Parts, SameSupervisor DEF vars
  <2>2. RequestType' /\ PipeType' /\ CallerType' /\ MineInv'
    BY <1>1, Parts DEF vars, RequestType, PipeType, CallerType, MineInv
  <2>3. WaitInv'
    BY <1>1, WaitKept DEF vars
  <2> QED BY <2>1, <2>2, <2>3, Parts, PTL
<1>2. ASSUME NEW r \in Requests, ExecStep(r) PROVE IInv'
  BY <1>2, BeginKeeps, WriteKeeps, ReadKeeps, EndKeeps DEF ExecStep
<1> QED BY <1>1, <1>2, ProcessKeeps, SupervisorKeeps, DispatcherKeeps DEF Next

\* The inductive invariant of the supervisor.
THEOREM Invariance == Spec => []IInv
BY InitHolds, StepHolds, PTL DEF Spec

\* The types hold, a ready supervisor has its queue and its reader, which has not
\* said that it ended, of the very process it started last, and until shutdown()
\* kills it a process lives beside it only if that one's reader has failed.
THEOREM SupervisorIsCoherent == Spec => []SupervisorCoherent
<1>1. IInv => SupervisorCoherent
  BY DEF IInv, SupervisorCoherent, AliveInv, OneProcess
<1> QED BY <1>1, Invariance, PTL

\* The lock sections never make a process current whose reader has failed.
LEMMA StartMarksNobody ==
  ASSUME NEW st, NEW owner, StartLocked(st, owner),
         spawned \in Nat, MaxProcs \in Nat, reader \in [Procs -> {"none", "reading", "notice", "done"}]
  PROVE  \A p \in Procs :
           process' = p /\ reader'[p] \in {"notice", "done"} =>
             owner = p /\ status' = st /\ reader' = reader
<1>1. spawned < MaxProcs => spawned + 1 \in Procs
  OBVIOUS
<1> QED BY <1>1 DEF StartLocked

\* What a step does to the queue, the requests in recovery and the processes
\* that keeps the mark of a failed reader where it is.
LEMMA MarkKept ==
  ASSUME MarkInv,
         \A p \in Procs :
           process' = p /\ status'[p] = "alive" /\ reader'[p] \in {"notice", "done"} =>
             \/ Holds(queue'[p], [type |-> "eof"])
             \/ /\ process = p /\ status[p] = "alive" /\ reader[p] \in {"notice", "done"}
                /\ Holds(queue[p], [type |-> "eof"]) =>
                     \/ Holds(queue'[p], [type |-> "eof"])
                     \/ \E x \in Requests : mine'[x] = p /\ pc'[x] = "recover"
                     \/ p \in swallowed'
                /\ \A x \in Requests :
                     mine[x] = p /\ pc[x] = "recover" => mine'[x] = p /\ pc'[x] = "recover",
         swallowed \subseteq swallowed'
  PROVE  MarkInv'
<1> SUFFICES ASSUME NEW p \in Procs, process' = p, status'[p] = "alive",
                    reader'[p] \in {"notice", "done"}
             PROVE  \/ Holds(queue'[p], [type |-> "eof"])
                    \/ \E x \in Requests : mine'[x] = p /\ pc'[x] = "recover"
                    \/ p \in swallowed'
  BY DEF MarkInv, Holds
<1>1. CASE Holds(queue'[p], [type |-> "eof"])
  BY <1>1
<1>2. CASE ~Holds(queue'[p], [type |-> "eof"])
  <2>1. \/ Holds(queue[p], [type |-> "eof"])
        \/ \E x \in Requests : mine[x] = p /\ pc[x] = "recover"
        \/ p \in swallowed
    BY <1>2 DEF MarkInv
  <2> QED BY <1>2, <2>1
<1> QED BY <1>1, <1>2

\* The mark stays where it is, or is taken by somebody who restarts the process,
\* or by one who has its answer.
LEMMA MarkStep == IInv /\ MarkInv /\ [Next]_vars => MarkInv'
<1> SUFFICES ASSUME IInv, MarkInv, [Next]_vars PROVE MarkInv'
  OBVIOUS
<1> USE WorkerAssumption
<1>0. /\ RequestType /\ queue \in [Procs -> Seq(Frames)] /\ spawned \in Nat /\ MaxProcs \in Nat
      /\ reader \in [Procs -> {"none", "reading", "notice", "done"}] /\ status \in [Procs -> Statuses] /\ process \in Owners
      /\ \A r \in Requests : pc[r] \in Holding => mine[r] \in Procs
  BY Parts DEF SupervisorInv, SupervisorType, PipeType, MineInv, RequestType
<1>1. ASSUME UNCHANGED <<process, status, reader, queue, swallowed>>,
             \A x \in Requests : pc[x] = "recover" => pc'[x] = "recover" /\ mine'[x] = mine[x]
      PROVE  MarkInv'
  BY <1>1, MarkKept
<1>2. UNCHANGED vars => MarkInv'
  BY <1>1 DEF vars
<1>3. ASSUME NEW r \in Requests,
             ExecBegin(r) \/ ExecGrab(r) \/ ExecWrite(r) \/ ExecTimeout(r) \/ Dispatch(r)
               \/ Settle(r) \/ Cancel(r) \/ GiveUp(r)
      PROVE  MarkInv'
  <2>1. UNCHANGED <<process, status, reader, queue, swallowed>>
    BY <1>3 DEF ExecBegin, ExecGrab, ExecWrite, ExecTimeout, Dispatch, Settle, Cancel, GiveUp
  <2>2. \A x \in Requests : pc[x] = "recover" => pc'[x] = "recover" /\ mine'[x] = mine[x]
    BY <1>0, <1>3 DEF ExecBegin, ExecGrab, ExecWrite, ExecTimeout, Dispatch, Settle, Cancel,
                      GiveUp, Ends, Goto, RequestType
  <2> QED BY <1>1, <2>1, <2>2
<1>4. ASSUME NEW r \in Requests, ExecStart(r) PROVE MarkInv'
  <2>1. /\ UNCHANGED <<queue, swallowed>>
        /\ \A x \in Requests : pc[x] = "recover" => pc'[x] = "recover" /\ mine'[x] = mine[x]
    BY <1>0, <1>4 DEF ExecStart, Ends, Goto, RequestType
  <2>2. UNCHANGED <<process, status, reader>> \/ StartLocked(status, process)
    BY <1>4 DEF ExecStart
  <2>3. CASE StartLocked(status, process)
    <3>1. \A p \in Procs :
            process' = p /\ reader'[p] \in {"notice", "done"} =>
              process = p /\ status' = status /\ reader' = reader
      BY <1>0, <2>3, StartMarksNobody
    <3> QED BY <2>1, <3>1, MarkKept
  <2> QED BY <1>1, <2>1, <2>2, <2>3
<1>5. ASSUME KillThenStart
      PROVE  \A p \in Procs : process' = p /\ status'[p] = "alive" =>
               reader'[p] \notin {"notice", "done"}
  <2>1. ASSUME NEW st, StartLocked(st, NoProc), NEW p \in Procs, process' = p
        PROVE  reader'[p] \notin {"notice", "done"}
    <3>1. p # NoProc
      OBVIOUS
    <3> QED BY ONLY <1>0, <2>1, <3>1, StartMarksNobody
  <2>2. CASE status' = [status EXCEPT ![process] = "dying"] /\ UNCHANGED process
    BY <1>0, <2>2
  <2> QED BY <1>5, <2>1, <2>2 DEF KillThenStart
<1>6. ASSUME NEW r \in Requests, ExecRead(r) PROVE MarkInv'
  <2>1. PICK p \in Procs : p = mine[r] /\ pc[r] = "read"
    BY <1>0, <1>6 DEF ExecRead, Holding
  <2>2. /\ queue[p] # <<>> /\ queue' = [queue EXCEPT ![p] = Tail(@)]
        /\ UNCHANGED <<process, status, reader, swallowed, mine>>
        /\ \A x \in Requests : pc[x] = "recover" => pc'[x] = "recover"
        /\ Verifies(r, Head(queue[p])) \/ pc'[r] = "recover"
    BY <1>0, <1>6, <2>1 DEF ExecRead, Goto, RequestType
  <2>3. queue[p] \in Seq(Frames) /\ Head(queue[p]) \in Frames
        /\ \A x : Holds(queue[p], x) => x = Head(queue[p]) \/ Holds(Tail(queue[p]), x)
    BY <1>0, <2>2, HoldsTail
  <2>4. Head(queue[p]) = [type |-> "eof"] => pc'[r] = "recover"
    BY <2>2, <2>3, VerifiedFrame
  <2>5. queue'[p] = Tail(queue[p]) /\ \A q \in Procs \ {p} : queue'[q] = queue[q]
    BY <1>0, <2>2
  <2>6. \A q \in Procs : Holds(queue[q], [type |-> "eof"]) =>
          Holds(queue'[q], [type |-> "eof"]) \/ (mine'[r] = q /\ pc'[r] = "recover")
    BY <2>1, <2>2, <2>3, <2>4, <2>5
  <2> QED BY <2>2, <2>6, MarkKept
<1>7. ASSUME NEW r \in Requests, ExecExtra(r) PROVE MarkInv'
  <2>1. PICK p \in Procs : p = mine[r] /\ pc[r] = "extra"
    BY <1>0, <1>7 DEF ExecExtra, Holding
  <2>2. /\ UNCHANGED <<process, status, reader>> /\ swallowed \subseteq swallowed'
        /\ \A x \in Requests : pc[x] = "recover" => pc'[x] = "recover" /\ mine'[x] = mine[x]
    BY <1>0, <1>7 DEF ExecExtra, Ends, Goto, RequestType
  <2>3. CASE UNCHANGED queue
    BY <2>2, <2>3, MarkKept
  <2>4. CASE /\ queue[p] # <<>> /\ queue' = [queue EXCEPT ![p] = Tail(@)]
             /\ \/ Head(queue[p]).type = "eof" /\ (Running(p) => p \in swallowed')
                \/ Head(queue[p]).type # "eof"
    <3>1. \A x : Holds(queue[p], x) => x = Head(queue[p]) \/ Holds(Tail(queue[p]), x)
      BY <1>0, <2>4, HoldsTail
    <3>2. queue'[p] = Tail(queue[p]) /\ \A q \in Procs \ {p} : queue'[q] = queue[q]
      BY <1>0, <2>4
    <3>3. \A q \in Procs : status[q] = "alive" /\ Holds(queue[q], [type |-> "eof"]) =>
            Holds(queue'[q], [type |-> "eof"]) \/ q \in swallowed'
      BY <2>4, <3>1, <3>2 DEF Running
    <3> QED BY <2>2, <3>3, MarkKept
  <2> QED BY <1>7, <2>1, <2>3, <2>4 DEF ExecExtra
<1>8. ASSUME NEW r \in Requests, ExecRecover(r) PROVE MarkInv'
  <2>1. /\ UNCHANGED <<queue, swallowed>>
        /\ \A x \in Requests \ {r} : pc'[x] = pc[x] /\ mine'[x] = mine[x]
    BY <1>0, <1>8 DEF ExecRecover, Ends, RequestType
  <2>2. CASE process # mine[r] /\ UNCHANGED <<supVars, status, reader>>
    <3>1. \A p \in Procs, x \in Requests :
            process' = p /\ mine[x] = p /\ pc[x] = "recover" =>
              mine'[x] = p /\ pc'[x] = "recover"
      BY <2>1, <2>2
    <3> QED BY <2>1, <2>2, <3>1, MarkKept
  <2>3. CASE KillThenStart
    BY <1>5, <2>3 DEF MarkInv
  <2> QED BY <1>8, <2>2, <2>3 DEF ExecRecover
<1>9. ASSUME NEW p \in Procs, NEW f \in Frames, Writes(p, f),
             UNCHANGED <<process, status, swallowed, pc, mine>>,
             \A q \in Procs : reader'[q] = reader[q] \/ (q = p /\ f = [type |-> "eof"])
      PROVE  MarkInv'
  <2>1. /\ queue'[p] = Append(queue[p], f) /\ queue[p] \in Seq(Frames)
        /\ \A q \in Procs \ {p} : queue'[q] = queue[q]
    BY <1>0, <1>9 DEF Writes
  <2>2. Holds(queue'[p], f) /\ \A x : Holds(queue[p], x) => Holds(queue'[p], x)
    BY <2>1, HoldsAppend
  <2> QED BY <1>9, <2>1, <2>2, MarkKept
<1>10. ASSUME NEW p \in Procs,
              ReaderEof(p) \/ ReaderFails(p) \/ NativeEmit(p) \/ NativeRubbish(p)
       PROVE  MarkInv'
  <2>1. PICK f \in Frames :
          /\ Writes(p, f) /\ UNCHANGED <<process, status, swallowed, pc, mine>>
          /\ \/ reader' = reader
             \/ f = [type |-> "eof"] /\ reader' = [reader EXCEPT ![p] = "notice"]
    <3>1. [type |-> "eof"] \in Frames /\ [type |-> "bad"] \in Frames
      BY DEF Frames
    <3>2. CASE ReaderEof(p) \/ ReaderFails(p)
      BY <3>1, <3>2 DEF ReaderEof, ReaderFails
    <3>3. CASE NativeRubbish(p)
      BY <3>1, <3>3 DEF NativeRubbish
    <3>4. CASE NativeEmit(p)
      <4>1. Head(jobs[p]) \in Requests
        BY <3>4, Parts, HoldsTail DEF NativeEmit, PipeType
      <4>2. \A r \in Requests :
              Frame(r, 0, "started") \in Frames /\ Frame(r, 1, "terminal") \in Frames
        BY DEF Frames, Frame
      <4> QED BY <3>4, <4>1, <4>2 DEF NativeEmit
    <3> QED BY <1>10, <3>2, <3>3, <3>4
  <2>2. \A q \in Procs : reader'[q] = reader[q] \/ (q = p /\ f = [type |-> "eof"])
    BY <1>0, <2>1
  <2> QED BY <1>9, <2>1, <2>2
<1>11. ASSUME NEW p \in Procs, ReaderNotice(p) PROVE MarkInv'
  BY <1>0, <1>11, MarkKept DEF ReaderNotice
<1>12. ASSUME NEW p \in Procs, NativeExit(p) PROVE MarkInv'
  BY <1>0, <1>12, MarkKept DEF NativeExit
<1>13. KillAndRestart => MarkInv'
  BY <1>5 DEF KillAndRestart, MarkInv
<1>14. ShutdownKill => MarkInv'
  <2>1. ASSUME ShutdownKill
        PROVE  /\ UNCHANGED <<reader, queue, swallowed, pc, mine>>
               /\ \A p \in Procs : process' = p /\ status'[p] = "alive" =>
                    process = p /\ status[p] = "alive"
    BY <1>0, <2>1 DEF ShutdownKill
  <2> QED BY <2>1, MarkKept
<1>15. ShutdownJoin \/ Observe \/ BeginShutdown => MarkInv'
  BY <1>1 DEF ShutdownJoin, Observe, BeginShutdown
<1> QED BY <1>2, <1>3, <1>4, <1>6, <1>7, <1>8, <1>10, <1>11, <1>12, <1>13, <1>14, <1>15
        DEF Next, ExecStep

\* Whoever waits for frames of a living current process has its answer coming, or
\* the process is about to be restarted, or its reader has failed and another
\* request took the mark: then the supervisor is not ready, or about to be told.
THEOREM NoVainWait == Spec => []NobodyWaitsInVain
<1>1. Init => MarkInv
  BY WorkerAssumption DEF Init, MarkInv
<1>2. ASSUME IInv, MarkInv PROVE NobodyWaitsInVain
  <2> SUFFICES ASSUME NEW r \in Requests, NEW p, p = mine[r], pc[r] = "read", process = p,
                      status[p] = "alive"
               PROVE  \/ reader[p] = "reading" /\ Holds(jobs[p], r)
                      \/ EndsTheWait(queue[p], r)
                      \/ \E x \in Requests : mine[x] = p /\ pc[x] = "recover"
                      \/ Stranded(r) /\ (reader[p] = "notice" \/ sup # "READY")
    BY DEF NobodyWaitsInVain
  <2>1. p \in Procs /\ reader[p] \in {"reading", "notice", "done"}
    BY <1>2 DEF IInv, SpawnInv, TypeOK, ReaderInv, Holding
  <2>2. CASE reader[p] = "reading"
    BY <1>2, <2>2 DEF IInv, WaitInv, AnswerWaits, EndsTheWait
  <2>3. CASE reader[p] \in {"notice", "done"}
    <3>1. \/ Holds(queue[p], [type |-> "eof"])
          \/ \E x \in Requests : mine[x] = p /\ pc[x] = "recover"
          \/ p \in swallowed
      BY <1>2, <2>1, <2>3 DEF MarkInv
    <3>2. reader[p] = "done" => sup # "READY"
      BY <1>2 DEF IInv, ReadyIsCurrent
    <3> QED BY <2>3, <3>1, <3>2 DEF EndsTheWait, Stranded
  <2> QED BY <2>1, <2>2, <2>3
<1> QED BY <1>1, <1>2, Invariance, MarkStep, PTL DEF Spec

\* A start degrades and kills nothing that lives.
LEMMA StartKillsNobody ==
  ASSUME IInv, StartLocked(status, process), ~(process # NoProc /\ Running(process) /\ sup = "READY")
  PROVE  /\ sup = "READY" => status'[process] # "alive"
         /\ \A p \in Procs : status[p] = "alive" => status'[p] = "alive"
<1>0. /\ status \in [Procs -> Statuses] /\ process \in Owners /\ spawned \in Nat /\ MaxProcs \in Nat
      /\ process <= spawned /\ spawned <= MaxProcs
  BY WorkerAssumption DEF IInv, TypeOK, SpawnInv, Statuses
<1>1. \A p \in Procs : p <= spawned => status'[p] = status[p]
  BY <1>0 DEF StartLocked
<1>2. \A p \in Procs : status[p] = "alive" => p <= spawned
  BY <1>0 DEF IInv, SpawnInv
<1>3. sup = "READY" => process \in Procs /\ status[process] # "alive"
  BY <1>0 DEF IInv, ReadyIsCurrent, Running
<1> QED BY <1>0, <1>1, <1>2, <1>3

\* No generation suffers for another: only the end of its own process or of that
\* process's reader takes a supervisor's readiness, and only restart, shutdown or
\* a request that failed on it kill a process.
THEOREM GenerationsStayApart == Spec => GenerationsApart
<1>1. ASSUME IInv, [Next]_vars PROVE [DegradedForCause /\ KilledForCause]_vars
  <2> USE <1>1
  <2>0. /\ status \in [Procs -> Statuses] /\ process \in Owners
        /\ sup = "READY" => process \in Procs
    BY DEF IInv, TypeOK, ReadyIsCurrent, Statuses
  <2>1. CASE UNCHANGED vars
    BY <2>1
  <2>2. ASSUME UNCHANGED <<sup, status>> PROVE DegradedForCause /\ KilledForCause
    BY <2>2 DEF DegradedForCause, KilledForCause
  <2>3. ASSUME NEW r \in Requests, ExecStart(r) PROVE DegradedForCause /\ KilledForCause
    <3>1. CASE UNCHANGED <<sup, status>>
      BY <2>2, <3>1
    <3>2. CASE StartLocked(status, process) /\ ~(process # NoProc /\ Running(process) /\ sup = "READY")
      BY <3>2, StartKillsNobody DEF DegradedForCause, KilledForCause
    <3> QED BY <2>3, <3>1, <3>2 DEF ExecStart
  <2>4. ASSUME KillThenStart, stop' = stop
        PROVE  /\ DegradedForCause
               /\ \A p \in Procs : p # process /\ status[p] = "alive" => status'[p] = "alive"
    <3>1. /\ process # NoProc => status'[process] # "alive"
          /\ \A p \in Procs : p # process /\ status[p] = "alive" => status'[p] = "alive"
      BY <2>4, RestartKeepsSupervisor
    <3> QED BY <2>0, <3>1 DEF DegradedForCause
  <2>5. ASSUME NEW r \in Requests, ExecRecover(r) PROVE DegradedForCause /\ KilledForCause
    <3>1. CASE UNCHANGED <<sup, status>>
      BY <2>2, <3>1
    <3>2. CASE process = mine[r] /\ KillThenStart
      <4>1. stop' = stop /\ pc[r] = "recover" /\ pc'[r] = "ended"
        BY <2>5 DEF ExecRecover, Ends, IInv, TypeOK
      <4> QED BY <2>4, <3>2, <4>1 DEF KilledForCause
    <3> QED BY <2>5, <3>1, <3>2 DEF ExecRecover
  <2>6. CASE KillAndRestart
    BY <2>4, <2>6 DEF KillAndRestart, KilledForCause
  <2>7. CASE ShutdownKill
    <3>1. stop' # stop
      BY <2>7 DEF ShutdownKill
    <3> QED BY <3>1 DEF DegradedForCause, KilledForCause
  <2>8. CASE ShutdownJoin
    <3>1. stop' # stop
      BY <2>8 DEF ShutdownJoin
    <3> QED BY <3>1 DEF DegradedForCause, KilledForCause
  <2>9. ASSUME NEW p \in Procs, ReaderNotice(p) PROVE DegradedForCause /\ KilledForCause
    BY <2>9 DEF ReaderNotice, DegradedForCause, KilledForCause, IInv, TypeOK
  <2>10. CASE Observe
    BY <2>0, <2>10 DEF Observe, DegradedForCause, KilledForCause, Running
  <2>11. ASSUME NEW p \in Procs, NativeExit(p) PROVE DegradedForCause /\ KilledForCause
    BY <2>11 DEF NativeExit, DegradedForCause, KilledForCause
  <2>12. ASSUME NEW r \in Requests,
                \/ ExecBegin(r) \/ ExecGrab(r) \/ ExecWrite(r) \/ ExecRead(r) \/ ExecTimeout(r)
                \/ ExecExtra(r) \/ Dispatch(r) \/ Settle(r) \/ Cancel(r) \/ GiveUp(r)
         PROVE  UNCHANGED <<sup, status>>
    BY <2>12 DEF ExecBegin, ExecGrab, ExecWrite, ExecRead, ExecTimeout, ExecExtra, Dispatch, Settle,
                 Cancel, GiveUp
  <2>13. ASSUME NEW p \in Procs,
                ReaderEof(p) \/ ReaderFails(p) \/ NativeEmit(p) \/ NativeRubbish(p)
         PROVE  UNCHANGED <<sup, status>>
    BY <2>13 DEF ReaderEof, ReaderFails, NativeEmit, NativeRubbish
  <2>14. BeginShutdown => UNCHANGED <<sup, status>>
    BY DEF BeginShutdown
  <2> QED BY <2>1, <2>2, <2>3, <2>5, <2>6, <2>7, <2>8, <2>9, <2>10, <2>11, <2>12, <2>13, <2>14
          DEF Next, ExecStep
<1> QED BY <1>1, Invariance, PTL DEF Spec, GenerationsApart

-----------------------------------------------------------------------------
(***************************************************************************)
(* The process at the other end of the pipe: the cancels it reads and the  *)
(* answers it reports complete.                                            *)
(***************************************************************************)

HIDE DEF supVars, nativeVars, execVars, callerVars, Owners, Procs, NoProc

\* Where the main thread is when it runs a job, and where it may be at all.
MainRuns == {"prompt", "generate", "finish", "clear"}

MainPlaces == MainRuns \cup {"test", "predicate", "take", "sleep", "asleep", "join", "exited"}

\* A main thread with these locals.
MainAt(pc_, prompted, phase, utf8, tokens, final, deltas) ==
  [pc |-> pc_, prompted |-> prompted, phase |-> phase, utf8 |-> utf8,
   tokens |-> tokens, final |-> final, deltas |-> deltas]

\* A shared control with these parts.
ControlOf(queued, pending, active, cancel, shutdown, sent) ==
  [jobs |-> queued, pending |-> pending, active |-> active, cancel |-> cancel,
   shutdown |-> shutdown, sent |-> sent]

\* The parts the states have, with the types the proofs need.
MainShape(m) ==
  /\ m = MainAt(m.pc, m.prompted, m.phase, m.utf8, m.tokens, m.final, m.deltas)
  /\ m.pc \in MainPlaces

ControlShape(c) ==
  /\ c = ControlOf(c.jobs, c.pending, c.active, c.cancel, c.shutdown, c.sent)
  /\ c.jobs \in Seq(Jobs) /\ c.active \in Jobs \cup {NoJob}
  /\ c.cancel \in BOOLEAN /\ c.shutdown \in BOOLEAN

AsksShape(a) ==
  /\ a = [last |-> a.last, count |-> a.count, lapsed |-> a.lapsed]
  /\ a.last \in [Jobs -> Nat] /\ a.count \in Nat
  /\ \A j \in Jobs : a.last[j] <= a.count
  /\ IsFiniteSet({j \in Jobs : a.last[j] > 0})

\* A change of the place keeps the locals.
LEMMA MainMoves ==
  ASSUME NEW m, MainShape(m), NEW p
  PROVE  [m EXCEPT !.pc = p] = MainAt(p, m.prompted, m.phase, m.utf8, m.tokens, m.final, m.deltas)
<1>1. PICK pr, ph, u, t, f, d, q : m = MainAt(q, pr, ph, u, t, f, d)
  BY DEF MainShape
<1> QED BY <1>1 DEF MainAt

\* The parts of a main thread made of them.
LEMMA MainFields ==
  ASSUME NEW p, NEW pr, NEW ph, NEW u, NEW t, NEW f, NEW d, NEW m, m = MainAt(p, pr, ph, u, t, f, d)
  PROVE  /\ m.pc = p /\ m.prompted = pr /\ m.phase = ph /\ m.utf8 = u
         /\ m.tokens = t /\ m.final = f /\ m.deltas = d
         /\ p \in MainPlaces => MainShape(m)
BY DEF MainAt, MainShape

\* The locals of the token loop are replaced.
Turned(m, ph, u, t, f, d) ==
  [m EXCEPT !.phase = ph, !.utf8 = u, !.tokens = t, !.final = f, !.deltas = d]

\* The locals of the token loop after a token.
LEMMA MainTurns ==
  ASSUME NEW m, MainShape(m), NEW ph, NEW u, NEW t, NEW f, NEW d,
         NEW n, n = Turned(m, ph, u, t, f, d)
  PROVE  n = MainAt(m.pc, m.prompted, ph, u, t, f, d)
<1>1. PICK pr, ph0, u0, t0, f0, d0, q : m = MainAt(q, pr, ph0, u0, t0, f0, d0)
  BY DEF MainShape
<1>2. m.pc = q /\ m.prompted = pr
  BY <1>1, MainFields
<1>3. n = MainAt(q, pr, ph, u, t, f, d)
  BY <1>1 DEF MainAt, Turned
<1> QED BY <1>2, <1>3

\* What one turn of the token loop does: it answers that the generation failed,
\* or goes on with the token.
LEMMA TurnSteps ==
  ASSUME MainShape(main), main.pc = "generate", NEW token, Turn(token)
  PROVE  \/ Answer("failed")
         \/ LET before == main.phase.phase
                step == Consume(main.phase, token,
                          GrammarAcceptanceProven(token = EOG, before = "final"))
                streamed == before = "final" /\ token # EOG
                appended == IF streamed THEN Utf8Append(main.utf8, token)
                            ELSE [utf8 |-> main.utf8, completed |-> <<>>]
            IN  /\ appended.utf8.valid /\ step.action # "failed"
                /\ main' = MainAt(IF step.action = "completed" THEN "finish" ELSE "generate",
                                  main.prompted, step.controller, appended.utf8,
                                  Append(main.tokens, token),
                                  IF streamed THEN Append(main.final, token) ELSE main.final,
                                  main.deltas \o appended.completed)
                /\ UNCHANGED answered
<1> DEFINE before == main.phase.phase
           step == Consume(main.phase, token,
                     GrammarAcceptanceProven(token = EOG, before = "final"))
           streamed == before = "final" /\ token # EOG
           appended == IF streamed THEN Utf8Append(main.utf8, token)
                       ELSE [utf8 |-> main.utf8, completed |-> <<>>]
           t == Append(main.tokens, token)
           f == IF streamed THEN Append(main.final, token) ELSE main.final
           d == main.deltas \o appended.completed
           next == [main EXCEPT !.phase = step.controller, !.utf8 = appended.utf8,
                      !.tokens = t, !.final = f, !.deltas = d]
           p == IF step.action = "completed" THEN "finish" ELSE next.pc
<1>1. \/ Answer("failed")
      \/ /\ appended.utf8.valid /\ step.action # "failed"
         /\ main' = [next EXCEPT !.pc = p]
         /\ UNCHANGED answered
  BY DEF Turn
<1> HIDE DEF step, appended, f, d, t
<1>2. next = MainAt("generate", main.prompted, step.controller, appended.utf8, t, f, d)
  <2>1. next = Turned(main, step.controller, appended.utf8, t, f, d)
    BY DEF Turned
  <2> HIDE DEF next
  <2> QED BY <2>1, MainTurns
<1>3. MainShape(next) /\ next.pc = "generate" /\ next.prompted = main.prompted
      /\ next.phase = step.controller /\ next.utf8 = appended.utf8 /\ next.tokens = t
      /\ next.final = f /\ next.deltas = d
  <2> HIDE DEF next
  <2> QED BY <1>2, MainFields DEF MainPlaces, MainRuns
<1>4. [next EXCEPT !.pc = p] = MainAt(p, main.prompted, step.controller, appended.utf8, t, f, d)
  <2> HIDE DEF next, p
  <2> QED BY <1>3, MainMoves
<1>5. p = IF step.action = "completed" THEN "finish" ELSE "generate"
  BY <1>3
<1> HIDE DEF next, p
<1> QED BY <1>1, <1>4, <1>5 DEF step, appended, f, d, t

\* The places of generate().
Runs == {"prompt", "generate", "finish"}

\* The steps of generate() touch neither the shared control nor the reader; they
\* answer the job that runs, as cancelled only if the flag is set, or go on.
LEMMA GenerateSteps ==
  ASSUME MainShape(main),
         \/ SetupFails \/ PromptBatch \/ PromptDone
         \/ GenerateToken \/ LoopEnds \/ Finish
  PROVE  /\ UNCHANGED <<control, commandReader, asks>>
         /\ main.pc \in Runs /\ MainShape(main')
         /\ \/ main'.pc \in Runs /\ UNCHANGED answered
            \/ /\ main'.pc = "clear"
               /\ \E type \in {"failed", "cancelled", "completed"} :
                     /\ type = "cancelled" => control.cancel
                     /\ answered' = [answered EXCEPT ![control.active] = type]
<1> USE DEF MainPlaces, MainRuns, Runs
<1> DEFINE At(p) == MainAt(p, main.prompted, main.phase, main.utf8, main.tokens, main.final,
                           main.deltas)
           After == \/ main'.pc \in Runs /\ MainShape(main') /\ UNCHANGED answered
                    \/ /\ main'.pc = "clear" /\ MainShape(main')
                       /\ \E type \in {"failed", "cancelled", "completed"} :
                             /\ type = "cancelled" => control.cancel
                             /\ answered' = [answered EXCEPT ![control.active] = type]
<1>1. ASSUME NEW p \in MainPlaces, MainGoto(p)
      PROVE  MainShape(main') /\ main'.pc = p
  <2>1. main' = At(p)
    BY <1>1, MainMoves DEF MainGoto
  <2> QED BY <2>1, MainFields
<1>2. ASSUME NEW type \in {"failed", "cancelled", "completed"}, Answer(type),
             type = "cancelled" => control.cancel
      PROVE  After
  <2>1. CASE type = "completed"
    <3>1. main' = At("clear")
      BY <1>2, <2>1, MainMoves DEF Answer
    <3>2. main'.pc = "clear" /\ MainShape(main')
      BY <3>1, MainFields
    <3> QED BY <1>2, <3>2 DEF Answer
  <2>2. CASE type # "completed"
    <3>1. main' = MainAt("clear", 0, NewController, NewUtf8, <<>>, <<>>, <<>>)
      BY <1>2, <2>2 DEF Answer, Between, MainAt
    <3>2. main'.pc = "clear" /\ MainShape(main')
      BY <3>1, MainFields
    <3> QED BY <1>2, <3>2 DEF Answer
  <2> QED BY <2>1, <2>2
<1> HIDE DEF At
<1>3. CASE SetupFails
  <2>1. Answer("failed") /\ main.pc = "prompt" /\ UNCHANGED <<control, commandReader, asks>>
    BY <1>3 DEF SetupFails
  <2> QED BY <2>1, <1>2
<1>4. CASE PromptBatch
  <2>1. main.pc = "prompt" /\ UNCHANGED <<control, commandReader, asks>>
    BY <1>4 DEF PromptBatch
  <2>2. \/ control.cancel /\ Answer("cancelled")
        \/ Answer("failed")
        \/ main' = [main EXCEPT !.prompted = @ + 1] /\ UNCHANGED answered
    BY <1>4 DEF PromptBatch
  <2>3. ASSUME main' = [main EXCEPT !.prompted = @ + 1]
        PROVE  main'.pc = "prompt" /\ MainShape(main')
    <3>1. PICK pr, ph, u, t, f, d : main = MainAt("prompt", pr, ph, u, t, f, d)
      BY <2>1 DEF MainShape
    <3>2. main' = MainAt("prompt", pr + 1, ph, u, t, f, d)
      BY <3>1, <2>3 DEF MainAt
    <3> QED BY <3>2, MainFields
  <2> QED BY <2>1, <2>2, <2>3, <1>2
<1>5. CASE PromptDone
  BY <1>5, <1>1 DEF PromptDone
<1>6. CASE GenerateToken
  <2>1. main.pc = "generate" /\ UNCHANGED <<control, commandReader, asks>>
    BY <1>6 DEF GenerateToken
  <2>2. \/ control.cancel /\ Answer("cancelled")
        \/ Answer("failed")
        \/ \E token \in SampledTokens : Turn(token)
    BY <1>6 DEF GenerateToken
  <2>3. ASSUME NEW token \in SampledTokens, Turn(token)
        PROVE  After
    <3>1. CASE Answer("failed")
      BY <3>1, <1>2
    <3>2. CASE \E p, pr, ph, u, t, f, d :
                  p \in {"finish", "generate"} /\ main' = MainAt(p, pr, ph, u, t, f, d) /\ UNCHANGED answered
      <4>1. PICK p, pr, ph, u, t, f, d :
                  p \in {"finish", "generate"} /\ main' = MainAt(p, pr, ph, u, t, f, d) /\ UNCHANGED answered
        BY <3>2
      <4> QED BY <4>1, MainFields
    <3> HIDE DEF After
    <3> QED BY <2>1, <2>3, <3>1, <3>2, TurnSteps
  <2> QED BY <2>1, <2>2, <2>3, <1>2
<1>7. CASE LoopEnds
  BY <1>7, <1>1 DEF LoopEnds
<1>8. CASE Finish
  <2>1. main.pc = "finish" /\ UNCHANGED <<control, commandReader, asks>>
        /\ (Answer("completed") \/ Answer("failed"))
    BY <1>8 DEF Finish
  <2> QED BY <2>1, <1>2
<1> QED BY <1>3, <1>4, <1>5, <1>6, <1>7, <1>8

\* Who has asked for a cancel, and the registry: it holds the time of the last
\* cancel of each of its keys.
AskedJobs(a) == {j \in Jobs : a.last[j] > 0}

Registered(c, a) ==
  /\ DOMAIN c.pending \subseteq AskedJobs(a)
  /\ c.pending = [j \in DOMAIN c.pending |-> a.last[j]]

\* A cancel that is owed is somewhere: its job is answered, or it waits in the
\* registry, or it has set the flag.
Reached(c, a, ans) ==
  \A j \in Owed : \/ ans[j] # "none"
                  \/ j \in DOMAIN c.pending
                  \/ c.active = j /\ c.cancel

\* The flag and the answers follow cancels of the own job only.
OnlyAsked(c, a, ans) ==
  /\ c.active # NoJob /\ c.cancel => c.active \in AskedJobs(a) \/ c.shutdown
  /\ \A j \in Jobs : ans[j] = "cancelled" => j \in AskedJobs(a) \/ c.shutdown

\* Where the main thread is, and what it holds there.
MainHolds ==
  /\ main.pc \in MainRuns <=> control.active # NoJob
  /\ main.pc = "take" => control.jobs # <<>>
  /\ main.pc = "clear" => answered[control.active] # "none"

\* The terminal frames there are.
AnswersShape == answered \in [Jobs -> {"none", "failed", "cancelled", "completed"}]

\* The parts of the state.
NativeShape ==
  /\ ControlShape(control) /\ MainShape(main) /\ AsksShape(asks) /\ AnswersShape
  /\ commandReader \in {"reading", "cancel", "notify", "done"}
  /\ commandReader # "reading" => control.shutdown

\* The inductive invariant of cancellation: no owed cancel is lost, and no flag is
\* set for another job.
CancelInv ==
  /\ NativeShape /\ MainHolds
  /\ Registered(control, asks) /\ control.active \notin DOMAIN control.pending
  /\ OnlyAsked(control, asks, answered)
  /\ Reached(control, asks, answered)

\* The keys of the jobs are not empty.
KeysNamed == NoJob \notin Jobs

\* The capacity is a number.
CapacityNat == max_entries \in Nat

\* The parts of a control made of them.
LEMMA ControlFields ==
  ASSUME NEW j, NEW p, NEW a, NEW k, NEW sh, NEW s, NEW c, c = ControlOf(j, p, a, k, sh, s)
  PROVE  /\ c.jobs = j /\ c.pending = p /\ c.active = a /\ c.cancel = k
         /\ c.shutdown = sh /\ c.sent = s
         /\ j \in Seq(Jobs) /\ a \in Jobs \cup {NoJob} /\ k \in BOOLEAN /\ sh \in BOOLEAN
            => ControlShape(c)
BY DEF ControlOf, ControlShape

\* See ControlFields, for parts of their types.
LEMMA ControlMade ==
  ASSUME NEW j \in Seq(Jobs), NEW p, NEW a \in Jobs \cup {NoJob}, NEW k \in BOOLEAN,
         NEW sh \in BOOLEAN, NEW s, NEW c, c = ControlOf(j, p, a, k, sh, s)
  PROVE  /\ c.jobs = j /\ c.pending = p /\ c.active = a /\ c.cancel = k
         /\ c.shutdown = sh /\ c.sent = s /\ ControlShape(c)
BY ControlFields

\* A control is made of parts of their types.
MadeOfParts(c) ==
  \E q \in Seq(Jobs), a \in Jobs \cup {NoJob}, k, sh \in BOOLEAN :
    \E p, s : c = ControlOf(q, p, a, k, sh, s)

\* See MadeOfParts.
LEMMA ControlParts ==
  ASSUME NEW c, ControlShape(c)
  PROVE  MadeOfParts(c)
BY DEF ControlShape, MadeOfParts

\* A step that changes neither the control nor the history nor an answer.
LEMMA CancelStill ==
  ASSUME CancelInv, UNCHANGED <<control, commandReader, answered, asks>>,
         MainShape(main'),
         main'.pc \in MainRuns <=> main.pc \in MainRuns,
         main'.pc = "take" => control.jobs # <<>>,
         main'.pc = "clear" => main.pc = "clear"
  PROVE  CancelInv'
<1>1. NativeShape' /\ MainHolds'
  BY DEF CancelInv, NativeShape, MainHolds, AnswersShape
<1>2. Owed' = Owed
  BY DEF Owed, Asked, Since
<1> QED BY <1>1, <1>2 DEF CancelInv, Registered, OnlyAsked, Reached, AskedJobs

\* A step of generate()
LEMMA CancelGenerates ==
  ASSUME CancelInv, KeysNamed,
         \/ SetupFails \/ PromptBatch \/ PromptDone
         \/ GenerateToken \/ LoopEnds \/ Finish
  PROVE  CancelInv'
<1>1. /\ UNCHANGED <<control, commandReader, asks>>
      /\ main.pc \in Runs /\ MainShape(main')
      /\ \/ main'.pc \in Runs /\ UNCHANGED answered
         \/ /\ main'.pc = "clear"
            /\ \E type \in {"failed", "cancelled", "completed"} :
                  /\ type = "cancelled" => control.cancel
                  /\ answered' = [answered EXCEPT ![control.active] = type]
  BY GenerateSteps DEF CancelInv, NativeShape
<1>2. CASE main'.pc \in Runs /\ UNCHANGED answered
  BY <1>1, <1>2, CancelStill DEF Runs, MainRuns
<1>3. ASSUME main'.pc = "clear", NEW type \in {"failed", "cancelled", "completed"},
             type = "cancelled" => control.cancel,
             answered' = [answered EXCEPT ![control.active] = type]
      PROVE  CancelInv'
  <2>1. control.active \in Jobs
    BY <1>1 DEF CancelInv, NativeShape, ControlShape, MainHolds, Runs, MainRuns
  <2>2. NativeShape' /\ MainHolds'
    BY <1>1, <1>3, <2>1 DEF CancelInv, NativeShape, MainHolds, AnswersShape, Runs, MainRuns
  <2>3. Owed' = Owed
    BY <1>1 DEF Owed, Asked, Since
  <2>4. OnlyAsked(control, asks, answered)'
    BY <1>1, <1>3, <2>1 DEF CancelInv, OnlyAsked, AskedJobs, MainHolds, NativeShape, AnswersShape,
         Runs, MainRuns
  <2>5. Reached(control, asks, answered)'
    BY <1>1, <1>3, <2>1, <2>3 DEF CancelInv, Reached, NativeShape, AnswersShape, Owed
  <2> QED BY <1>1, <2>2, <2>4, <2>5 DEF CancelInv, Registered, AskedJobs
<1> QED BY <1>1, <1>2, <1>3

\* The main thread goes from one place to another.
LEMMA MainGoes ==
  ASSUME MainShape(main), NEW p \in MainPlaces, MainGoto(p)
  PROVE  MainShape(main') /\ main'.pc = p
<1>1. main' = MainAt(p, main.prompted, main.phase, main.utf8, main.tokens, main.final, main.deltas)
  BY MainMoves DEF MainGoto
<1> QED BY <1>1, MainFields

\* A step of the main thread between two jobs.
LEMMA CancelWaits ==
  ASSUME CancelInv,
         \/ MainTest \/ MainPredicate \/ MainSleep
         \/ MainJoin \/ SpuriousWakeup
  PROVE  CancelInv'
<1> USE DEF MainPlaces, MainRuns
<1>1. UNCHANGED <<control, commandReader, answered, asks>>
  BY DEF MainTest, MainPredicate, MainSleep, MainJoin,
         SpuriousWakeup
<1>2. MainShape(main)
  BY DEF CancelInv, NativeShape
<1>3. PICK p \in {"join", "predicate", "take", "sleep", "asleep", "exited"} :
        MainGoto(p) /\ (p = "take" => control.jobs # <<>>)
  BY DEF MainTest, MainPredicate, MainSleep, MainJoin,
         SpuriousWakeup
<1>4. main.pc \notin MainRuns
  BY DEF MainTest, MainPredicate, MainSleep, MainJoin,
         SpuriousWakeup
<1>5. MainShape(main') /\ main'.pc = p
  BY <1>2, <1>3, MainGoes
<1> QED BY <1>1, <1>3, <1>4, <1>5, CancelStill

\* The job is forgotten when its terminal frame is out.
LEMMA CancelClears ==
  ASSUME CancelInv, KeysNamed, Clear
  PROVE  CancelInv'
<1> USE DEF MainPlaces, MainRuns
<1>1. main.pc = "clear" /\ UNCHANGED <<commandReader, answered, asks>>
      /\ ControlShape(control)
  BY DEF Clear, CancelInv, NativeShape
<1>made. MadeOfParts(control)
  BY <1>1, ControlParts
<1>2a. PICK q \in Seq(Jobs), a \in Jobs \cup {NoJob}, k, sh \in BOOLEAN :
           \E p, s : control = ControlOf(q, p, a, k, sh, s)
  BY ONLY <1>made DEF MadeOfParts
<1>2. PICK p, s : control = ControlOf(q, p, a, k, sh, s)
  BY <1>2a
<1>3. control' = ControlOf(q, p, NoJob, k, sh, s)
  BY <1>2 DEF Clear, ControlOf
<1>4. /\ control'.jobs = control.jobs /\ control'.pending = control.pending
      /\ control'.active = NoJob /\ control'.cancel = control.cancel
      /\ control'.shutdown = control.shutdown
      /\ ControlShape(control')
  BY <1>2, <1>3, ControlMade
<1>5. main' = MainAt("test", 0, NewController, NewUtf8, <<>>, <<>>, <<>>)
  BY DEF Clear, Between, MainAt
<1>6. main'.pc = "test" /\ MainShape(main')
  BY <1>5, MainFields
<1>7. NativeShape' /\ MainHolds'
  BY <1>1, <1>4, <1>6 DEF CancelInv, NativeShape, MainHolds, AnswersShape
<1>8. Owed' = Owed
  BY <1>1 DEF Owed, Asked, Since
<1>9. Registered(control, asks)' /\ NoJob \notin DOMAIN control.pending
  BY <1>1, <1>4 DEF CancelInv, Registered, AskedJobs, KeysNamed
<1>10. OnlyAsked(control, asks, answered)'
  BY <1>1, <1>4 DEF CancelInv, OnlyAsked, AskedJobs
<1>11. answered[control.active] # "none"
  BY <1>1 DEF CancelInv, MainHolds
<1>12. Reached(control, asks, answered)'
  BY <1>1, <1>4, <1>8, <1>11 DEF CancelInv, Reached
<1> QED BY <1>4, <1>7, <1>9, <1>10, <1>12 DEF CancelInv

\* A job is taken with what the registry knows of it.
LEMMA CancelTakes ==
  ASSUME CancelInv, KeysNamed, MainTake
  PROVE  CancelInv'
<1> USE DEF MainPlaces, MainRuns
<1>1. main.pc = "take" /\ UNCHANGED <<commandReader, answered, asks>>
      /\ ControlShape(control) /\ control.jobs # <<>> /\ control.jobs \in Seq(Jobs)
      /\ control.active = NoJob
  BY DEF MainTake, CancelInv, NativeShape, MainHolds, ControlShape
<1>made. MadeOfParts(control)
  BY <1>1, ControlParts
<1>2a. PICK q \in Seq(Jobs), a \in Jobs \cup {NoJob}, k, sh \in BOOLEAN :
           \E p, s : control = ControlOf(q, p, a, k, sh, s)
  BY ONLY <1>made DEF MadeOfParts
<1>2. PICK p, s : control = ControlOf(q, p, a, k, sh, s)
  BY <1>2a
<1> DEFINE job == Head(control.jobs)
           others == Remaining(control.pending, job)
           flag == Flag(control.pending, job)
<1>3. control' = ControlOf(Tail(control.jobs), others, job, flag, control.shutdown, control.sent)
  <2>1. control' = [control EXCEPT !.jobs = Tail(@), !.active = job, !.cancel = flag,
                                   !.pending = Remaining(@, job)]
    BY DEF MainTake
  <2>2. control.jobs = q /\ control.pending = p /\ control.shutdown = sh /\ control.sent = s
    BY <1>2, ControlFields
  <2> HIDE DEF flag
  <2>3. PICK o : o = Remaining(p, job)
    OBVIOUS
  <2> HIDE DEF job
  <2> QED BY <1>2, <2>1, <2>2, <2>3 DEF ControlOf
<1>4. /\ job \in Jobs /\ Tail(control.jobs) \in Seq(Jobs)
      /\ flag = (job \in DOMAIN control.pending)
      /\ others = [j \in DOMAIN control.pending \ {job} |-> control.pending[j]]
      /\ DOMAIN others = DOMAIN control.pending \ {job}
  BY <1>1, HeadTailProperties DEF Flag, Consumed, PendingKeys,
     Remaining, Restrict
<1> HIDE DEF job, others, flag
<1>5. /\ control'.pending = others /\ control'.active = job /\ control'.cancel = flag
      /\ control'.shutdown = control.shutdown /\ ControlShape(control')
  <2>1. flag \in BOOLEAN /\ control.shutdown \in BOOLEAN /\ job \in Jobs \cup {NoJob}
    BY <1>1, <1>4 DEF ControlShape
  <2>2. PICK j, f, sh1, o, t, s1 :
          /\ j = job /\ f = flag /\ sh1 = control.shutdown /\ o = others
          /\ t = Tail(control.jobs) /\ s1 = control.sent
    OBVIOUS
  <2>3. control' = ControlOf(t, o, j, f, sh1, s1)
    BY <1>3, <2>2
  <2>4. t \in Seq(Jobs) /\ f \in BOOLEAN /\ sh1 \in BOOLEAN /\ j \in Jobs \cup {NoJob}
    BY <1>4, <2>1, <2>2
  <2>5. /\ control'.pending = o /\ control'.active = j /\ control'.cancel = f
        /\ control'.shutdown = sh1 /\ ControlShape(control')
    BY <2>3, <2>4, ControlFields
  <2> QED BY <2>2, <2>5
<1>6. main'.pc = "prompt" /\ MainShape(main')
  BY MainGoes DEF MainTake, CancelInv, NativeShape
<1>7. NativeShape' /\ MainHolds'
  BY <1>1, <1>4, <1>5, <1>6 DEF CancelInv, NativeShape, MainHolds, AnswersShape, KeysNamed
<1>8. Owed' = Owed
  BY <1>1 DEF Owed, Asked, Since
<1>9. Registered(control, asks)' /\ job \notin DOMAIN others
  BY <1>1, <1>4, <1>5 DEF CancelInv, Registered, AskedJobs
<1>10. OnlyAsked(control, asks, answered)'
  BY <1>1, <1>4, <1>5 DEF CancelInv, OnlyAsked, AskedJobs, Registered
<1>11. Reached(control, asks, answered)'
  BY <1>1, <1>4, <1>5, <1>8 DEF CancelInv, Reached, KeysNamed, Owed
<1> QED BY <1>5, <1>7, <1>9, <1>10, <1>11 DEF CancelInv

\* A wake-up of the main thread.
LEMMA MainWakes ==
  ASSUME MainShape(main), main' = Notified(main)
  PROVE  /\ MainShape(main')
         /\ \/ main'.pc = main.pc
            \/ main.pc = "asleep" /\ main'.pc = "predicate"
<1>1. CASE main.pc = "asleep"
  BY <1>1, MainGoes DEF Notified, MainGoto, MainPlaces
<1>2. CASE main.pc # "asleep"
  BY <1>2 DEF Notified
<1> QED BY <1>1, <1>2

\* The reader tells of a shutdown, or wakes the main thread.
LEMMA CancelStops ==
  ASSUME CancelInv, ReadShutdown \/ ShutdownCancels \/ ShutdownNotifies
  PROVE  CancelInv'
<1>1. ControlShape(control) /\ MainShape(main)
  BY DEF CancelInv, NativeShape
<1>2. CASE ReadShutdown \/ ShutdownCancels
  <2>made. MadeOfParts(control)
    BY <1>1, ControlParts
  <2>1a. PICK q \in Seq(Jobs), a \in Jobs \cup {NoJob}, k, sh \in BOOLEAN :
             \E p, s : control = ControlOf(q, p, a, k, sh, s)
    BY ONLY <2>made DEF MadeOfParts
  <2>1. PICK p, s : control = ControlOf(q, p, a, k, sh, s)
    BY <2>1a
  <2>2. PICK k1, sh1 \in BOOLEAN :
          control' = ControlOf(q, p, a, k1, sh1, s) /\ sh1 = TRUE /\ (k = TRUE => k1 = TRUE)
    <3>1. CASE ReadShutdown
      BY <3>1, <2>1 DEF ReadShutdown, ControlOf
    <3>2. CASE ShutdownCancels
      <4>1. control.shutdown /\ control' = ControlOf(q, p, a, TRUE, sh, s)
        BY <3>2, <2>1 DEF CancelInv, NativeShape, ShutdownCancels, ControlOf
      <4>2. sh = TRUE
        BY <2>1, <4>1, ControlMade
      <4> QED BY <4>1, <4>2
    <3> QED BY <1>2, <3>1, <3>2
  <2>3. /\ control'.jobs = control.jobs /\ control'.pending = control.pending
        /\ control'.active = control.active /\ ControlShape(control') /\ control'.shutdown
        /\ control.cancel => control'.cancel
    <3>1. /\ control.jobs = q /\ control.pending = p /\ control.active = a /\ control.cancel = k
      BY <2>1, ControlMade
    <3>2. /\ control'.jobs = q /\ control'.pending = p /\ control'.active = a
          /\ control'.cancel = k1 /\ control'.shutdown = sh1 /\ ControlShape(control')
      <4>1. control' = ControlOf(q, p, a, k1, sh1, s)
        BY <2>2
      <4> QED BY <4>1, ControlMade
    <3>3. sh1 = TRUE /\ (k = TRUE => k1 = TRUE)
      BY <2>2
    <3> QED BY <3>1, <3>2, <3>3
  <2>4. UNCHANGED <<main, answered, asks>> /\ commandReader' \in {"cancel", "notify"}
    BY <1>2 DEF ReadShutdown, ShutdownCancels
  <2>5. Owed' = Owed
    BY <2>4 DEF Owed, Asked, Since
  <2>6. NativeShape' /\ MainHolds'
    BY <2>3, <2>4 DEF CancelInv, NativeShape, MainHolds, AnswersShape
  <2> QED BY <2>3, <2>4, <2>5, <2>6 DEF CancelInv, Registered, OnlyAsked, AskedJobs, Reached
<1>3. CASE ShutdownNotifies
  <2>1. UNCHANGED <<control, answered, asks>> /\ commandReader = "notify" /\ commandReader' = "done"
    BY <1>3 DEF ShutdownNotifies
  <2>2. /\ MainShape(main')
        /\ \/ main'.pc = main.pc
           \/ main.pc = "asleep" /\ main'.pc = "predicate"
    BY <1>1, <1>3, MainWakes DEF ShutdownNotifies
  <2>3. Owed' = Owed
    BY <2>1 DEF Owed, Asked, Since
  <2>4. NativeShape' /\ MainHolds'
    BY <2>1, <2>2 DEF CancelInv, NativeShape, MainHolds, AnswersShape, MainRuns
  <2> QED BY <2>1, <2>3, <2>4 DEF CancelInv, Registered, OnlyAsked, AskedJobs, Reached
<1> QED BY <1>2, <1>3

\* A job is queued.
LEMMA CancelQueues ==
  ASSUME CancelInv, NEW job \in Jobs, ReadGenerate(job)
  PROVE  CancelInv'
<1>1. ControlShape(control) /\ MainShape(main) /\ commandReader = "reading"
      /\ UNCHANGED <<commandReader, answered, asks>>
  BY DEF CancelInv, NativeShape, ReadGenerate
<1>made. MadeOfParts(control)
  BY <1>1, ControlParts
<1>2a. PICK q \in Seq(Jobs), a \in Jobs \cup {NoJob}, k, sh \in BOOLEAN :
           \E p, s : control = ControlOf(q, p, a, k, sh, s)
  BY ONLY <1>made DEF MadeOfParts
<1>2. PICK p, s : control = ControlOf(q, p, a, k, sh, s)
  BY <1>2a
<1>3. control' = ControlOf(Append(q, job), p, a, k, sh, s \cup {job})
  <2>1. control' = [control EXCEPT !.jobs = Append(@, job), !.sent = @ \cup {job}]
    BY DEF ReadGenerate
  <2>2. control.jobs = q /\ control.sent = s
    BY <1>2, ControlFields
  <2>3. PICK t, u : t = Append(q, job) /\ u = s \cup {job}
    OBVIOUS
  <2>4. control' = [control EXCEPT !.jobs = t, !.sent = u]
    BY <2>1, <2>2, <2>3
  <2>5. control' = ControlOf(t, p, a, k, sh, u)
    BY <1>2, <2>4 DEF ControlOf
  <2> QED BY <2>3, <2>5
<1>4. q \in Seq(Jobs) /\ Append(q, job) \in Seq(Jobs) /\ Append(q, job) # <<>>
  <2>1. q \in Seq(Jobs)
    BY <1>1, <1>2, ControlFields DEF ControlShape
  <2> QED BY <2>1, AppendProperties
<1>5. /\ control'.jobs # <<>> /\ control'.pending = control.pending
      /\ control'.active = control.active /\ control'.cancel = control.cancel
      /\ control'.shutdown = control.shutdown /\ ControlShape(control')
  <2>1. /\ control.active = a /\ control.cancel = k /\ control.shutdown = sh
        /\ control.pending = p
    BY <1>2, ControlFields
  <2>2. PICK t, u : t = Append(q, job) /\ u = s \cup {job}
    OBVIOUS
  <2>3. a \in Jobs \cup {NoJob} /\ k \in BOOLEAN /\ sh \in BOOLEAN /\ t \in Seq(Jobs)
    BY <1>1, <1>4, <2>1, <2>2 DEF ControlShape
  <2>4. control' = ControlOf(t, p, a, k, sh, u)
    BY <1>3, <2>2
  <2>5. /\ control'.jobs = t /\ control'.pending = p /\ control'.active = a
        /\ control'.cancel = k /\ control'.shutdown = sh /\ ControlShape(control')
    BY <2>3, <2>4, ControlMade
  <2> QED BY <1>4, <2>1, <2>2, <2>5
<1>6. /\ MainShape(main')
      /\ \/ main'.pc = main.pc
         \/ main.pc = "asleep" /\ main'.pc = "predicate"
  BY <1>1, MainWakes DEF ReadGenerate
<1>7. Owed' = Owed
  BY <1>1 DEF Owed, Asked, Since
<1>8. NativeShape' /\ MainHolds'
  BY <1>1, <1>5, <1>6 DEF CancelInv, NativeShape, MainHolds, AnswersShape, MainRuns
<1> QED BY <1>1, <1>5, <1>7, <1>8 DEF CancelInv, Registered, OnlyAsked, AskedJobs, Reached

\* An entry of the registry runs out.
LEMMA CancelExpires ==
  ASSUME CancelInv, EntryExpires
  PROVE  CancelInv'
<1>1. ControlShape(control) /\ MainShape(main) /\ UNCHANGED <<commandReader, main, answered>>
      /\ AsksShape(asks)
  BY DEF CancelInv, NativeShape, EntryExpires
<1>2. PICK job \in DOMAIN control.pending :
         /\ control' = [control EXCEPT !.pending = Remaining(@, job)]
         /\ asks' = [asks EXCEPT !.lapsed = @ \cup {job}]
  BY DEF EntryExpires, PendingKeys
<1> DEFINE others == Remaining(control.pending, job)
<1>3. others = [j \in DOMAIN control.pending \ {job} |-> control.pending[j]]
      /\ DOMAIN others = DOMAIN control.pending \ {job}
  BY DEF PendingKeys, Remaining, Restrict
<1>4. /\ control'.pending = others /\ control'.jobs = control.jobs
      /\ control'.active = control.active /\ control'.cancel = control.cancel
      /\ control'.shutdown = control.shutdown /\ ControlShape(control')
  <2>made. MadeOfParts(control)
    BY <1>1, ControlParts
  <2>1a. PICK q \in Seq(Jobs), a \in Jobs \cup {NoJob}, k, sh \in BOOLEAN :
             \E p, s : control = ControlOf(q, p, a, k, sh, s)
    BY ONLY <2>made DEF MadeOfParts
  <2>1. PICK p, s : control = ControlOf(q, p, a, k, sh, s)
    BY <2>1a
  <2>2. PICK o : o = others
    OBVIOUS
  <2>3. control' = ControlOf(q, o, a, k, sh, s)
    BY <1>2, <2>1, <2>2 DEF ControlOf
  <2> QED BY <2>1, <2>2, <2>3, ControlMade
<1>5. /\ asks'.last = asks.last /\ asks'.lapsed = asks.lapsed \cup {job} /\ AsksShape(asks')
  <2>1. PICK l, n, x : asks = [last |-> l, count |-> n, lapsed |-> x]
    BY <1>1 DEF AsksShape
  <2>2. asks' = [last |-> l, count |-> n, lapsed |-> x \cup {job}]
    BY <1>2, <2>1
  <2>3. asks'.last = asks.last /\ asks'.count = asks.count /\ asks'.lapsed = asks.lapsed \cup {job}
        /\ asks' = [last |-> asks'.last, count |-> asks'.count, lapsed |-> asks'.lapsed]
    BY <2>1, <2>2
  <2> QED BY <1>1, <2>3 DEF AsksShape
<1> HIDE DEF others
<1>6. Owed' \subseteq Owed \ {job}
  BY <1>5 DEF Owed, Asked, Since
<1>7. NativeShape' /\ MainHolds'
  BY <1>1, <1>4, <1>5 DEF CancelInv, NativeShape, MainHolds, AnswersShape
<1>8. Registered(control, asks)' /\ control'.active \notin DOMAIN control'.pending
  BY <1>1, <1>3, <1>4, <1>5 DEF CancelInv, Registered, AskedJobs
<1>9. OnlyAsked(control, asks, answered)'
  BY <1>1, <1>4, <1>5 DEF CancelInv, OnlyAsked, AskedJobs
<1>10. Reached(control, asks, answered)'
  BY <1>1, <1>3, <1>4, <1>6 DEF CancelInv, Reached
<1> QED BY <1>7, <1>8, <1>9, <1>10 DEF CancelInv

\* The cardinality of the instance is the library's.
LEMMA SameCardinality == \A S : Cardinality(S) = Cardinality(S)
BY DEF Cardinality, Cardinality

\* The parts of a history.
LEMMA AsksFields ==
  ASSUME NEW l, NEW n, NEW x, NEW a, a = [last |-> l, count |-> n, lapsed |-> x]
  PROVE  /\ a.last = l /\ a.count = n /\ a.lapsed = x
         /\ a = [last |-> a.last, count |-> a.count, lapsed |-> a.lapsed]
OBVIOUS

\* A cancel is read.
Asking(a, job) ==
  [a EXCEPT !.last[job] = a.count + 1, !.count = @ + 1, !.lapsed = @ \ {job}]

\* What the history says after a cancel: the others are owed only if they were
\* owed with one job fewer since.
LEMMA CancelAsked ==
  ASSUME CapacityNat, AsksShape(asks), NEW job \in Jobs,
         asks' = Asking(asks, job)
  PROVE  /\ AsksShape(asks') /\ asks'.last = [asks.last EXCEPT ![job] = asks.count + 1]
         /\ AskedJobs(asks') = AskedJobs(asks) \cup {job}
         /\ \A j \in Owed' \ {job} :
              /\ j \in Owed /\ asks.last[j] > 0
              /\ Since(j) \in SUBSET AskedJobs(asks)
              /\ Cardinality(Since(j) \cup {job}) <= max_entries
<1>1. PICK l, n, x : asks = [last |-> l, count |-> n, lapsed |-> x]
  BY DEF AsksShape
<1>2. PICK l1, n1, x1 : l1 = [l EXCEPT ![job] = n + 1] /\ n1 = n + 1 /\ x1 = x \ {job}
  OBVIOUS
<1>3. asks.last = l /\ asks.count = n /\ asks.lapsed = x
  BY <1>1
<1>4. asks' = [last |-> l1, count |-> n1, lapsed |-> x1]
  BY <1>1, <1>2, <1>3 DEF Asking
<1>5. asks'.last = l1 /\ asks'.count = n1 /\ asks'.lapsed = x1
      /\ asks' = [last |-> asks'.last, count |-> asks'.count, lapsed |-> asks'.lapsed]
  BY <1>4, AsksFields
<1>6. /\ l \in [Jobs -> Nat] /\ n \in Nat /\ (\A j \in Jobs : l[j] <= n)
      /\ IsFiniteSet(AskedJobs(asks))
  BY <1>3 DEF AsksShape, AskedJobs
<1>7. /\ l1 \in [Jobs -> Nat] /\ n1 \in Nat /\ l1[job] = n + 1
      /\ \A j \in Jobs : l1[j] <= n1
      /\ \A j \in Jobs \ {job} : l1[j] = l[j]
  BY <1>2, <1>6
<1>8. AskedJobs(asks') = AskedJobs(asks) \cup {job}
  BY <1>3, <1>5, <1>6, <1>7 DEF AskedJobs
<1>9. AsksShape(asks')
  <2>1. IsFiniteSet(AskedJobs(asks'))
    BY <1>6, <1>8, FS_AddElement
  <2> QED BY <1>5, <1>7, <2>1 DEF AsksShape, AskedJobs
<1>10. ASSUME NEW j \in Owed' \ {job}
       PROVE  /\ j \in Owed /\ asks.last[j] > 0
              /\ Since(j) \in SUBSET AskedJobs(asks)
              /\ Cardinality(Since(j) \cup {job}) <= max_entries
  <2> DEFINE now == {k \in Jobs : l1[k] >= l1[j]}
             then == {k \in Jobs : l[k] >= l[j]}
  <2>1. j \in Jobs /\ l1[j] > 0 /\ Cardinality(now) <= max_entries /\ j \notin x
    BY <1>2, <1>5, SameCardinality DEF Owed, Asked, Since
  <2>2. now = then \cup {job}
    BY <1>6, <1>7, <2>1
  <2>3. then \in SUBSET AskedJobs(asks) /\ Since(j) = then /\ l[j] > 0
    BY <1>3, <1>6, <1>7, <2>1 DEF AskedJobs, Since
  <2>4. IsFiniteSet(then)
    BY <1>6, <2>3, FS_Subset
  <2>5. Cardinality(then) <= max_entries
    <3>1. IsFiniteSet(now) /\ then \subseteq now
      BY <2>2, <2>4, FS_AddElement
    <3>2. Cardinality(then) <= Cardinality(now) /\ Cardinality(then) \in Nat
          /\ Cardinality(now) \in Nat
      BY <3>1, <2>4, FS_Subset, FS_CardinalityType
    <3> QED BY <2>1, <3>2 DEF CapacityNat
  <2>6. j \in Owed
    BY <1>2, <1>3, <2>1, <2>3, <2>5, SameCardinality DEF Owed, Asked
  <2> QED BY <1>3, <2>1, <2>2, <2>3, <2>6
<1> QED BY <1>2, <1>3, <1>5, <1>8, <1>9, <1>10

\* The entries kept and the new one.
Entered(pending, kept, job, now) ==
  [k \in kept \cup {job} |-> IF k = job THEN now ELSE pending[k]]

\* What an entry added to the registry leaves of it: an owed job keeps its
\* entry, because those that were added after it are not enough to displace it.
LEMMA CancelKept ==
  ASSUME CapacityNat, AsksShape(asks), Registered(control, asks), NEW job \in Jobs, NEW now,
         \A j \in Owed' \ {job} :
              /\ j \in Owed /\ asks.last[j] > 0
              /\ Since(j) \in SUBSET AskedJobs(asks)
              /\ Cardinality(Since(j) \cup {job}) <= max_entries
  PROVE  \E kept \in SUBSET DOMAIN control.pending :
           /\ Add(control.pending, job, now) = Entered(control.pending, kept, job, now)
           /\ \A j \in Owed' \ {job} : j \in DOMAIN control.pending => j \in kept
<1> DEFINE pending == control.pending
           Has == DOMAIN pending
           older(k) == \E o \in Has : pending[o] < pending[k]
           full == job \notin Has /\ Cardinality(Has) >= max_entries
           left == {k \in Has : older(k)}
           kept == IF full THEN left ELSE Has
<1>1. kept \in SUBSET Has
  OBVIOUS
<1>2. Add(pending, job, now) = Entered(pending, kept, job, now)
  <2>1. CASE full
    <3>1. WithoutOldest(pending) = [k \in left |-> pending[k]]
      BY DEF WithoutOldest, PendingKeys, Restrict
    <3>2. DOMAIN WithoutOldest(pending) = left
      BY <3>1
    <3>3. Add(pending, job, now)
          = [k \in left \cup {job} |->
               IF k = job THEN now ELSE WithoutOldest(pending)[k]]
      BY <2>1, <3>2 DEF Add, PendingKeys
    <3> QED BY <2>1, <3>1, <3>3 DEF Entered
  <2>2. CASE ~full
    BY <2>2 DEF Entered, Add, PendingKeys
  <2> QED BY <2>1, <2>2
<1>3. ASSUME NEW j \in Owed' \ {job}, j \in Has, j \notin kept
      PROVE  FALSE
  <2>1. full /\ \A o \in Has : ~(pending[o] < pending[j])
    BY <1>3
  <2>2. \A o \in Has : o \in Jobs /\ pending[o] = asks.last[o] /\ asks.last[o] \in Nat
    BY DEF Registered, AskedJobs, AsksShape
  <2>3. Has \subseteq Since(j)
    BY <1>3, <2>1, <2>2 DEF Since
  <2>4. IsFiniteSet(Since(j))
    BY <1>3, FS_Subset DEF AsksShape, AskedJobs
  <2>5. IsFiniteSet(Has) /\ Cardinality(Has \cup {job}) = Cardinality(Has) + 1
        /\ Cardinality(Has) \in Nat
    BY <2>1, <2>3, <2>4, FS_Subset, FS_AddElement, FS_CardinalityType
  <2>6. IsFiniteSet(Since(j) \cup {job}) /\ Has \cup {job} \subseteq Since(j) \cup {job}
    BY <2>3, <2>4, FS_AddElement
  <2>7. /\ Cardinality(Has \cup {job}) <= Cardinality(Since(j) \cup {job})
        /\ Cardinality(Since(j) \cup {job}) \in Nat
    BY <2>6, FS_Subset, FS_CardinalityType
  <2>8. Cardinality(Has) >= max_entries
    BY <2>1, SameCardinality
  <2> HIDE DEF Has, kept, full
  <2> QED BY <1>3, <2>5, <2>7, <2>8 DEF CapacityNat
<1> HIDE DEF kept
<1> QED BY <1>1, <1>2, <1>3

\* A cancel is read.
LEMMA CancelReads ==
  ASSUME CapacityNat, CancelInv, NEW job \in Jobs, ReadCancel(job)
  PROVE  CancelInv'
<1>1. ControlShape(control) /\ MainShape(main) /\ AsksShape(asks)
      /\ UNCHANGED <<commandReader, main, answered>>
  BY DEF CancelInv, NativeShape, ReadCancel
<1>2. asks' = Asking(asks, job)
  BY DEF ReadCancel, Asking
<1>3. /\ AsksShape(asks') /\ asks'.last = [asks.last EXCEPT ![job] = asks.count + 1]
      /\ AskedJobs(asks') = AskedJobs(asks) \cup {job}
      /\ \A j \in Owed' \ {job} :
              /\ j \in Owed /\ asks.last[j] > 0
              /\ Since(j) \in SUBSET AskedJobs(asks)
              /\ Cardinality(Since(j) \cup {job}) <= max_entries
  BY <1>1, <1>2, CancelAsked
<1>4. asks'.last[job] = asks.count + 1 /\ \A j \in Jobs \ {job} : asks'.last[j] = asks.last[j]
  BY <1>1, <1>3 DEF AsksShape
<1>made. MadeOfParts(control)
  BY <1>1, ControlParts
<1>5a. PICK q \in Seq(Jobs), a \in Jobs \cup {NoJob}, k, sh \in BOOLEAN :
           \E p, s : control = ControlOf(q, p, a, k, sh, s)
  BY ONLY <1>made DEF MadeOfParts
<1>5. PICK p, s : control = ControlOf(q, p, a, k, sh, s)
  BY <1>5a
<1>6. /\ control.jobs = q /\ control.pending = p /\ control.active = a /\ control.cancel = k
      /\ control.shutdown = sh
  BY <1>5, ControlMade
<1>7. CASE job = control.active
  <2>1. control' = ControlOf(q, p, a, TRUE, sh, s)
    BY <1>5, <1>7 DEF ReadCancel, ControlOf
  <2>2. PICK k1 \in BOOLEAN : k1 = TRUE /\ control' = ControlOf(q, p, a, k1, sh, s)
    BY <2>1
  <2>3. /\ control'.jobs = q /\ control'.pending = p /\ control'.active = a
        /\ control'.cancel = k1 /\ control'.shutdown = sh /\ ControlShape(control')
    <3>1. control' = ControlOf(q, p, a, k1, sh, s)
      BY <2>2
    <3> QED BY <3>1, ControlMade
  <2>4. NativeShape' /\ MainHolds'
    BY <1>1, <1>3, <1>6, <2>3 DEF CancelInv, NativeShape, MainHolds, AnswersShape
  <2>5. Registered(control, asks)' /\ control'.active \notin DOMAIN control'.pending
    BY <1>3, <1>4, <1>6, <1>7, <2>3 DEF CancelInv, Registered, AskedJobs
  <2>6. OnlyAsked(control, asks, answered)'
    BY <1>1, <1>3, <1>6, <1>7, <2>3 DEF CancelInv, OnlyAsked
  <2>7. Reached(control, asks, answered)'
    BY <1>1, <1>3, <1>6, <1>7, <2>2, <2>3 DEF CancelInv, Reached
  <2> QED BY <2>4, <2>5, <2>6, <2>7 DEF CancelInv
<1>8. CASE job # control.active
  <2> DEFINE now == asks.count + 1
  <2>1. PICK kept \in SUBSET DOMAIN p :
               /\ Add(p, job, now) = Entered(p, kept, job, now)
               /\ \A j \in Owed' \ {job} : j \in DOMAIN p => j \in kept
    <3>1. Registered(control, asks)
      BY DEF CancelInv
    <3> HIDE DEF now
    <3>2. \E kept \in SUBSET DOMAIN control.pending :
               /\ Add(control.pending, job, now)
                  = Entered(control.pending, kept, job, now)
               /\ \A j \in Owed' \ {job} : j \in DOMAIN control.pending => j \in kept
      BY <1>1, <1>3, <3>1, CancelKept
    <3> QED BY <1>6, <3>2
  <2>2. PICK o : o = Entered(p, kept, job, now)
    OBVIOUS
  <2>3. control' = ControlOf(q, o, a, k, sh, s)
    <3>1. control' = [control EXCEPT !.pending = Add(@, job, asks.count + 1)]
      BY <1>8 DEF ReadCancel
    <3>2. control' = [control EXCEPT !.pending = o]
      BY <1>6, <2>1, <2>2, <3>1
    <3> QED BY <1>5, <3>2 DEF ControlOf
  <2>4. /\ control'.jobs = q /\ control'.pending = o /\ control'.active = a
        /\ control'.cancel = k /\ control'.shutdown = sh /\ ControlShape(control')
    BY <2>3, ControlMade
  <2>5. DOMAIN o = kept \cup {job} /\ o[job] = now /\ \A x \in kept \ {job} : o[x] = p[x]
    BY <2>2 DEF Entered
  <2>6. NativeShape' /\ MainHolds'
    BY <1>1, <1>3, <1>6, <2>4 DEF CancelInv, NativeShape, MainHolds, AnswersShape
  <2>7. Registered(control, asks)' /\ control'.active \notin DOMAIN control'.pending
    <3>1. DOMAIN p \subseteq AskedJobs(asks) /\ \A x \in DOMAIN p : p[x] = asks.last[x]
      BY <1>6 DEF CancelInv, Registered
    <3>2. \A x \in DOMAIN o : x \in AskedJobs(asks') /\ o[x] = asks'.last[x]
      BY <1>3, <1>4, <2>5, <3>1 DEF AskedJobs
    <3>3. o = [x \in DOMAIN o |-> asks'.last[x]]
      BY <2>2, <3>2 DEF Entered
    <3>4. a \notin DOMAIN o
      BY <1>6, <1>8, <2>5 DEF CancelInv
    <3> QED BY <2>4, <3>2, <3>3, <3>4 DEF Registered
  <2>8. OnlyAsked(control, asks, answered)'
    BY <1>1, <1>3, <1>6, <2>4 DEF CancelInv, OnlyAsked
  <2>9. Reached(control, asks, answered)'
    BY <1>1, <1>3, <1>6, <2>1, <2>4, <2>5 DEF CancelInv, Reached
  <2> QED BY <2>6, <2>7, <2>8, <2>9 DEF CancelInv
<1> QED BY <1>7, <1>8

\* The inductive invariant of cancellation
LEMMA CancelStep ==
  ASSUME KeysNamed, CapacityNat, CancelInv, [NativeNext]_processVars
  PROVE  CancelInv'
<1>1. CASE MainStep
  BY <1>1, CancelWaits, CancelTakes, CancelGenerates, CancelClears DEF MainStep
<1>2. CASE ReaderStep
  BY <1>2, CancelQueues, CancelReads, CancelStops DEF ReaderStep
<1>3. CASE UNCHANGED processVars
  <2>1. UNCHANGED <<control, commandReader, main, answered, asks>>
    BY <1>3 DEF processVars
  <2> QED BY <2>1, CancelStill DEF CancelInv, NativeShape, MainHolds
<1> QED BY <1>1, <1>2, <1>3, CancelExpires, CancelWaits DEF NativeNext

\* At the start no cancel was read and no job runs.
LEMMA CancelInit ==
  ASSUME KeysNamed, NativeInit
  PROVE  CancelInv
<1> USE DEF MainPlaces, MainRuns
<1>1. /\ main = MainAt("test", 0, NewController, NewUtf8, <<>>, <<>>, <<>>)
      /\ asks = [last |-> [j \in Jobs |-> 0], count |-> 0, lapsed |-> {}]
      /\ answered = [j \in Jobs |-> "none"] /\ commandReader = "reading"
  BY DEF NativeInit, Between, MainAt
<1>2. PICK k, sh \in BOOLEAN : /\ k = FALSE /\ sh = FALSE
                               /\ control = ControlOf(<<>>, << >>, NoJob, k, sh, {})
  BY DEF NativeInit, ControlOf
<1>3. /\ control.jobs = <<>> /\ control.pending = << >> /\ control.active = NoJob
      /\ control.cancel = k /\ control.shutdown = sh /\ ControlShape(control)
  <2>0. <<>> \in Seq(Jobs) /\ NoJob \in Jobs \cup {NoJob}
    OBVIOUS
  <2>1. PICK q \in Seq(Jobs), a \in Jobs \cup {NoJob} : q = <<>> /\ a = NoJob
    BY <2>0, Zenon
  <2>2. PICK p, s : p = << >> /\ s = {}
    OBVIOUS
  <2>3. control = ControlOf(q, p, a, k, sh, s)
    BY <1>2, <2>1, <2>2
  <2>4. /\ control.jobs = q /\ control.pending = p /\ control.active = a
        /\ control.cancel = k /\ control.shutdown = sh /\ ControlShape(control)
    BY <2>3, ControlMade
  <2> QED BY <2>1, <2>2, <2>4
<1>4. main.pc = "test" /\ MainShape(main)
  BY <1>1, MainFields
<1>5. asks.last = [j \in Jobs |-> 0] /\ asks.count = 0
      /\ asks = [last |-> asks.last, count |-> asks.count, lapsed |-> asks.lapsed]
  BY <1>1, AsksFields
<1>6. AskedJobs(asks) = {} /\ AsksShape(asks)
  <2>1. {j \in Jobs : asks.last[j] > 0} = {}
    BY <1>5
  <2> QED BY <1>5, <2>1, FS_EmptySet DEF AskedJobs, AsksShape
<1>7. NativeShape /\ MainHolds
  BY <1>1, <1>2, <1>3, <1>4, <1>6 DEF NativeShape, MainHolds, AnswersShape
<1>8. DOMAIN control.pending = {} /\ control.pending = [j \in {} |-> asks.last[j]]
  BY <1>3
<1>9. Owed = {}
  BY <1>5 DEF Owed, Asked
<1> QED BY <1>1, <1>2, <1>3, <1>6, <1>7, <1>8, <1>9 DEF CancelInv, Registered, OnlyAsked, Reached

\* See CancelInv.
LEMMA CancelInvariance == NativeSpec => []CancelInv
<1>1. KeysNamed /\ CapacityNat
  BY NativeAssumption DEF KeysNamed, CapacityNat
<1>2. NativeInit => CancelInv
  BY <1>1, CancelInit
<1>3. CancelInv /\ [NativeNext]_processVars => CancelInv'
  BY <1>1, CancelStep
<1> QED BY <1>2, <1>3, PTL DEF NativeSpec

\* A cancel that was read reaches its job, whether it came before the job, while it
\* waited or while it ran, unless its entry ran out or was displaced by later ones
\* (reader_loop, PendingCancelRegistry, the take of a job in main).
THEOREM CancelsReachTheirJob == NativeSpec => []NoLostCancel
<1>1. CancelInv => NoLostCancel
  BY DEF CancelInv, Reached, NoLostCancel, Consumed, PendingKeys
<1> QED BY <1>1, CancelInvariance, PTL

\* Only the cancel of a job, or a shutdown, sets the flag while it runs and makes
\* its answer a cancelled one (reader_loop, generate).
THEOREM CancelsSpareOtherJobs == NativeSpec => []CancelsOnlyItsJob
<1>1. CancelInv => CancelsOnlyItsJob
  BY DEF CancelInv, OnlyAsked, AskedJobs, CancelsOnlyItsJob, Asked
<1> QED BY <1>1, CancelInvariance, PTL

-----------------------------------------------------------------------------
(***************************************************************************)
(* Whole answers.  The phase controller sees the tokens one by one and     *)
(* remembers the last few; what it concludes is true of all the tokens.    *)
(***************************************************************************)

\* The tokens end in the marker; the marker stands in the tokens after the first k.
EndsIn(t, marker) ==
  /\ Len(marker) <= Len(t)
  /\ \A i \in 1 .. Len(marker) : t[Len(t) - Len(marker) + i] = marker[i]

IsAt(t, marker, k) ==
  /\ k + Len(marker) <= Len(t)
  /\ \A i \in 1 .. Len(marker) : t[k + i] = marker[i]

\* A marker occurs where its tokens stand.
LEMMA OccursAt ==
  ASSUME NEW U, NEW t \in Seq(U), NEW marker \in Seq(U)
  PROVE  Occurrences(marker, t) = {k \in Nat : IsAt(t, marker, k)}
<1>1. Len(t) \in Nat /\ Len(marker) \in Nat
  OBVIOUS
<1>2. ASSUME NEW k \in Nat, k + Len(marker) <= Len(t)
      PROVE  SubSeq(t, k + 1, k + Len(marker)) = marker <=> IsAt(t, marker, k)
  <2> DEFINE part == SubSeq(t, k + 1, k + Len(marker))
  <2>1. \A i \in (k + 1) .. (k + Len(marker)) : t[i] \in U
    BY <1>1, <1>2
  <2>2. part \in Seq(U) /\ Len(part) = Len(marker)
        /\ \A i \in 1 .. Len(marker) : part[i] = t[k + i]
    BY <1>1, <1>2, <2>1
  <2> HIDE DEF part
  <2>3. part = marker <=> \A i \in 1 .. Len(marker) : part[i] = marker[i]
    BY <2>2, SeqEqual
  <2> QED BY <1>2, <2>2, <2>3 DEF IsAt, part
<1>3. \A k : k \in 0 .. Len(t) - Len(marker) <=> k \in Nat /\ k + Len(marker) <= Len(t)
  BY <1>1
<1>4. \A k : k \in Occurrences(marker, t) <=>
          k \in 0 .. Len(t) - Len(marker) /\ SubSeq(t, k + 1, k + Len(marker)) = marker
  BY DEF Occurrences
<1>5. \A k : k \in Occurrences(marker, t) <=> k \in Nat /\ IsAt(t, marker, k)
  BY <1>2, <1>3, <1>4 DEF IsAt
<1> QED BY <1>5

\* A token adds the occurrence that ends with it.
LEMMA OccursAppend ==
  ASSUME NEW U, NEW t \in Seq(U), NEW marker \in Seq(U), marker # <<>>, NEW x \in U
  PROVE  \A k : k \in Occurrences(marker, Append(t, x)) <=>
           \/ k \in Occurrences(marker, t)
           \/ EndsIn(Append(t, x), marker) /\ k = Len(t) + 1 - Len(marker)
<1> DEFINE a == Append(t, x)
<1>1. /\ a \in Seq(U) /\ Len(a) = Len(t) + 1 /\ Len(t) \in Nat /\ Len(marker) \in Nat \ {0}
      /\ a[Len(t) + 1] = x /\ \A i \in 1 .. Len(t) : a[i] = t[i]
  OBVIOUS
<1> HIDE DEF a
<1>2. \A k : k \in Occurrences(marker, t) <=> k \in Nat /\ IsAt(t, marker, k)
  BY OccursAt
<1>3. \A k : k \in Occurrences(marker, a) <=> k \in Nat /\ IsAt(a, marker, k)
  BY <1>1, OccursAt
<1>4. ASSUME NEW k \in Nat, k + Len(marker) <= Len(t)
      PROVE  IsAt(a, marker, k) <=> IsAt(t, marker, k)
  <2>1. \A i \in 1 .. Len(marker) : k + i \in 1 .. Len(t)
    BY <1>1, <1>4
  <2>2. \A i \in 1 .. Len(marker) : a[k + i] = t[k + i]
    BY <1>1, <2>1
  <2>3. k + Len(marker) <= Len(a)
    BY <1>1, <1>4
  <2> QED BY <1>4, <2>2, <2>3 DEF IsAt
<1>5. ASSUME NEW k \in Nat, ~(k + Len(marker) <= Len(t))
      PROVE  /\ ~IsAt(t, marker, k)
             /\ IsAt(a, marker, k) <=> EndsIn(a, marker) /\ k = Len(t) + 1 - Len(marker)
  <2>1. k + Len(marker) <= Len(a) <=> k = Len(t) + 1 - Len(marker)
    BY <1>1, <1>5
  <2>2. ASSUME k = Len(t) + 1 - Len(marker)
        PROVE  IsAt(a, marker, k) <=> EndsIn(a, marker)
    <3>1. Len(a) - Len(marker) = k /\ k + Len(marker) <= Len(a) /\ Len(marker) <= Len(a)
      BY <1>1, <2>2
    <3> QED BY <3>1 DEF IsAt, EndsIn
  <2> QED BY <1>5, <2>1, <2>2 DEF IsAt
<1>6. EndsIn(a, marker) => Len(t) + 1 - Len(marker) \in Nat
                         /\ ~(Len(t) + 1 - Len(marker) + Len(marker) <= Len(t))
  BY <1>1 DEF EndsIn
<1>7. ASSUME NEW k
      PROVE  k \in Occurrences(marker, a) <=>
               \/ k \in Occurrences(marker, t)
               \/ EndsIn(a, marker) /\ k = Len(t) + 1 - Len(marker)
  <2>1. CASE k \in Nat /\ k + Len(marker) <= Len(t)
    BY <1>1, <1>2, <1>3, <1>4, <1>6, <2>1
  <2>2. CASE k \in Nat /\ ~(k + Len(marker) <= Len(t))
    BY <1>2, <1>3, <1>5, <2>2
  <2>3. CASE k \notin Nat
    BY <1>2, <1>3, <1>6, <2>3
  <2> QED BY <2>1, <2>2, <2>3
<1> QED BY <1>7 DEF a

\* The tail the controller remembers: the last tokens, as many as the longer
\* marker has.
TailOf(tail, t) ==
  /\ Len(tail) = IF Len(t) < MaxOf(Len(StartMarker), Len(EndMarker)) THEN Len(t)
                 ELSE MaxOf(Len(StartMarker), Len(EndMarker))
  /\ \A i \in 1 .. Len(tail) : tail[i] = t[Len(t) - Len(tail) + i]

\* The markers are sequences of tokens, and neither is empty.
Markers(U) ==
  /\ StartMarker \in Seq(U) /\ EndMarker \in Seq(U)
  /\ StartMarker # <<>> /\ EndMarker # <<>>

\* The tail stays the tail when a token comes (remember).
LEMMA TailRemembers ==
  ASSUME NEW U, Markers(U), NEW t \in Seq(U), NEW tail \in Seq(U), TailOf(tail, t), NEW x \in U
  PROVE  Remember(tail, x) \in Seq(U) /\ TailOf(Remember(tail, x), Append(t, x))
<1> DEFINE w == MaxOf(Len(StartMarker), Len(EndMarker))
           longer == Append(tail, x)
           a == Append(t, x)
<1>1. w \in Nat \ {0}
  BY DEF Markers, MaxOf
<1>2. /\ longer \in Seq(U) /\ Len(longer) = Len(tail) + 1 /\ longer # <<>>
      /\ longer[Len(tail) + 1] = x /\ \A i \in 1 .. Len(tail) : longer[i] = tail[i]
      /\ Len(tail) \in Nat
  OBVIOUS
<1>3. /\ a \in Seq(U) /\ Len(a) = Len(t) + 1 /\ Len(t) \in Nat
      /\ a[Len(t) + 1] = x /\ \A i \in 1 .. Len(t) : a[i] = t[i]
  OBVIOUS
<1>4. /\ Len(tail) = IF Len(t) < w THEN Len(t) ELSE w
      /\ \A i \in 1 .. Len(tail) : tail[i] = t[Len(t) - Len(tail) + i]
  BY DEF TailOf
<1>5. Remember(tail, x) = IF Len(longer) > w THEN Tail(longer) ELSE longer
  BY DEF Remember
<1>6. TailOf(Remember(tail, x), a)
      <=> LET r == Remember(tail, x)
          IN  /\ Len(r) = IF Len(a) < w THEN Len(a) ELSE w
              /\ \A i \in 1 .. Len(r) : r[i] = a[Len(a) - Len(r) + i]
  BY DEF TailOf
<1> HIDE DEF w, longer, a
<1>7. CASE Len(longer) > w
  <2>1. Tail(longer) \in Seq(U) /\ Len(Tail(longer)) = w
        /\ \A i \in 1 .. w : Tail(longer)[i] = longer[i + 1]
    BY <1>1, <1>2, <1>4, <1>7
  <2>2. Len(tail) = w /\ Len(t) >= w
    BY <1>1, <1>2, <1>3, <1>4, <1>7
  <2>3. ASSUME NEW i \in 1 .. w
        PROVE  longer[i + 1] = a[Len(a) - w + i]
    <3>1. CASE i = w
      BY <1>1, <1>2, <1>3, <2>2, <3>1
    <3>2. CASE i # w
      <4>1. i + 1 \in 1 .. Len(tail) /\ Len(t) - Len(tail) + (i + 1) \in 1 .. Len(t)
            /\ Len(a) - w + i = Len(t) - Len(tail) + (i + 1)
        BY <1>1, <1>3, <2>2, <3>2
      <4> QED BY <1>2, <1>3, <1>4, <4>1
    <3> QED BY <3>1, <3>2
  <2>4. Remember(tail, x) = Tail(longer)
    BY <1>5, <1>7
  <2>5. Len(a) >= w
    BY <1>1, <1>3, <2>2
  <2>6. TailOf(Remember(tail, x), a)
    BY <1>1, <1>3, <1>6, <2>1, <2>3, <2>4, <2>5
  <2> QED BY <2>1, <2>4, <2>6 DEF a
<1>8. CASE ~(Len(longer) > w)
  <2>1. Len(tail) = Len(t) /\ Len(t) < w /\ Len(longer) = Len(a)
    BY <1>1, <1>2, <1>3, <1>4, <1>8
  <2>2. ASSUME NEW i \in 1 .. Len(longer)
        PROVE  longer[i] = a[Len(a) - Len(longer) + i]
    <3>1. Len(a) - Len(longer) + i = i
      BY <1>2, <1>3, <2>1
    <3>2. CASE i = Len(t) + 1
      BY <1>2, <1>3, <2>1, <3>1, <3>2
    <3>3. CASE i # Len(t) + 1
      <4>1. i \in 1 .. Len(t) /\ Len(t) - Len(tail) + i = i
        BY <1>2, <1>3, <2>1, <3>3
      <4> QED BY <1>2, <1>3, <1>4, <2>1, <3>1, <4>1
    <3> QED BY <3>2, <3>3
  <2>3. Remember(tail, x) = longer
    BY <1>5, <1>8
  <2>4. Len(longer) = IF Len(a) < w THEN Len(a) ELSE w
    BY <1>1, <1>2, <1>3, <1>8, <2>1
  <2>5. TailOf(Remember(tail, x), a)
    BY <1>6, <2>2, <2>3, <2>4
  <2> QED BY <1>2, <2>3, <2>5 DEF a
<1> QED BY <1>7, <1>8 DEF a

\* The test of the controller for a marker at the end.
LEMMA SuffixEnds ==
  ASSUME NEW U, NEW t \in Seq(U), NEW marker \in Seq(U)
  PROVE  IsSuffix(marker, t) <=> EndsIn(t, marker)
<1> DEFINE m == Len(marker)
           n == Len(t)
           rm == Reverse(marker)
           rt == Reverse(t)
<1>1. m \in Nat /\ n \in Nat
  OBVIOUS
<1>2. rm = [i \in 1 .. m |-> marker[(m - i) + 1]] /\ rt = [i \in 1 .. n |-> t[(n - i) + 1]]
  BY DEF Reverse
<1>3. rm \in Seq(U) /\ Len(rm) = m /\ \A i \in 1 .. m : rm[i] = marker[(m - i) + 1]
  <2>1. \A i \in 1 .. m : (m - i) + 1 \in 1 .. m
    BY <1>1
  <2>2. rm \in [1 .. m -> U]
    BY <1>2, <2>1
  <2> QED BY <1>1, <1>2, <2>2
<1>4. rt \in Seq(U) /\ Len(rt) = n /\ \A i \in 1 .. n : rt[i] = t[(n - i) + 1]
  <2>1. \A i \in 1 .. n : (n - i) + 1 \in 1 .. n
    BY <1>1
  <2>2. rt \in [1 .. n -> U]
    BY <1>2, <2>1
  <2> QED BY <1>1, <1>2, <2>2
<1>5. IsSuffix(marker, t) <=> m <= n /\ SubSeq(rm, 1, m) = SubSeq(rt, 1, m)
  <2>1. IsSuffix(marker, t)
        <=> Len(rm) <= Len(rt) /\ SubSeq(rm, 1, Len(rm)) = SubSeq(rt, 1, Len(rm))
    BY DEF IsSuffix, IsPrefix
  <2> QED BY <1>3, <1>4, <2>1
<1> HIDE DEF rm, rt, m, n
<1>6. ASSUME m <= n
      PROVE  SubSeq(rm, 1, m) = SubSeq(rt, 1, m) <=> EndsIn(t, marker)
  <2>1. SubSeq(rm, 1, m) = rm
    BY <1>1, <1>3
  <2> DEFINE part == SubSeq(rt, 1, m)
  <2>2. part \in Seq(U) /\ Len(part) = m /\ \A i \in 1 .. m : part[i] = rt[i]
    <3>1. \A i \in 1 .. m : rt[i] \in U
      BY <1>1, <1>4, <1>6
    <3> QED BY <1>1, <1>4, <1>6, <3>1
  <2> HIDE DEF part
  <2>3. rm = part <=> \A i \in 1 .. m : rm[i] = part[i]
    BY <1>3, <2>2, SeqEqual
  <2>4. ASSUME NEW i \in 1 .. m
        PROVE  rm[i] = part[i] <=> marker[(m - i) + 1] = t[(n - i) + 1]
    BY <1>1, <1>3, <1>4, <1>6, <2>2
  <2>5. (\A i \in 1 .. m : marker[(m - i) + 1] = t[(n - i) + 1])
        <=> (\A i \in 1 .. m : t[n - m + i] = marker[i])
    <3>1. ASSUME \A i \in 1 .. m : marker[(m - i) + 1] = t[(n - i) + 1], NEW i \in 1 .. m
          PROVE  t[n - m + i] = marker[i]
      <4>1. (m - i) + 1 \in 1 .. m /\ (m - ((m - i) + 1)) + 1 = i
            /\ (n - ((m - i) + 1)) + 1 = n - m + i
        BY <1>1, <1>6
      <4> QED BY <3>1, <4>1
    <3>2. ASSUME \A i \in 1 .. m : t[n - m + i] = marker[i], NEW i \in 1 .. m
          PROVE  marker[(m - i) + 1] = t[(n - i) + 1]
      <4>1. (m - i) + 1 \in 1 .. m /\ n - m + ((m - i) + 1) = (n - i) + 1
        BY <1>1, <1>6
      <4> QED BY <3>2, <4>1
    <3> QED BY <3>1, <3>2
  <2>6. EndsIn(t, marker) <=> \A i \in 1 .. m : t[n - m + i] = marker[i]
    BY <1>6 DEF EndsIn, m, n
  <2> QED BY <2>1, <2>3, <2>4, <2>5, <2>6 DEF part
<1>7. EndsIn(t, marker) => m <= n
  BY DEF EndsIn, m, n
<1> QED BY <1>5, <1>6, <1>7

\* The tail ends in a marker exactly if the tokens do.
LEMMA TailEnds ==
  ASSUME NEW U, Markers(U), NEW t \in Seq(U), NEW tail \in Seq(U), TailOf(tail, t),
         NEW marker \in {StartMarker, EndMarker}
  PROVE  IsSuffix(marker, tail) <=> EndsIn(t, marker)
<1> DEFINE w == MaxOf(Len(StartMarker), Len(EndMarker))
<1>1. /\ marker \in Seq(U) /\ Len(marker) \in Nat /\ Len(marker) <= w /\ w \in Nat
      /\ Len(t) \in Nat /\ Len(tail) \in Nat
  BY DEF Markers, MaxOf
<1>2. /\ Len(tail) = IF Len(t) < w THEN Len(t) ELSE w
      /\ \A i \in 1 .. Len(tail) : tail[i] = t[Len(t) - Len(tail) + i]
  BY DEF TailOf
<1> HIDE DEF w
<1>3. Len(marker) <= Len(tail) <=> Len(marker) <= Len(t)
  BY <1>1, <1>2
<1>4. ASSUME Len(marker) <= Len(tail), NEW i \in 1 .. Len(marker)
      PROVE  tail[Len(tail) - Len(marker) + i] = t[Len(t) - Len(marker) + i]
  <2>1. /\ Len(tail) - Len(marker) + i \in 1 .. Len(tail)
        /\ Len(t) - Len(tail) + (Len(tail) - Len(marker) + i) = Len(t) - Len(marker) + i
    BY <1>1, <1>4
  <2> QED BY <1>2, <2>1
<1>5. EndsIn(tail, marker) <=> EndsIn(t, marker)
  BY <1>3, <1>4 DEF EndsIn
<1> QED BY <1>1, <1>5, SuffixEnds

\* A controller with these parts.
CtlOf(phase, sampled, reasoning, final, tail) ==
  [phase |-> phase, sampled |-> sampled, reasoning |-> reasoning, final |-> final, tail |-> tail]

\* The parts of a controller made of them.
LEMMA CtlFields ==
  ASSUME NEW p, NEW s, NEW r, NEW f, NEW t, NEW c, c = CtlOf(p, s, r, f, t)
  PROVE  c.phase = p /\ c.sampled = s /\ c.reasoning = r /\ c.final = f /\ c.tail = t
BY DEF CtlOf

\* A failure never passes for another outcome.
LEMMA Entered2 ==
  ASSUME NEW p, NEW s, NEW r, NEW f, NEW t, NEW c, c = CtlOf(p, s, r, f, t), NEW q, NEW action
  PROVE  /\ Enter(c, q, action).controller = CtlOf(q, s, r, f, t)
         /\ Enter(c, q, action).action = action
         /\ \A reason : Failed(c, reason).action = "failed"
BY DEF CtlOf, Enter, Failed

\* The budgets are numbers.
Budgets == reasoning_budget \in Nat /\ final_budget \in Nat /\ total_budget \in Nat

\* What the controller makes of a token it does not refuse.
LEMMA Consumes ==
  ASSUME Budgets, NEW p, NEW s \in Nat, NEW r \in Nat, NEW f \in Nat, NEW tail, NEW x,
         NEW proven \in BOOLEAN, NEW c, c = CtlOf(p, s, r, f, tail),
         p \in {"expect_reasoning_start", "reasoning", "final", "done"},
         NEW step, step = Consume(c, x, proven), step.action # "failed"
  PROVE  LET after == Remember(tail, x)
             start == IsSuffix(StartMarker, after)
             end == IsSuffix(EndMarker, after)
         IN  /\ p # "done" /\ s + 1 <= total_budget
             /\ \/ /\ x = EOG /\ p = "final" /\ proven
                   /\ step.controller = CtlOf("done", s + 1, r, f, after)
                   /\ step.action = "completed"
                \/ /\ x # EOG /\ p = "final" /\ f + 1 <= final_budget /\ ~start /\ ~end
                   /\ step.controller = CtlOf("final", s + 1, r, f + 1, after)
                   /\ step.action = "none"
                \/ /\ x # EOG /\ p = "expect_reasoning_start" /\ r + 1 <= reasoning_budget /\ ~end
                   /\ step.controller = CtlOf(IF start THEN "reasoning" ELSE p, s + 1, r + 1, f, after)
                   /\ step.action # "completed"
                \/ /\ x # EOG /\ p = "reasoning" /\ r + 1 <= reasoning_budget /\ ~start
                   /\ step.controller = CtlOf(IF end THEN "final" ELSE p, s + 1, r + 1, f, after)
                   /\ step.action # "completed"
<1>1. c.phase = p /\ c.sampled = s /\ c.reasoning = r /\ c.final = f /\ c.tail = tail
  BY CtlFields
<1>2. PICK r1, f1, s1 : /\ r1 = (IF p # "final" THEN r + 1 ELSE r)
                        /\ f1 = (IF p = "final" /\ x # EOG THEN f + 1 ELSE f)
                        /\ s1 = s + 1
  OBVIOUS
<1>3. PICK counted : counted = Counted(c, x = EOG)
  OBVIOUS
<1>4. counted = CtlOf(p, s1, r1, f1, tail)
  <2>1. counted = [c EXCEPT !.sampled = s1, !.reasoning = r1, !.final = f1]
    BY <1>1, <1>2, <1>3 DEF Counted
  <2> QED BY <2>1 DEF CtlOf
<1>5. /\ counted.phase = p /\ counted.sampled = s1 /\ counted.reasoning = r1
      /\ counted.final = f1 /\ counted.tail = tail
  BY <1>4, CtlFields
<1>6. PICK after : after = Remember(tail, x)
  OBVIOUS
<1>7. PICK remembered : remembered = [counted EXCEPT !.tail = Remember(@, x)]
  OBVIOUS
<1>8. remembered = CtlOf(p, s1, r1, f1, after)
  <2>1. remembered = [counted EXCEPT !.tail = after]
    BY <1>5, <1>6, <1>7
  <2> QED BY <1>4, <2>1 DEF CtlOf
<1>9. remembered.phase = p /\ remembered.tail = after
  BY <1>8, CtlFields
<1>10. step = IF c.phase \in {"done", "error"} THEN Failed(c, "token received after terminal state")
              ELSE IF Overrun(counted, x = EOG) # "none"
                   THEN Failed(counted, Overrun(counted, x = EOG))
              ELSE IF x = EOG THEN AtEog(remembered, proven)
              ELSE AtMarker(remembered)
  BY <1>3, <1>7 DEF Consume
<1>11. \A d, reason : Failed(d, reason).action = "failed"
  BY DEF Failed
<1>12. p # "done" /\ Overrun(counted, x = EOG) = "none"
  <2>1. ASSUME p = "done" PROVE FALSE
    <3>1. step = Failed(c, "token received after terminal state")
      BY <1>1, <1>10, <2>1
    <3> QED BY <1>11, <3>1
  <2>2. ASSUME p # "done", Overrun(counted, x = EOG) # "none" PROVE FALSE
    <3>1. step = Failed(counted, Overrun(counted, x = EOG))
      BY <1>1, <1>10, <2>2
    <3> QED BY <1>11, <3>1
  <2> QED BY <2>1, <2>2
<1>13. /\ s1 <= total_budget /\ (p # "final" => r1 <= reasoning_budget)
       /\ (p = "final" /\ x # EOG => f1 <= final_budget)
  BY <1>2, <1>5, <1>12 DEF Overrun, Budgets
<1>14. CASE x = EOG
  <2>1. step = AtEog(remembered, proven)
    BY <1>1, <1>10, <1>12, <1>14
  <2>2. p = "final" /\ proven /\ step = Enter(remembered, "done", "completed")
    BY <1>9, <1>11, <2>1 DEF AtEog
  <2>3. step.controller = CtlOf("done", s1, r1, f1, after) /\ step.action = "completed"
    <3>1. step = Enter(remembered, "done", "completed")
      BY <2>2
    <3> HIDE <2>2, <1>10
    <3> QED BY <1>8, <3>1 DEF CtlOf, Enter
  <2>4. r1 = r /\ f1 = f
    BY <1>2, <1>14, <2>2
  <2> QED BY <1>2, <1>6, <1>12, <1>13, <1>14, <2>2, <2>3, <2>4
<1>15. CASE x # EOG
  <2> DEFINE start == IsSuffix(StartMarker, after)
             end == IsSuffix(EndMarker, after)
  <2>1. step = AtMarker(remembered)
    BY <1>1, <1>10, <1>12, <1>15
  <2>2. /\ p = "expect_reasoning_start" => ~end
        /\ p = "reasoning" => ~start
        /\ p = "final" => ~start /\ ~end
        /\ \E q, action : /\ step = Enter(remembered, q, action)
                          /\ action # "completed"
                          /\ q = (IF p = "expect_reasoning_start" /\ start THEN "reasoning"
                                  ELSE IF p = "reasoning" /\ end THEN "final" ELSE p)
                          /\ p = "final" => action = "none"
    <3> HIDE DEF start, end
    <3>1. AtMarker(remembered) =
            CASE p = "expect_reasoning_start" /\ end ->
                Failed(remembered, "reasoning_end_before_start")
            [] p = "expect_reasoning_start" /\ ~end /\ start ->
                Enter(remembered, "reasoning", "reasoning_started")
            [] p = "reasoning" /\ start -> Failed(remembered, "duplicate_reasoning_start")
            [] p = "reasoning" /\ ~start /\ end ->
                Enter(remembered, "final", "activate_final_grammar")
            [] p = "final" /\ (start \/ end) ->
                Failed(remembered, "reasoning_marker_after_final")
            [] OTHER -> Enter(remembered, p, "none")
      BY <1>9 DEF AtMarker, start, end
    <3>2. CASE p = "expect_reasoning_start"
      <4>1. ~end
        BY <1>11, <2>1, <3>1, <3>2
      <4> QED BY <2>1, <3>1, <3>2, <4>1
    <3>3. CASE p = "reasoning"
      <4>1. ~start
        BY <1>11, <2>1, <3>1, <3>3
      <4> QED BY <2>1, <3>1, <3>3, <4>1
    <3>4. CASE p = "final"
      <4>1. ~start /\ ~end
        BY <1>11, <2>1, <3>1, <3>4
      <4> QED BY <2>1, <3>1, <3>4, <4>1
    <3> QED BY <1>12, <3>2, <3>3, <3>4
  <2>3. PICK q, action : /\ step = Enter(remembered, q, action)
                         /\ action # "completed"
                         /\ q = (IF p = "expect_reasoning_start" /\ start THEN "reasoning"
                                 ELSE IF p = "reasoning" /\ end THEN "final" ELSE p)
                         /\ p = "final" => action = "none"
    BY <2>2
  <2>4. step.controller = CtlOf(q, s1, r1, f1, after) /\ step.action = action
    BY <1>8, <2>3, Entered2
  <2>5. CASE p = "final"
    BY <1>2, <1>6, <1>12, <1>13, <1>15, <2>2, <2>3, <2>4, <2>5
  <2>6. CASE p # "final"
    BY <1>2, <1>6, <1>12, <1>13, <1>15, <2>2, <2>3, <2>4, <2>6
  <2> QED BY <2>5, <2>6
<1> QED BY <1>14, <1>15

\* What was streamed, and what is still to be.
Joined(d, pending) == d \o pending

\* An accumulator that saw no malformed bytes.
Utf8Of(pending) == [valid |-> TRUE, pending |-> pending]

\* An accumulator after a change of one of its fields.
LEMMA Utf8Fields ==
  ASSUME NEW v, NEW p, NEW u, u = [valid |-> v, pending |-> p], NEW q, NEW w
  PROVE  /\ u.valid = v /\ u.pending = p
         /\ [u EXCEPT !.pending = q] = [valid |-> v, pending |-> q]
         /\ [u EXCEPT !.valid = w].valid = w
OBVIOUS

\* See Utf8Fields: an accumulator that saw no malformed bytes.
LEMMA Utf8Pending ==
  ASSUME NEW p, NEW q, NEW u, u = Utf8Of(p)
  PROVE  /\ [u EXCEPT !.pending = q] = Utf8Of(q)
         /\ [u EXCEPT !.valid = FALSE].valid = FALSE
<1>1. PICK v, w : v = TRUE /\ w = FALSE
  BY Zenon
<1>2. u = [valid |-> v, pending |-> p] /\ Utf8Of(q) = [valid |-> v, pending |-> q]
  BY <1>1, Zenon DEF Utf8Of
<1>3. [u EXCEPT !.pending = q] = [valid |-> v, pending |-> q] /\ [u EXCEPT !.valid = w].valid = w
  <2>1. u = [valid |-> v, pending |-> p]
    BY <1>2
  <2> QED BY <2>1, Utf8Fields
<1> QED BY <1>1, <1>2, <1>3, Zenon

\* What is completed of the bytes and what stays pending are the bytes.
LEMMA Utf8Appends ==
  ASSUME NEW U, NEW p \in Seq(U), NEW x \in U, NEW u, u = Utf8Of(p),
         NEW r, r = Utf8Append(u, x), r.utf8.valid, NEW p1, p1 = Append(p, x)
  PROVE  \E q \in Seq(U) : /\ r.utf8 = Utf8Of(q) /\ r.completed \in Seq(U)
                           /\ Joined(r.completed, q) = p1
<1>1. u.valid = TRUE /\ u.pending = p
  BY DEF Utf8Of
<1>2. PICK bytes \in Seq(U) : bytes = Append(p, x)
  <2>1. Append(p, x) \in Seq(U)
    OBVIOUS
  <2> QED BY <2>1, Zenon
<1> DEFINE kind == TokenBytes[x]
           bad == kind = "bad" \/ (kind = "whole" /\ p # <<>>)
           half == kind = "half" /\ p = <<>>
<1>3. r = CASE bad -> [utf8 |-> [u EXCEPT !.valid = FALSE], completed |-> <<>>]
          [] half -> [utf8 |-> [u EXCEPT !.pending = bytes], completed |-> <<>>]
          [] OTHER -> [utf8 |-> [u EXCEPT !.pending = <<>>], completed |-> bytes]
  BY <1>1, <1>2 DEF Utf8Append
<1>4. ~(bad /\ half)
  OBVIOUS
<1> HIDE DEF bad, half
<1>5. [u EXCEPT !.pending = bytes] = Utf8Of(bytes) /\ [u EXCEPT !.pending = <<>>] = Utf8Of(<<>>)
      /\ [u EXCEPT !.valid = FALSE].valid = FALSE
  BY Utf8Pending
<1>6. CASE bad
  <2>1. r.utf8 = [u EXCEPT !.valid = FALSE]
    BY <1>3, <1>4, <1>6
  <2> QED BY <1>5, <2>1
<1>7. CASE half
  <2>1. r.utf8 = Utf8Of(bytes) /\ r.completed = <<>>
    BY <1>3, <1>4, <1>5, <1>7
  <2>2. Joined(<<>>, bytes) = bytes /\ <<>> \in Seq(U)
    BY DEF Joined
  <2> QED BY <1>2, <2>1, <2>2
<1>8. CASE ~bad /\ ~half
  <2>1. r.utf8 = Utf8Of(<<>>) /\ r.completed = bytes
    BY <1>3, <1>5, <1>8
  <2>2. Joined(bytes, <<>>) = bytes /\ <<>> \in Seq(U)
    BY DEF Joined
  <2> QED BY <1>2, <2>1, <2>2
<1> QED BY <1>6, <1>7, <1>8

\* Where the start marker, the end marker and the final text stand in the tokens.
Placed(t, final, s, e, rest) ==
  /\ \A k : k \in Occurrences(StartMarker, t) <=> k = s
  /\ \A k : k \in Occurrences(EndMarker, t) <=> k = e
  /\ s \in Nat /\ e \in Nat /\ s < e /\ e + Len(EndMarker) <= reasoning_budget
  /\ Len(t) = e + Len(EndMarker) + Len(final) + rest
  /\ \A i \in 1 .. Len(final) : t[e + Len(EndMarker) + i] = final[i]

\* What the phase says of the tokens and of the text that was streamed.
Story(p, t, final) ==
  /\ p \in {"expect_reasoning_start", "reasoning", "final", "done"}
  /\ p = "expect_reasoning_start" =>
       /\ \A k : k \notin Occurrences(StartMarker, t)
       /\ \A k : k \notin Occurrences(EndMarker, t)
  /\ p = "reasoning" =>
       /\ \E s \in Nat : /\ \A k : k \in Occurrences(StartMarker, t) <=> k = s
       /\ \A k : k \notin Occurrences(EndMarker, t)
  /\ p \in {"expect_reasoning_start", "reasoning"} => final = <<>> /\ Len(t) <= reasoning_budget
  /\ p = "final" => \E s, e : Placed(t, final, s, e, 0)
  /\ p = "done" => t[Len(t)] = EOG /\ \E s, e : Placed(t, final, s, e, 1)
  /\ p # "done" => \A i \in 1 .. Len(t) : t[i] # EOG

\* The locals of a generation that did not fail.
Told(m) ==
  \E p : \E tail \in Seq(SampledTokens), r \in Nat, pending \in Seq(SampledTokens) :
    /\ m.phase = CtlOf(p, Len(m.tokens), r, Len(m.final), tail)
    /\ m.utf8 = Utf8Of(pending)
    /\ m.tokens \in Seq(SampledTokens) /\ m.final \in Seq(SampledTokens)
    /\ m.deltas \in Seq(SampledTokens) /\ Joined(m.deltas, pending) = m.final
    /\ TailOf(tail, m.tokens)
    /\ p \in {"expect_reasoning_start", "reasoning"} => r = Len(m.tokens)
    /\ Len(m.tokens) <= total_budget /\ Len(m.final) <= final_budget
    /\ Story(p, m.tokens, m.final)

\* The start marker does not occur in the end marker, so that no stretch of
\* tokens is both.
MarkersApart == \A k : k \notin Occurrences(StartMarker, EndMarker)

\* Both markers are made of tokens the sampler may answer.
MarkersSampled == Markers(SampledTokens)

\* Before the start marker
LEMMA StoryStarts ==
  ASSUME MarkersSampled, Budgets, NEW t \in Seq(SampledTokens), NEW x \in SampledTokens, NEW final,
         Story("expect_reasoning_start", t, final), x # EOG,
         Len(t) + 1 <= reasoning_budget, ~EndsIn(Append(t, x), EndMarker),
         NEW q, q = IF EndsIn(Append(t, x), StartMarker) THEN "reasoning"
                    ELSE "expect_reasoning_start"
  PROVE  Story(q, Append(t, x), final)
<1> DEFINE a == Append(t, x)
<1>1. /\ a \in Seq(SampledTokens) /\ Len(a) = Len(t) + 1 /\ Len(t) \in Nat
      /\ a[Len(t) + 1] = x /\ \A i \in 1 .. Len(t) : a[i] = t[i]
  OBVIOUS
<1>2. /\ StartMarker \in Seq(SampledTokens) /\ EndMarker \in Seq(SampledTokens)
      /\ StartMarker # <<>> /\ EndMarker # <<>>
      /\ Len(StartMarker) \in Nat
  BY DEF MarkersSampled, Markers
<1>3. \A k : k \notin Occurrences(EndMarker, a)
  BY <1>2, OccursAppend DEF Story
<1>4. \A k : k \in Occurrences(StartMarker, a) <=>
               EndsIn(a, StartMarker) /\ k = Len(t) + 1 - Len(StartMarker)
  BY <1>2, OccursAppend DEF Story
<1>5. \A i \in 1 .. Len(a) : a[i] # EOG
  BY <1>1 DEF Story
<1>6. final = <<>> /\ Len(a) <= reasoning_budget
  BY <1>1 DEF Story
<1>7. CASE EndsIn(a, StartMarker)
  <2>0. Len(t) + 1 - Len(StartMarker) \in Nat
    BY <1>1, <1>2, <1>7 DEF EndsIn
  <2>1. PICK s \in Nat : s = Len(t) + 1 - Len(StartMarker)
    BY <2>0, Zenon
  <2>2. \A k : k \in Occurrences(StartMarker, a) <=> k = s
    BY <1>4, <1>7, <2>1
  <2> HIDE DEF a
  <2> QED BY <1>3, <1>5, <1>6, <1>7, <2>2 DEF Story, a
<1>8. CASE ~EndsIn(a, StartMarker)
  <2> HIDE DEF a
  <2> QED BY <1>3, <1>4, <1>5, <1>6, <1>8 DEF Story, a
<1> QED BY <1>7, <1>8

\* Between the markers.  The end marker ends after the start marker, and as it
\* does not contain it, it begins after it too.
LEMMA StoryTurns ==
  ASSUME MarkersSampled, MarkersApart, Budgets, NEW t \in Seq(SampledTokens),
         NEW x \in SampledTokens, NEW final,
         Story("reasoning", t, final), x # EOG,
         Len(t) + 1 <= reasoning_budget, ~EndsIn(Append(t, x), StartMarker),
         NEW q, q = IF EndsIn(Append(t, x), EndMarker) THEN "final" ELSE "reasoning"
  PROVE  Story(q, Append(t, x), final)
<1> DEFINE a == Append(t, x)
<1>1. /\ a \in Seq(SampledTokens) /\ Len(a) = Len(t) + 1 /\ Len(t) \in Nat
      /\ a[Len(t) + 1] = x /\ \A i \in 1 .. Len(t) : a[i] = t[i]
  OBVIOUS
<1>2. /\ StartMarker \in Seq(SampledTokens) /\ EndMarker \in Seq(SampledTokens)
      /\ StartMarker # <<>> /\ EndMarker # <<>>
      /\ Len(StartMarker) \in Nat \ {0} /\ Len(EndMarker) \in Nat \ {0}
  BY DEF MarkersSampled, Markers
<1>3. PICK s \in Nat : \A k : k \in Occurrences(StartMarker, t) <=> k = s
  BY DEF Story
<1>4. \A k : k \in Occurrences(StartMarker, a) <=> k = s
  BY <1>2, <1>3, OccursAppend
<1>5. \A k : k \in Occurrences(EndMarker, a) <=>
               EndsIn(a, EndMarker) /\ k = Len(t) + 1 - Len(EndMarker)
  BY <1>2, OccursAppend DEF Story
<1>6. \A i \in 1 .. Len(a) : a[i] # EOG
  BY <1>1 DEF Story
<1>7. final = <<>> /\ Len(a) <= reasoning_budget
  BY <1>1 DEF Story
<1>8. CASE EndsIn(a, EndMarker)
  <2>0. Len(t) + 1 - Len(EndMarker) \in Nat
    BY <1>1, <1>2, <1>8 DEF EndsIn
  <2>1. PICK e \in Nat : e = Len(t) + 1 - Len(EndMarker)
    BY <2>0, Zenon
  <2>2. \A k : k \in Occurrences(EndMarker, a) <=> k = e
    BY <1>5, <1>8, <2>1
  <2>3. IsAt(t, StartMarker, s)
    BY <1>2, <1>3, OccursAt
  <2>4. s < e
    <3> SUFFICES ASSUME e <= s PROVE FALSE
      BY <2>1
    <3>0. s - e \in Nat
      BY <2>1
    <3>1. PICK k \in Nat : k = s - e
      BY <3>0, Zenon
    <3>2. k + Len(StartMarker) <= Len(EndMarker)
      BY <1>1, <1>2, <2>1, <2>3, <3>1 DEF IsAt
    <3>3. ASSUME NEW i \in 1 .. Len(StartMarker) PROVE EndMarker[k + i] = StartMarker[i]
      <4>1. t[s + i] = StartMarker[i] /\ s + i \in 1 .. Len(t)
        BY <1>1, <1>2, <2>3 DEF IsAt
      <4>2. a[s + i] = StartMarker[i]
        BY <1>1, <4>1
      <4>3. k + i \in 1 .. Len(EndMarker) /\ Len(a) - Len(EndMarker) + (k + i) = s + i
        BY <1>1, <1>2, <2>1, <3>1, <3>2
      <4>4. a[Len(a) - Len(EndMarker) + (k + i)] = EndMarker[k + i]
        BY <1>8, <4>3 DEF EndsIn
      <4> QED BY <4>2, <4>3, <4>4
    <3>4. IsAt(EndMarker, StartMarker, k)
      BY <3>2, <3>3 DEF IsAt
    <3> QED BY <1>2, <3>4, OccursAt DEF MarkersApart
  <2>5. Len(<<>>) = 0 /\ Len(a) = e + Len(EndMarker) + Len(<<>>) + 0
        /\ e + Len(EndMarker) <= reasoning_budget
    BY <1>1, <1>2, <1>7, <2>1
  <2>6. Placed(a, final, s, e, 0)
    BY <1>4, <1>7, <2>2, <2>4, <2>5 DEF Placed
  <2> HIDE DEF a
  <2> QED BY <1>6, <1>8, <2>6 DEF Story, a
<1>9. CASE ~EndsIn(a, EndMarker)
  <2> HIDE DEF a
  <2> QED BY <1>4, <1>5, <1>6, <1>7, <1>9 DEF Story, a
<1> QED BY <1>8, <1>9

\* The final text
LEMMA StoryStreams ==
  ASSUME MarkersSampled, Budgets, NEW t \in Seq(SampledTokens), NEW x \in SampledTokens,
         NEW final \in Seq(SampledTokens), Story("final", t, final), x # EOG,
         ~EndsIn(Append(t, x), StartMarker), ~EndsIn(Append(t, x), EndMarker)
  PROVE  Story("final", Append(t, x), Append(final, x))
<1> DEFINE a == Append(t, x)
           f == Append(final, x)
<1>1. /\ a \in Seq(SampledTokens) /\ Len(a) = Len(t) + 1 /\ Len(t) \in Nat
      /\ a[Len(t) + 1] = x /\ \A i \in 1 .. Len(t) : a[i] = t[i]
      /\ f \in Seq(SampledTokens) /\ Len(f) = Len(final) + 1 /\ Len(final) \in Nat
      /\ f[Len(final) + 1] = x /\ \A i \in 1 .. Len(final) : f[i] = final[i]
  OBVIOUS
<1>2. /\ StartMarker \in Seq(SampledTokens) /\ EndMarker \in Seq(SampledTokens)
      /\ StartMarker # <<>> /\ EndMarker # <<>> /\ Len(EndMarker) \in Nat
  BY DEF MarkersSampled, Markers
<1>3. PICK s, e : Placed(t, final, s, e, 0)
  BY DEF Story
<1>4. /\ \A k : k \in Occurrences(StartMarker, a) <=> k = s
      /\ \A k : k \in Occurrences(EndMarker, a) <=> k = e
  BY <1>2, <1>3, OccursAppend DEF Placed
<1>5. Len(a) = e + Len(EndMarker) + Len(f) + 0
  BY <1>1, <1>2, <1>3 DEF Placed
<1>6. ASSUME NEW i \in 1 .. Len(f) PROVE a[e + Len(EndMarker) + i] = f[i]
  <2>1. e \in Nat /\ Len(t) = e + Len(EndMarker) + Len(final)
    BY <1>1, <1>2, <1>3 DEF Placed
  <2>2. CASE i = Len(final) + 1
    BY <1>1, <2>1, <2>2
  <2>3. CASE i \in 1 .. Len(final)
    <3>1. e + Len(EndMarker) + i \in 1 .. Len(t) /\ t[e + Len(EndMarker) + i] = final[i]
      BY <1>1, <1>2, <1>3, <2>1, <2>3 DEF Placed
    <3>2. a[e + Len(EndMarker) + i] = t[e + Len(EndMarker) + i]
      BY <1>1, <3>1
    <3>3. f[i] = final[i]
      BY <1>1, <2>3
    <3> QED BY <3>1, <3>2, <3>3
  <2>4. i = Len(final) + 1 \/ i \in 1 .. Len(final)
    BY <1>1
  <2> QED BY <2>2, <2>3, <2>4
<1>7. Placed(a, f, s, e, 0)
  <2> HIDE DEF a, f
  <2> QED BY <1>3, <1>4, <1>5, <1>6 DEF Placed
<1>8. \A i \in 1 .. Len(a) : a[i] # EOG
  BY <1>1 DEF Story
<1> HIDE DEF a, f
<1> QED BY <1>7, <1>8 DEF Story, a, f

\* The end of the generation is in no marker: both were found among tokens that
\* did not end it.
LEMMA StoryEnds ==
  ASSUME MarkersSampled, Budgets, NEW t \in Seq(SampledTokens), EOG \in SampledTokens,
         NEW final \in Seq(SampledTokens), Story("final", t, final)
  PROVE  Story("done", Append(t, EOG), final)
<1> DEFINE a == Append(t, EOG)
<1>1. /\ a \in Seq(SampledTokens) /\ Len(a) = Len(t) + 1 /\ Len(t) \in Nat
      /\ a[Len(t) + 1] = EOG /\ \A i \in 1 .. Len(t) : a[i] = t[i]
      /\ Len(final) \in Nat
  OBVIOUS
<1>2. /\ StartMarker \in Seq(SampledTokens) /\ EndMarker \in Seq(SampledTokens)
      /\ StartMarker # <<>> /\ EndMarker # <<>>
      /\ Len(StartMarker) \in Nat \ {0} /\ Len(EndMarker) \in Nat \ {0}
  BY DEF MarkersSampled, Markers
<1>3. PICK s, e : Placed(t, final, s, e, 0)
  BY DEF Story
<1>4. ASSUME NEW marker \in {StartMarker, EndMarker}, NEW k, k \in Occurrences(marker, t)
      PROVE  ~EndsIn(a, marker)
  <2>1. k \in Nat /\ IsAt(t, marker, k)
    BY <1>2, <1>4, OccursAt
  <2>2. Len(marker) \in Nat \ {0} /\ k + Len(marker) \in 1 .. Len(t)
    BY <1>1, <1>2, <2>1 DEF IsAt
  <2>3. t[k + Len(marker)] # EOG
    BY <2>2 DEF Story
  <2>4. marker[Len(marker)] # EOG
    BY <2>1, <2>2, <2>3 DEF IsAt
  <2>5. EndsIn(a, marker) => a[Len(a)] = marker[Len(marker)]
    <3> SUFFICES ASSUME EndsIn(a, marker) PROVE a[Len(a)] = marker[Len(marker)]
      OBVIOUS
    <3>1. Len(marker) \in 1 .. Len(marker) /\ Len(a) - Len(marker) + Len(marker) = Len(a)
      BY <1>1, <2>2
    <3> QED BY <3>1 DEF EndsIn
  <2> QED BY <1>1, <2>4, <2>5
<1>5. ~EndsIn(a, StartMarker) /\ ~EndsIn(a, EndMarker)
  BY <1>3, <1>4 DEF Placed
<1>6. /\ \A k : k \in Occurrences(StartMarker, a) <=> k = s
      /\ \A k : k \in Occurrences(EndMarker, a) <=> k = e
  BY <1>2, <1>3, <1>5, OccursAppend DEF Placed
<1>7. Len(a) = e + Len(EndMarker) + Len(final) + 1
  BY <1>1, <1>2, <1>3 DEF Placed
<1>8. ASSUME NEW i \in 1 .. Len(final) PROVE a[e + Len(EndMarker) + i] = final[i]
  <2>1. e \in Nat /\ Len(t) = e + Len(EndMarker) + Len(final)
    BY <1>1, <1>2, <1>3 DEF Placed
  <2>2. e + Len(EndMarker) + i \in 1 .. Len(t) /\ t[e + Len(EndMarker) + i] = final[i]
    BY <1>1, <1>2, <1>3, <2>1 DEF Placed
  <2> QED BY <1>1, <2>2
<1>9. Placed(a, final, s, e, 1)
  <2> HIDE DEF a
  <2> QED BY <1>3, <1>6, <1>7, <1>8 DEF Placed
<1>10. a[Len(a)] = EOG
  BY <1>1
<1> HIDE DEF a
<1> QED BY <1>9, <1>10 DEF Story, a

\* See Told: what is to be shown of the locals.
LEMMA ToldBy ==
  ASSUME NEW m, NEW p, NEW tail \in Seq(SampledTokens), NEW r \in Nat,
         NEW pending \in Seq(SampledTokens),
         m.phase = CtlOf(p, Len(m.tokens), r, Len(m.final), tail),
         m.utf8 = Utf8Of(pending),
         m.tokens \in Seq(SampledTokens), m.final \in Seq(SampledTokens),
         m.deltas \in Seq(SampledTokens), Joined(m.deltas, pending) = m.final,
         TailOf(tail, m.tokens),
         p \in {"expect_reasoning_start", "reasoning"} => r = Len(m.tokens),
         Len(m.tokens) <= total_budget, Len(m.final) <= final_budget,
         Story(p, m.tokens, m.final)
  PROVE  Told(m)
BY Zenon DEF Told

\* A token more
Added(p, x) == Append(p, x)

\* What is appended at the end of a concatenation
LEMMA JoinedAppends ==
  ASSUME NEW U, NEW d \in Seq(U), NEW p \in Seq(U), NEW x \in U,
         NEW p1, p1 = Added(p, x), NEW f, f = Joined(d, p)
  PROVE  Joined(d, p1) = Added(f, x)
<1>1. d \o Append(p, x) = Append(d \o p, x)
  OBVIOUS
<1> QED BY <1>1 DEF Joined, Added

\* See JoinedAppends.
LEMMA JoinedTwice ==
  ASSUME NEW U, NEW d \in Seq(U), NEW e \in Seq(U), NEW q \in Seq(U),
         NEW de, de = Joined(d, e), NEW eq, eq = Joined(e, q)
  PROVE  de \in Seq(U) /\ Joined(de, q) = Joined(d, eq)
<1>1. (d \o e) \o q = d \o (e \o q) /\ d \o e \in Seq(U)
  BY ConcatAssociative
<1> QED BY <1>1 DEF Joined

\* What the accumulator completed goes out, and the text is f1 with the rest.
Streamed(U, r, d, f1) ==
  \E q \in Seq(U), dd \in Seq(U) :
     r.utf8 = Utf8Of(q) /\ dd = Joined(d, r.completed) /\ Joined(dd, q) = f1

\* A token of the final text is streamed or still to be.
LEMMA Streams ==
  ASSUME NEW U, NEW p \in Seq(U), NEW x \in U, NEW u, u = Utf8Of(p),
         NEW r, r = Utf8Append(u, x), r.utf8.valid,
         NEW d \in Seq(U), NEW f, f = Joined(d, p), NEW f1, f1 = Append(f, x)
  PROVE  Streamed(U, r, d, f1)
<1>1. PICK p1 : p1 = Append(p, x)
  OBVIOUS
<1>2. PICK q \in Seq(U) : r.utf8 = Utf8Of(q) /\ r.completed \in Seq(U) /\ Joined(r.completed, q) = p1
  BY ONLY p \in Seq(U), x \in U, u = Utf8Of(p), r = Utf8Append(u, x), r.utf8.valid,
     <1>1, Utf8Appends, SMTT(30)
<1>3. PICK done \in Seq(U) : done = r.completed
  BY <1>2, Zenon
<1>4. PICK dd : dd = Joined(d, done)
  OBVIOUS
<1>5. p1 = Joined(done, q)
  BY <1>2, <1>3
<1>6. dd \in Seq(U) /\ Joined(dd, q) = Joined(d, p1)
  BY ONLY d \in Seq(U), done \in Seq(U), q \in Seq(U), <1>4, <1>5, JoinedTwice
<1>7. Joined(d, p1) = Added(f, x)
  <2>1. p1 = Added(p, x)
    BY <1>1 DEF Added
  <2> QED BY ONLY d \in Seq(U), p \in Seq(U), x \in U, <2>1, f = Joined(d, p), JoinedAppends
<1>8. Joined(dd, q) = f1
  BY <1>6, <1>7 DEF Added
<1> QED BY <1>2, <1>3, <1>4, <1>6, <1>8, Zenon DEF Streamed

\* From locals m to locals n with a token that nothing refuses, where st is what
\* the controller answers and ap what the accumulator answers.
Accepted(m, n, x, before, step, appended) ==
  /\ before = m.phase.phase
  /\ step = Consume(m.phase, x,
               GrammarAcceptanceProven(x = EOG, before = "final"))
  /\ step.action # "failed"
  /\ appended = IF before = "final" /\ x # EOG THEN Utf8Append(m.utf8, x)
                ELSE [utf8 |-> m.utf8, completed |-> <<>>]
  /\ appended.utf8.valid
  /\ n.phase = step.controller /\ n.utf8 = appended.utf8 /\ n.tokens = Append(m.tokens, x)
  /\ n.final = IF before = "final" /\ x # EOG THEN Append(m.final, x) ELSE m.final
  /\ n.deltas = m.deltas \o appended.completed

\* A token the controller and the accumulator accept continues the story.
LEMMA ToldTurns ==
  ASSUME Budgets, MarkersSampled, MarkersApart, NEW m, Told(m), NEW x \in SampledTokens,
         NEW before, NEW step, NEW appended, NEW n, Accepted(m, n, x, before, step, appended)
  PROVE  Told(n)
<1>a. /\ before = m.phase.phase
      /\ step = Consume(m.phase, x,
                   GrammarAcceptanceProven(x = EOG, before = "final"))
      /\ step.action # "failed"
  BY DEF Accepted
<1>b. /\ appended = IF before = "final" /\ x # EOG THEN Utf8Append(m.utf8, x)
                    ELSE [utf8 |-> m.utf8, completed |-> <<>>]
      /\ appended.utf8.valid
  BY DEF Accepted
<1>c. /\ n.phase = step.controller /\ n.utf8 = appended.utf8 /\ n.tokens = Append(m.tokens, x)
      /\ n.final = IF before = "final" /\ x # EOG THEN Append(m.final, x) ELSE m.final
      /\ n.deltas = m.deltas \o appended.completed
  BY DEF Accepted
<1> USE <1>a, <1>b, <1>c
<1>0. PICK p : \E tail \in Seq(SampledTokens), r \in Nat, pending \in Seq(SampledTokens) :
        /\ m.phase = CtlOf(p, Len(m.tokens), r, Len(m.final), tail)
        /\ m.utf8 = Utf8Of(pending)
        /\ m.tokens \in Seq(SampledTokens) /\ m.final \in Seq(SampledTokens)
        /\ m.deltas \in Seq(SampledTokens) /\ Joined(m.deltas, pending) = m.final
        /\ TailOf(tail, m.tokens)
        /\ p \in {"expect_reasoning_start", "reasoning"} => r = Len(m.tokens)
        /\ Len(m.tokens) <= total_budget /\ Len(m.final) <= final_budget
        /\ Story(p, m.tokens, m.final)
  BY DEF Told
<1>1. PICK tail \in Seq(SampledTokens), r \in Nat, pending \in Seq(SampledTokens) :
        /\ m.phase = CtlOf(p, Len(m.tokens), r, Len(m.final), tail)
        /\ m.utf8 = Utf8Of(pending)
        /\ m.tokens \in Seq(SampledTokens) /\ m.final \in Seq(SampledTokens)
        /\ m.deltas \in Seq(SampledTokens) /\ Joined(m.deltas, pending) = m.final
        /\ TailOf(tail, m.tokens)
        /\ p \in {"expect_reasoning_start", "reasoning"} => r = Len(m.tokens)
        /\ Len(m.tokens) <= total_budget /\ Len(m.final) <= final_budget
        /\ Story(p, m.tokens, m.final)
  BY <1>0
<1>2. PICK t \in Seq(SampledTokens) : t = m.tokens
  BY <1>1, Zenon
<1>3. PICK f \in Seq(SampledTokens) : f = m.final
  BY <1>1, Zenon
<1>4. PICK c : c = m.phase
  OBVIOUS
<1>5. before = p
  <2>1. c = CtlOf(p, Len(t), r, Len(f), tail)
    BY <1>1, <1>2, <1>3, <1>4
  <2> QED BY <1>4, <2>1, CtlFields
<1>6. PICK proven \in BOOLEAN : proven = GrammarAcceptanceProven(x = EOG, before = "final")
  BY Zenon DEF GrammarAcceptanceProven
<1>7. p \in {"expect_reasoning_start", "reasoning", "final", "done"}
  BY <1>1 DEF Story
<1>8. PICK after : after = Remember(tail, x)
  OBVIOUS
<1>9. PICK a \in Seq(SampledTokens) : a = Append(t, x)
  <2>1. Append(t, x) \in Seq(SampledTokens)
    OBVIOUS
  <2> QED BY <2>1, Zenon
<1>10. /\ Len(a) = Len(t) + 1 /\ Len(t) \in Nat /\ Len(f) \in Nat
       /\ Len(t) <= total_budget /\ Len(f) <= final_budget /\ n.tokens = a
  BY <1>1, <1>2, <1>3, <1>9
<1>11. after \in Seq(SampledTokens) /\ TailOf(after, a)
  BY <1>1, <1>2, <1>8, <1>9, TailRemembers DEF MarkersSampled
<1>12. /\ IsSuffix(StartMarker, after) <=> EndsIn(a, StartMarker)
       /\ IsSuffix(EndMarker, after) <=> EndsIn(a, EndMarker)
  BY <1>11, TailEnds DEF MarkersSampled
<1>13. /\ p # "done" /\ Len(a) <= total_budget
       /\ \/ /\ x = EOG /\ p = "final"
             /\ step.controller = CtlOf("done", Len(a), r, Len(f), after)
          \/ /\ x # EOG /\ p = "final" /\ Len(f) + 1 <= final_budget
             /\ ~EndsIn(a, StartMarker) /\ ~EndsIn(a, EndMarker)
             /\ step.controller = CtlOf("final", Len(a), r, Len(f) + 1, after)
          \/ /\ x # EOG /\ p = "expect_reasoning_start" /\ r + 1 <= reasoning_budget
             /\ ~EndsIn(a, EndMarker)
             /\ step.controller = CtlOf(IF EndsIn(a, StartMarker) THEN "reasoning" ELSE p,
                                        Len(a), r + 1, Len(f), after)
          \/ /\ x # EOG /\ p = "reasoning" /\ r + 1 <= reasoning_budget
             /\ ~EndsIn(a, StartMarker)
             /\ step.controller = CtlOf(IF EndsIn(a, EndMarker) THEN "final" ELSE p,
                                        Len(a), r + 1, Len(f), after)
  <2>1. step = Consume(c, x, proven) /\ c = CtlOf(p, Len(t), r, Len(f), tail)
    BY <1>1, <1>2, <1>3, <1>4, <1>6
  <2> QED BY <1>7, <1>8, <1>10, <1>12, <2>1, Consumes
<1>14. CASE before = "final" /\ x # EOG
  <2>1. PICK u, g : u = Utf8Of(pending) /\ g = Utf8Append(u, x)
    BY Zenon
  <2>2. appended = g /\ g.utf8.valid
    BY <1>1, <1>14, <2>1
  <2>3. PICK d \in Seq(SampledTokens) : d = m.deltas
    BY <1>1, Zenon
  <2>4. PICK f1 \in Seq(SampledTokens) : f1 = Append(f, x)
    <3>1. Append(f, x) \in Seq(SampledTokens)
      OBVIOUS
    <3> QED BY <3>1, Zenon
  <2>5. Len(f1) = Len(f) + 1 /\ n.final = f1
    BY <1>3, <1>14, <2>4
  <2>6. PICK q \in Seq(SampledTokens), dd \in Seq(SampledTokens) :
          g.utf8 = Utf8Of(q) /\ dd = Joined(d, g.completed) /\ Joined(dd, q) = f1
    <3>1. u = Utf8Of(pending) /\ g = Utf8Append(u, x) /\ g.utf8.valid
      BY <2>1, <2>2
    <3>2. f = Joined(d, pending)
      BY <1>1, <1>3, <2>3
    <3>3. Streamed(SampledTokens, g, d, f1)
      BY ONLY pending \in Seq(SampledTokens), x \in SampledTokens,
         d \in Seq(SampledTokens), <2>4, <3>1, <3>2, Streams
    <3> QED BY <3>3, Zenon DEF Streamed
  <2>7. n.deltas = dd /\ n.utf8 = Utf8Of(q) /\ Joined(dd, q) = f1
    BY <2>2, <2>3, <2>6 DEF Joined
  <2>9. /\ step.controller = CtlOf("final", Len(a), r, Len(f) + 1, after)
        /\ Len(f) + 1 <= final_budget /\ Len(a) <= total_budget /\ p = "final"
        /\ ~EndsIn(a, StartMarker) /\ ~EndsIn(a, EndMarker)
    BY <1>5, <1>13, <1>14
  <2>10. Story("final", a, f1)
    BY <1>1, <1>2, <1>3, <1>9, <1>14, <2>4, <2>9, StoryStreams
  <2>11. /\ n.phase = CtlOf("final", Len(n.tokens), r, Len(n.final), after)
         /\ n.utf8 = Utf8Of(q) /\ n.tokens \in Seq(SampledTokens)
         /\ n.final \in Seq(SampledTokens) /\ n.deltas \in Seq(SampledTokens)
         /\ Joined(n.deltas, q) = n.final /\ TailOf(after, n.tokens)
         /\ Len(n.tokens) <= total_budget /\ Len(n.final) <= final_budget
         /\ Story("final", n.tokens, n.final)
    BY <1>10, <1>11, <2>5, <2>7, <2>9, <2>10
  <2> QED BY <1>11, <2>11, ToldBy
<1>15. CASE ~(before = "final" /\ x # EOG)
  <2>1. n.final = f /\ n.utf8 = Utf8Of(pending) /\ appended.completed = <<>>
    BY <1>1, <1>3, <1>15
  <2>2. PICK d \in Seq(SampledTokens) : d = m.deltas
    BY <1>1, Zenon
  <2>3. n.deltas = d
    <3>1. d \o <<>> = d
      OBVIOUS
    <3> QED BY <2>1, <2>2, <3>1
  <2>4. n.deltas \in Seq(SampledTokens) /\ Joined(n.deltas, pending) = n.final
    BY <1>1, <1>3, <2>1, <2>2, <2>3
  <2>5. ASSUME NEW q, NEW r1 \in Nat, step.controller = CtlOf(q, Len(a), r1, Len(f), after),
               q \in {"expect_reasoning_start", "reasoning"} => r1 = Len(a),
               Len(a) <= total_budget, Story(q, a, f)
        PROVE  Told(n)
    <3>1. /\ n.phase = CtlOf(q, Len(n.tokens), r1, Len(n.final), after)
          /\ n.tokens \in Seq(SampledTokens) /\ n.final \in Seq(SampledTokens)
          /\ TailOf(after, n.tokens)
          /\ q \in {"expect_reasoning_start", "reasoning"} => r1 = Len(n.tokens)
          /\ Len(n.tokens) <= total_budget /\ Len(n.final) <= final_budget
          /\ Story(q, n.tokens, n.final)
      BY <1>10, <1>11, <2>1, <2>5
    <3> QED BY <1>1, <1>11, <2>1, <2>4, <2>5, <3>1, ToldBy
  <2>6. CASE p = "final"
    <3>1. x = EOG /\ step.controller = CtlOf("done", Len(a), r, Len(f), after)
          /\ Len(a) <= total_budget
      BY <1>5, <1>13, <1>15, <2>6
    <3>2. Story("done", a, f)
      BY <1>1, <1>2, <1>3, <1>9, <2>6, <3>1, StoryEnds
    <3> QED BY <2>5, <3>1, <3>2
  <2>7. CASE p = "expect_reasoning_start"
    <3>1. PICK q : q = IF EndsIn(a, StartMarker) THEN "reasoning" ELSE "expect_reasoning_start"
      OBVIOUS
    <3>2. /\ x # EOG /\ ~EndsIn(a, EndMarker) /\ r = Len(t) /\ Len(t) + 1 <= reasoning_budget
          /\ step.controller = CtlOf(q, Len(a), r + 1, Len(f), after) /\ Len(a) <= total_budget
      BY <1>1, <1>2, <1>13, <2>7, <3>1
    <3>3. Story(q, a, f)
      BY <1>1, <1>2, <1>3, <1>9, <2>7, <3>1, <3>2, StoryStarts
    <3>4. r + 1 \in Nat /\ r + 1 = Len(a)
      BY <1>10, <3>2
    <3> QED BY <2>5, <3>2, <3>3, <3>4
  <2>8. CASE p = "reasoning"
    <3>1. PICK q : q = IF EndsIn(a, EndMarker) THEN "final" ELSE "reasoning"
      OBVIOUS
    <3>2. /\ x # EOG /\ ~EndsIn(a, StartMarker) /\ r = Len(t) /\ Len(t) + 1 <= reasoning_budget
          /\ step.controller = CtlOf(q, Len(a), r + 1, Len(f), after) /\ Len(a) <= total_budget
      BY <1>1, <1>2, <1>13, <2>8, <3>1
    <3>3. Story(q, a, f)
      BY <1>1, <1>2, <1>3, <1>9, <2>8, <3>1, <3>2, StoryTurns
    <3>4. r + 1 \in Nat /\ r + 1 = Len(a)
      BY <1>10, <3>2
    <3> QED BY <2>5, <3>2, <3>3, <3>4
  <2> QED BY <1>7, <1>13, <2>6, <2>7, <2>8
<1> QED BY <1>14, <1>15

\* The locals that the story is about are kept.
LEMMA ToldKept ==
  ASSUME NEW m, NEW n, Told(m), n.phase = m.phase, n.utf8 = m.utf8, n.tokens = m.tokens,
         n.final = m.final, n.deltas = m.deltas
  PROVE  Told(n)
BY DEF Told

\* The locals between two jobs
LEMMA ToldBetween ==
  ASSUME Budgets, MarkersSampled, NEW p,
         NEW m, m = MainAt(p, 0, NewController, NewUtf8, <<>>, <<>>, <<>>)
  PROVE  Told(m) /\ m.pc = p /\ m.phase.phase = "expect_reasoning_start"
<1>1. /\ m.pc = p /\ m.phase = NewController /\ m.utf8 = NewUtf8
      /\ m.tokens = <<>> /\ m.final = <<>> /\ m.deltas = <<>>
  BY MainFields
<1>2. PICK z \in Seq(SampledTokens) : z = <<>>
  <2>1. <<>> \in Seq(SampledTokens)
    OBVIOUS
  <2> QED BY <2>1, Zenon
<1>3. Len(z) = 0 /\ Joined(z, z) = z
  BY <1>2 DEF Joined
<1>4. TailOf(z, z)
  BY <1>3 DEF TailOf, MaxOf, MarkersSampled, Markers
<1>5. ASSUME NEW marker \in {StartMarker, EndMarker}, NEW k
      PROVE  k \notin Occurrences(marker, z)
  <2>1. marker \in Seq(SampledTokens) /\ Len(marker) \in Nat \ {0}
    BY DEF MarkersSampled, Markers
  <2>2. ASSUME k \in Nat, IsAt(z, marker, k) PROVE FALSE
    BY <1>3, <2>1, <2>2 DEF IsAt
  <2> QED BY <2>1, <2>2, OccursAt
<1>6. Story("expect_reasoning_start", z, z)
  BY <1>2, <1>3, <1>5 DEF Story, Budgets
<1>7. /\ m.phase = CtlOf("expect_reasoning_start", Len(z), 0, Len(z), z)
      /\ m.utf8 = Utf8Of(z)
  <2>1. NewController = CtlOf("expect_reasoning_start", 0, 0, 0, z)
    BY <1>2 DEF NewController, CtlOf
  <2>2. NewUtf8 = Utf8Of(z)
    BY <1>2, Zenon DEF NewUtf8, Utf8Of
  <2>3. CtlOf("expect_reasoning_start", 0, 0, 0, z)
        = CtlOf("expect_reasoning_start", Len(z), 0, Len(z), z)
    BY <1>3
  <2>4. m.phase = NewController /\ m.utf8 = NewUtf8
    BY <1>1
  <2>5. m.phase = CtlOf("expect_reasoning_start", Len(z), 0, Len(z), z)
    BY <2>1, <2>3, <2>4
  <2> QED BY <2>2, <2>4, <2>5, Zenon
<1>8. Told(m)
  <2>1. m.tokens = z /\ m.final = z /\ m.deltas = z
    BY <1>1, <1>2
  <2>2. /\ m.phase = CtlOf("expect_reasoning_start", Len(m.tokens), 0, Len(m.final), z)
        /\ Joined(m.deltas, z) = m.final /\ TailOf(z, m.tokens)
        /\ Story("expect_reasoning_start", m.tokens, m.final)
    BY ONLY <1>3, <1>4, <1>6, <1>7, <2>1, Zenon
  <2>4. /\ m.tokens \in Seq(SampledTokens) /\ m.final \in Seq(SampledTokens)
        /\ m.deltas \in Seq(SampledTokens)
        /\ 0 = Len(m.tokens) /\ Len(m.tokens) <= total_budget /\ Len(m.final) <= final_budget
    BY ONLY z \in Seq(SampledTokens), <1>3, <2>1, Budgets DEF Budgets
  <2>3. 0 \in Nat
    OBVIOUS
  <2> QED BY <1>7, <2>2, <2>3, <2>4, ToldBy
<1>9. m.phase.phase = "expect_reasoning_start"
  BY <1>7, CtlFields
<1> QED BY <1>1, <1>8, <1>9

\* A generation reported complete has ended, and every byte is out.
Closed(m, answer) ==
  m.pc = "clear" /\ answer = "completed" =>
     m.phase.phase = "done" /\ Utf8Finish(m.utf8)

\* The inductive invariant of whole answers.
WholeInv == CancelInv /\ Told(main) /\ Closed(main, answered[control.active])

\* A step that leaves the locals alone and answers nobody
LEMMA WholeKeeps ==
  ASSUME Told(main), Closed(main, answered[control.active]), UNCHANGED answered,
         main'.phase = main.phase, main'.utf8 = main.utf8, main'.tokens = main.tokens,
         main'.final = main.final, main'.deltas = main.deltas,
         main'.pc = "clear" => main.pc = "clear" /\ control'.active = control.active
  PROVE  Told(main)' /\ Closed(main, answered[control.active])'
<1>1. Told(main')
  BY ToldKept
<1> QED BY <1>1 DEF Closed

\* The main thread goes on with its locals.
LEMMA WholeGoes ==
  ASSUME MainShape(main), Told(main), NEW p, p # "clear", MainGoto(p)
  PROVE  Told(main)' /\ Closed(main, answered[control.active])'
<1>1. main' = MainAt(p, main.prompted, main.phase, main.utf8, main.tokens, main.final, main.deltas)
  BY MainMoves DEF MainGoto
<1>2. /\ main'.pc = p /\ main'.phase = main.phase /\ main'.utf8 = main.utf8
      /\ main'.tokens = main.tokens /\ main'.final = main.final /\ main'.deltas = main.deltas
  BY <1>1, MainFields
<1>3. Told(main')
  BY <1>2, ToldKept
<1> QED BY <1>2, <1>3 DEF Closed

\* A terminal frame is out.
LEMMA WholeAnswers ==
  ASSUME Budgets, MarkersSampled, MainShape(main), Told(main), AnswersShape,
         control.active \in Jobs, UNCHANGED control,
         NEW type \in {"failed", "cancelled", "completed"}, Answer(type),
         type = "completed" => main.phase.phase = "done" /\ Utf8Finish(main.utf8)
  PROVE  Told(main)' /\ Closed(main, answered[control.active])'
<1>1. answered'[control'.active] = type
  BY DEF Answer, AnswersShape
<1>2. CASE type = "completed"
  <2>1. main' = MainAt("clear", main.prompted, main.phase, main.utf8, main.tokens, main.final,
                       main.deltas)
    BY <1>2, MainMoves DEF Answer
  <2>2. /\ main'.phase = main.phase /\ main'.utf8 = main.utf8
        /\ main'.tokens = main.tokens /\ main'.final = main.final /\ main'.deltas = main.deltas
    BY <2>1, MainFields
  <2>3. Told(main')
    BY <2>2, ToldKept
  <2> QED BY <1>2, <2>2, <2>3 DEF Closed
<1>3. CASE type # "completed"
  <2>1. main' = MainAt("clear", 0, NewController, NewUtf8, <<>>, <<>>, <<>>)
    BY <1>3 DEF Answer, Between, MainAt
  <2>2. Told(main')
    BY <2>1, ToldBetween
  <2> QED BY <1>1, <1>3, <2>2 DEF Closed
<1> QED BY <1>2, <1>3

\* A token of the loop
LEMMA WholeTurns ==
  ASSUME Budgets, MarkersSampled, MarkersApart, MainShape(main), Told(main), AnswersShape,
         control.active \in Jobs, UNCHANGED control, main.pc = "generate",
         NEW token \in SampledTokens, Turn(token)
  PROVE  Told(main)' /\ Closed(main, answered[control.active])'
<1> DEFINE before == main.phase.phase
           step == Consume(main.phase, token,
                     GrammarAcceptanceProven(token = EOG, before = "final"))
           streamed == before = "final" /\ token # EOG
           appended == IF streamed THEN Utf8Append(main.utf8, token)
                       ELSE [utf8 |-> main.utf8, completed |-> <<>>]
           p == IF step.action = "completed" THEN "finish" ELSE "generate"
           final == IF streamed THEN Append(main.final, token) ELSE main.final
           At == MainAt(p, main.prompted, step.controller, appended.utf8,
                        Append(main.tokens, token), final, main.deltas \o appended.completed)
<1>1. CASE Answer("failed")
  BY <1>1, WholeAnswers
<1>2. CASE appended.utf8.valid /\ step.action # "failed" /\ main' = At
  <2>1. PICK b, st, ap, f, d, t : /\ b = before /\ st = step /\ ap = appended /\ f = final
                                  /\ d = main.deltas \o appended.completed
                                  /\ t = Append(main.tokens, token)
    BY Zenon
  <2>2. PICK q : q = p
    OBVIOUS
  <2>3. main' = MainAt(q, main.prompted, st.controller, ap.utf8, t, f, d)
    BY <1>2, <2>1, <2>2
  <2>4. PICK n : n = main'
    OBVIOUS
  <2>5. PICK m : m = main
    OBVIOUS
  <2>6. /\ b = m.phase.phase
        /\ st = Consume(m.phase, token,
                  GrammarAcceptanceProven(token = EOG, b = "final"))
    BY <2>1, <2>5
  <2>7. st.action # "failed" /\ ap.utf8.valid
    BY <1>2, <2>1
  <2>8. ap = IF b = "final" /\ token # EOG THEN Utf8Append(m.utf8, token)
             ELSE [utf8 |-> m.utf8, completed |-> <<>>]
    BY <2>1, <2>5
  <2>9. /\ t = Append(m.tokens, token) /\ d = m.deltas \o ap.completed
        /\ f = IF b = "final" /\ token # EOG THEN Append(m.final, token) ELSE m.final
    BY <2>1, <2>5
  <2>10. q # "clear"
    BY <2>2
  <2>11. Told(m)
    BY <2>5
  <2> HIDE DEF before, step, streamed, appended, p, final, At
  <2>12. /\ n.pc = q /\ n.phase = st.controller /\ n.utf8 = ap.utf8
         /\ n.tokens = t /\ n.final = f /\ n.deltas = d
    BY ONLY <2>3, <2>4, MainFields
  <2>13. Told(n)
    <3>1. /\ n.phase = st.controller /\ n.utf8 = ap.utf8 /\ n.tokens = Append(m.tokens, token)
          /\ n.final = IF b = "final" /\ token # EOG THEN Append(m.final, token) ELSE m.final
          /\ n.deltas = m.deltas \o ap.completed
      BY ONLY <2>9, <2>12
    <3>2. Accepted(m, n, token, b, st, ap)
      BY ONLY <2>6, <2>7, <2>8, <3>1 DEF Accepted
    <3> QED BY ONLY Budgets, MarkersSampled, MarkersApart, token \in SampledTokens,
               <2>11, <3>2, ToldTurns
  <2>14. main'.pc # "clear" /\ Told(main')
    BY ONLY <2>4, <2>10, <2>12, <2>13
  <2> QED BY <2>14 DEF Closed
<1>3. Answer("failed") \/ (appended.utf8.valid /\ step.action # "failed" /\ main' = At)
  BY TurnSteps
<1> HIDE DEF step, appended, At
<1> QED BY <1>1, <1>2, <1>3

\* A step of generate()
LEMMA WholeGenerates ==
  ASSUME Budgets, MarkersSampled, MarkersApart, WholeInv,
         \/ SetupFails \/ PromptBatch \/ PromptDone
         \/ GenerateToken \/ LoopEnds \/ Finish
  PROVE  Told(main)' /\ Closed(main, answered[control.active])'
<1>1. /\ UNCHANGED <<control, commandReader, asks>>
      /\ main.pc \in Runs
  BY GenerateSteps DEF WholeInv, CancelInv, NativeShape
<1>2. MainShape(main) /\ Told(main) /\ AnswersShape
  BY DEF WholeInv, CancelInv, NativeShape
<1>3. control.active \in Jobs
  BY <1>1 DEF WholeInv, CancelInv, NativeShape, ControlShape, MainHolds, Runs, MainRuns
<1>4. ASSUME NEW type \in {"failed", "cancelled"}, Answer(type)
      PROVE  Told(main)' /\ Closed(main, answered[control.active])'
  BY <1>1, <1>2, <1>3, <1>4, WholeAnswers
<1>5. CASE SetupFails
  BY <1>4, <1>5 DEF SetupFails
<1>6. CASE PromptBatch
  <2>1. main.pc = "prompt"
    BY <1>6 DEF PromptBatch
  <2>2. \/ Answer("cancelled") \/ Answer("failed")
        \/ main' = [main EXCEPT !.prompted = @ + 1] /\ UNCHANGED answered
    BY <1>6 DEF PromptBatch
  <2>3. ASSUME main' = [main EXCEPT !.prompted = @ + 1], UNCHANGED answered
        PROVE  Told(main)' /\ Closed(main, answered[control.active])'
    <3>1. PICK pr, ph, u, t, f, d : main = MainAt("prompt", pr, ph, u, t, f, d)
      BY <1>2, <2>1 DEF MainShape
    <3>2. main' = MainAt("prompt", pr + 1, ph, u, t, f, d)
      BY <3>1, <2>3 DEF MainAt
    <3>3. /\ main.phase = ph /\ main.utf8 = u /\ main.tokens = t /\ main.final = f
          /\ main.deltas = d
      BY <3>1, MainFields
    <3>4. /\ main'.phase = ph /\ main'.utf8 = u /\ main'.tokens = t /\ main'.final = f
          /\ main'.deltas = d /\ main'.pc = "prompt"
      BY <3>2, MainFields
    <3>5. Told(main')
      BY <1>2, <3>3, <3>4, ToldKept
    <3> QED BY <3>4, <3>5 DEF Closed
  <2> QED BY <1>4, <2>2, <2>3
<1>7. CASE PromptDone
  BY <1>2, <1>7, WholeGoes DEF PromptDone
<1>8. CASE GenerateToken
  <2>1. main.pc = "generate"
    BY <1>8 DEF GenerateToken
  <2>2. \/ Answer("cancelled") \/ Answer("failed")
        \/ \E token \in SampledTokens : Turn(token)
    BY <1>8 DEF GenerateToken
  <2>3. ASSUME NEW token \in SampledTokens, Turn(token)
        PROVE  Told(main)' /\ Closed(main, answered[control.active])'
    BY <1>1, <1>2, <1>3, <2>1, <2>3, WholeTurns
  <2> QED BY <1>4, <2>2, <2>3
<1>9. CASE LoopEnds
  BY <1>2, <1>9, WholeGoes DEF LoopEnds
<1>10. CASE Finish
  <2>1. CASE main.phase.phase = "done" /\ Utf8Finish(main.utf8)
    <3>1. Answer("completed")
      BY <1>10, <2>1 DEF Finish
    <3> QED BY <1>1, <1>2, <1>3, <2>1, <3>1, WholeAnswers
  <2>2. CASE ~(main.phase.phase = "done" /\ Utf8Finish(main.utf8))
    <3>1. Answer("failed")
      BY <1>10, <2>2 DEF Finish
    <3> QED BY <1>4, <3>1
  <2> QED BY <2>1, <2>2
<1> QED BY <1>5, <1>6, <1>7, <1>8, <1>9, <1>10

\* A step of the main thread between two jobs
LEMMA WholeWaits ==
  ASSUME Budgets, MarkersSampled, WholeInv,
         \/ MainTest \/ MainPredicate \/ MainSleep \/ MainTake
         \/ MainJoin \/ Clear \/ SpuriousWakeup
  PROVE  Told(main)' /\ Closed(main, answered[control.active])'
<1>1. MainShape(main) /\ Told(main)
  BY DEF WholeInv, CancelInv, NativeShape
<1>2. CASE Clear
  <2>1. main' = MainAt("test", 0, NewController, NewUtf8, <<>>, <<>>, <<>>)
    BY <1>2 DEF Clear, Between, MainAt
  <2>2. Told(main') /\ main'.pc = "test"
    BY <2>1, ToldBetween
  <2> QED BY <2>2 DEF Closed
<1>3. CASE ~Clear
  <2>1. PICK p : p # "clear" /\ MainGoto(p)
    <3>1. CASE MainTest
      BY <3>1 DEF MainTest
    <3>2. CASE MainPredicate
      BY <3>2 DEF MainPredicate
    <3> QED BY <1>3, <3>1, <3>2 DEF MainSleep, MainTake, MainJoin,
                 SpuriousWakeup
  <2> QED BY <1>1, <2>1, WholeGoes
<1> QED BY <1>2, <1>3

\* The reader and the registry touch no local of the main thread, nor the job it
\* runs.
LEMMA ActiveStays ==
  ASSUME NEW c, ControlShape(c), NEW v, NEW b \in BOOLEAN
  PROVE  /\ [c EXCEPT !.cancel = b].active = c.active
         /\ [c EXCEPT !.shutdown = b].active = c.active
         /\ [c EXCEPT !.pending = v].active = c.active
         /\ \A w : [c EXCEPT !.jobs = v, !.sent = w].active = c.active
<1>1. PICK j, p, a, k, sh, s : c = ControlOf(j, p, a, k, sh, s)
  BY DEF ControlShape
<1> QED BY <1>1 DEF ControlOf

\* See ActiveStays.
LEMMA WholeReads ==
  ASSUME WholeInv, ReaderStep \/ EntryExpires
  PROVE  Told(main)' /\ Closed(main, answered[control.active])'
<1>1. ControlShape(control) /\ MainShape(main) /\ Told(main)
      /\ Closed(main, answered[control.active])
  BY DEF WholeInv, CancelInv, NativeShape
<1>2. UNCHANGED answered /\ (main' = main \/ main' = Notified(main))
  BY DEF ReaderStep, ReadGenerate, ReadCancel, ReadShutdown,
         ShutdownCancels, ShutdownNotifies, EntryExpires
<1>3. control'.active = control.active
  <2>1. CASE EntryExpires
    BY <1>1, <2>1, ActiveStays DEF EntryExpires
  <2>2. CASE \E job \in Jobs : ReadGenerate(job)
    BY <1>1, <2>2, ActiveStays DEF ReadGenerate
  <2>3. ASSUME NEW job \in Jobs, ReadCancel(job) PROVE control'.active = control.active
    <3>1. PICK b \in BOOLEAN : b = TRUE
      BY Zenon
    <3>2. PICK v : v = Add(control.pending, job, asks.count + 1)
      OBVIOUS
    <3>3. CASE job = control.active
      <4>1. control' = [control EXCEPT !.cancel = b]
        BY <2>3, <3>1, <3>3 DEF ReadCancel
      <4> QED BY <1>1, <4>1, ActiveStays
    <3>4. CASE job # control.active
      <4>1. control' = [control EXCEPT !.pending = v]
        BY <2>3, <3>2, <3>4 DEF ReadCancel
      <4> QED BY <1>1, <4>1, ActiveStays
    <3> QED BY <3>3, <3>4
  <2>4. CASE ReadShutdown \/ ShutdownCancels
    <3>1. PICK b \in BOOLEAN : b = TRUE
      BY Zenon
    <3>2. \/ control' = [control EXCEPT !.cancel = b]
          \/ control' = [control EXCEPT !.shutdown = b]
      BY <2>4, <3>1 DEF ReadShutdown, ShutdownCancels
    <3> QED BY <1>1, <3>2, ActiveStays
  <2>5. CASE ShutdownNotifies
    BY <2>5 DEF ShutdownNotifies
  <2> QED BY <2>1, <2>2, <2>3, <2>4, <2>5 DEF ReaderStep
<1>4. CASE main' = main
  BY <1>1, <1>2, <1>3, <1>4, WholeKeeps
<1>5. CASE main' = Notified(main) /\ main' # main
  <2>1. MainGoto("predicate")
    BY <1>5 DEF Notified, MainGoto
  <2> QED BY <1>1, <2>1, WholeGoes
<1> QED BY <1>2, <1>4, <1>5

\* The inductive invariant of whole answers
LEMMA WholeStep ==
  ASSUME KeysNamed, CapacityNat, Budgets, MarkersSampled, MarkersApart,
         WholeInv, [NativeNext]_processVars
  PROVE  WholeInv'
<1>1. CancelInv'
  BY CancelStep DEF WholeInv
<1>2. CASE MainStep \/ SpuriousWakeup
  <2>1. Told(main)' /\ Closed(main, answered[control.active])'
    BY <1>2, WholeGenerates, WholeWaits DEF MainStep
  <2> QED BY <1>1, <2>1 DEF WholeInv
<1>3. CASE ReaderStep \/ EntryExpires
  BY <1>1, <1>3, WholeReads DEF WholeInv
<1>4. CASE UNCHANGED processVars
  <2>1. UNCHANGED <<control, commandReader, main, answered, asks>>
    BY <1>4 DEF processVars
  <2>2. Told(main') /\ Closed(main', answered'[control'.active])
    BY <2>1 DEF WholeInv
  <2> QED BY <1>1, <2>2 DEF WholeInv
<1> QED BY <1>2, <1>3, <1>4 DEF NativeNext

\* See WholeStep.
LEMMA WholeInit ==
  ASSUME KeysNamed, Budgets, MarkersSampled, NativeInit
  PROVE  WholeInv
<1>1. CancelInv
  BY CancelInit
<1>2. main = MainAt("test", 0, NewController, NewUtf8, <<>>, <<>>, <<>>)
  BY DEF NativeInit, Between, MainAt
<1>3. Told(main) /\ main.pc = "test"
  BY <1>2, ToldBetween
<1> QED BY <1>1, <1>3 DEF WholeInv, Closed

\* A story that was told to its end is a whole answer.
LEMMA WholeIsWhole ==
  ASSUME MarkersSampled, Budgets, WholeInv
  PROVE  AnswerIsWhole
<1> SUFFICES ASSUME main.pc = "clear", answered[control.active] = "completed"
             PROVE  \E s, e \in 0 .. Len(main.tokens) :
                      /\ Occurrences(StartMarker, main.tokens) = {s}
                      /\ Occurrences(EndMarker, main.tokens) = {e}
                      /\ s < e
                      /\ e + Len(EndMarker) <= reasoning_budget
                      /\ LET final == SubSeq(main.tokens, e + Len(EndMarker) + 1,
                                             Len(main.tokens) - 1)
                         IN  /\ Len(final) <= final_budget
                             /\ final = main.deltas /\ final = main.final
                      /\ Last(main.tokens) = EOG
                      /\ Len(main.tokens) <= total_budget
  BY DEF AnswerIsWhole
<1>1. main.phase.phase = "done" /\ Utf8Finish(main.utf8)
  BY DEF WholeInv, Closed
<1>2. PICK m : m = main
  OBVIOUS
<1>3. PICK p : \E tail \in Seq(SampledTokens), r \in Nat, pending \in Seq(SampledTokens) :
        /\ m.phase = CtlOf(p, Len(m.tokens), r, Len(m.final), tail)
        /\ m.utf8 = Utf8Of(pending)
        /\ m.tokens \in Seq(SampledTokens) /\ m.final \in Seq(SampledTokens)
        /\ m.deltas \in Seq(SampledTokens) /\ Joined(m.deltas, pending) = m.final
        /\ Len(m.tokens) <= total_budget /\ Len(m.final) <= final_budget
        /\ Story(p, m.tokens, m.final)
  BY <1>2 DEF WholeInv, Told
<1>4. PICK tail \in Seq(SampledTokens), r \in Nat, pending \in Seq(SampledTokens) :
        /\ m.phase = CtlOf(p, Len(m.tokens), r, Len(m.final), tail)
        /\ m.utf8 = Utf8Of(pending)
        /\ m.tokens \in Seq(SampledTokens) /\ m.final \in Seq(SampledTokens)
        /\ m.deltas \in Seq(SampledTokens) /\ Joined(m.deltas, pending) = m.final
        /\ Len(m.tokens) <= total_budget /\ Len(m.final) <= final_budget
        /\ Story(p, m.tokens, m.final)
  BY <1>3
<1>5. PICK t \in Seq(SampledTokens) : t = m.tokens
  BY <1>4, Zenon
<1>6. PICK f \in Seq(SampledTokens) : f = m.final
  BY <1>4, Zenon
<1>7. PICK d \in Seq(SampledTokens) : d = m.deltas
  BY <1>4, Zenon
<1>8. p = "done"
  <2>1. m.phase = CtlOf(p, Len(t), r, Len(f), tail)
    BY <1>4, <1>5, <1>6
  <2>2. m.phase.phase = p
    BY <2>1, CtlFields
  <2> QED BY <1>1, <1>2, <2>2
<1>9. d = f
  <2>1. PICK u : u = m.utf8
    OBVIOUS
  <2>2. u.pending = <<>>
    BY <1>1, <1>2, <2>1 DEF Utf8Finish
  <2>3. u = Utf8Of(pending)
    BY <1>4, <2>1
  <2>4. pending = <<>>
    BY <2>2, <2>3, Zenon DEF Utf8Of
  <2>5. d \o pending = f
    BY <1>4, <1>6, <1>7 DEF Joined
  <2>6. d \o <<>> = d
    BY ONLY d \in Seq(SampledTokens)
  <2> QED BY ONLY <2>4, <2>5, <2>6
<1>10. t[Len(t)] = EOG /\ Len(t) <= total_budget /\ Len(f) <= final_budget
  BY <1>4, <1>5, <1>6, <1>8 DEF Story
<1>11. PICK s, e : Placed(t, f, s, e, 1)
  BY <1>4, <1>5, <1>6, <1>8 DEF Story
<1>12. /\ Occurrences(StartMarker, t) = {s} /\ Occurrences(EndMarker, t) = {e}
       /\ s < e /\ e + Len(EndMarker) <= reasoning_budget /\ s \in Nat /\ e \in Nat
  BY <1>11 DEF Placed
<1>13. Len(EndMarker) \in Nat /\ Len(t) \in Nat /\ Len(f) \in Nat
       /\ Len(t) = e + Len(EndMarker) + Len(f) + 1
  BY <1>11 DEF Placed, MarkersSampled, Markers
<1>14. s \in 0 .. Len(t) /\ e \in 0 .. Len(t)
  BY <1>12, <1>13
<1>15. SubSeq(t, e + Len(EndMarker) + 1, Len(t) - 1) = f
  <2> DEFINE part == SubSeq(t, e + Len(EndMarker) + 1, Len(t) - 1)
  <2>1. part \in Seq(SampledTokens) /\ Len(part) = Len(f)
        /\ \A i \in 1 .. Len(f) : part[i] = t[e + Len(EndMarker) + i]
    BY <1>12, <1>13
  <2>2. \A i \in 1 .. Len(f) : part[i] = f[i]
    BY <1>11, <2>1 DEF Placed
  <2> HIDE DEF part
  <2>3. part = f
    BY <2>1, <2>2, SeqEqual
  <2> QED BY <2>3 DEF part
<1>16. Last(t) = EOG
  BY <1>10 DEF Last
<1>17. t = main.tokens /\ f = main.final /\ d = main.deltas
  BY <1>2, <1>5, <1>6, <1>7
<1> QED BY <1>9, <1>10, <1>12, <1>14, <1>15, <1>16, <1>17

\* What is reported complete is a whole answer, whatever tokens are sampled
\* (generate, ReasoningPhaseController::consume, Utf8Accumulator::append).
THEOREM AnswersAreWhole ==
  ASSUME Budgets, MarkersSampled, MarkersApart
  PROVE  NativeSpec => []AnswerIsWhole
<1>1. KeysNamed /\ CapacityNat
  BY NativeAssumption DEF KeysNamed, CapacityNat
<1>2. NativeInit => WholeInv
  BY <1>1, WholeInit
<1>3. WholeInv /\ [NativeNext]_processVars => WholeInv'
  BY <1>1, WholeStep
<1>4. WholeInv => AnswerIsWhole
  BY WholeIsWhole
<1> QED BY <1>2, <1>3, <1>4, PTL DEF NativeSpec

=============================================================================
