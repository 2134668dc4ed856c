----------------------------- MODULE AgentTurn ------------------------------
(***************************************************************************)
(* AtomicAgentService.execute_turn and recover over one run's log, called  *)
(* by several processes that share the SQLite file, each with its own      *)
(* executor.  A turn is a chain of appends; after each one the service     *)
(* loads the log again, and that load may already hold what another        *)
(* process wrote, so an append and its load are two steps.  A process may  *)
(* die between any two steps: what it appended stays, its executor's       *)
(* memory is lost.  Every exception ends the turn where it is raised: the  *)
(* service undoes nothing.                                                 *)
(***************************************************************************)
EXTENDS AgentLog

CONSTANTS Processes,
          Usage,        \* <<tokens, ms>> an inference may report
          MaxStarts     \* bound: execute_turn calls

ASSUME UsageAssumption == Usage \subseteq Nat \X Nat

VARIABLES at,           \* the turn each process is in: see Idle and Begin
          completed,    \* executor._completed: finished keys, in memory
          ran,          \* history: how often each invocation's tool ran
          artifacts,    \* invocations whose payload is in the artifact store
          starts        \* execute_turn calls so far (bound)

vars == <<run, at, completed, ran, artifacts, starts>>

Steps == {"idle", "infer", "inference_completed", "turns", "tokens", "ms",
          "decision", "end", "blocked", "compile", "propose", "arguments",
          "args_ready", "authorize", "authorization", "refused", "authorized",
          "tool_calls", "dispatch", "dispatched", "tool_attempts", "execute",
          "running", "normalize", "result", "tool_status", "observing", "flow",
          "target", "accept", "finish"}
Intents == Tools \cup {"ask_user", "submit", "blocked"}
Raw == {"none", "succeeded", "failed", "unknown_outcome"}

Idle == [pc |-> "idle", loaded |-> TRUE, version |-> 0, turn |-> "none",
         intent |-> "none", use |-> <<0, 0>>, raw |-> "none", allow |-> FALSE]

Raise(p) == at' = [at EXCEPT ![p] = Idle]
Goto(p, s) == at' = [at EXCEPT ![p].pc = s]
Inv(p) == <<at[p].turn, at[p].intent>>

\* The process stands at step s with the state of its last load.
Ready(p, s) == at[p].pc = s /\ at[p].loaded

\* _append / _append_plain: commit one event under the version of the last
\* load, or raise; a committed append is followed by a load.
Writes(p, e, next) ==
  /\ IF Commits(at[p].version, e)
     THEN /\ Append(e)
          /\ at' = IF next = "idle" THEN [at EXCEPT ![p] = Idle]
                   ELSE [at EXCEPT ![p].pc = next, ![p].loaded = FALSE]
     ELSE Raise(p) /\ UNCHANGED run
  /\ UNCHANGED <<completed, ran, artifacts, starts>>

Local == UNCHANGED <<run, completed, ran, artifacts, starts>>

\* The load after an append: it sees every event committed by then.
Load(p) ==
  /\ ~ at[p].loaded
  /\ at' = [at EXCEPT ![p].loaded = TRUE, ![p].version = run.version]
  /\ Local

\* execute_turn up to the inference: a run that is not deciding, or has no
\* turn left, or is past its deadline, raises before anything happens.
Begin(p, t) ==
  /\ at[p].pc = "idle" /\ starts < MaxStarts
  /\ run.lifecycle = "deciding" /\ run.budgets["turns"] >= 1
  /\ at' = [at EXCEPT ![p] = [Idle EXCEPT !.pc = "infer", !.version = run.version,
                                          !.turn = t]]
  /\ starts' = starts + 1
  /\ UNCHANGED <<run, completed, ran, artifacts>>

\* DecisionEngine.decide: the model answers with an intent of the shortlist,
\* or the inference, the parse or the catalog check raises.
Infer(p) ==
  /\ Ready(p, "infer")
  /\ \/ \E i \in Intents, u \in Usage :
          at' = [at EXCEPT ![p].pc = "inference_completed", ![p].intent = i,
                           ![p].use = u]
     \/ Raise(p)
  /\ Local

RecordInference(p) == Ready(p, "inference_completed") /\
  Writes(p, Record("inference_completed"), "turns")

\* _consume_budget: the claim's name makes it payable once; it raises when
\* less than the amount remains.
ConsumeTurn(p) == Ready(p, "turns") /\
  Writes(p, Consumed(at[p].turn, "turns", 1), "tokens")

ConsumeTokens(p) ==
  /\ Ready(p, "tokens")
  /\ IF at[p].use[1] > 0
     THEN Writes(p, Consumed(at[p].turn, "inference_tokens", at[p].use[1]), "ms")
     ELSE Goto(p, "ms") /\ Local

ConsumeMs(p) ==
  /\ Ready(p, "ms")
  /\ IF at[p].use[2] > 0
     THEN Writes(p, Consumed(at[p].turn, "inference_ms", at[p].use[2]), "decision")
     ELSE Goto(p, "decision") /\ Local

RecordDecision(p) == Ready(p, "decision") /\
  Writes(p, Record("decision_recorded"),
         IF at[p].intent \in Tools THEN "compile" ELSE "end")

\* _handle_non_tool: a submit is refused by the gate, there is no evidence.
HandleNonTool(p) ==
  /\ Ready(p, "end")
  /\ CASE at[p].intent = "ask_user" -> Writes(p, Transition("waiting_user"), "idle")
       [] at[p].intent = "blocked"  -> Writes(p, Transition("blocked"), "idle")
       [] at[p].intent = "submit"   -> Writes(p, Accepted(FALSE), "blocked")

BlockSubmit(p) == Ready(p, "blocked") /\
  Writes(p, GateTransition("blocked"), "idle")

\* compile() may raise (unknown tool, missing binding, changed catalog); then
\* the run leaves deciding.
Compile(p) ==
  /\ Ready(p, "compile")
  /\ \/ Writes(p, Transition("waiting_tool"), "propose")
     \/ Raise(p) /\ Local

Propose(p) == Ready(p, "propose") /\ Writes(p, Proposed(Inv(p)), "arguments")

RecordArguments(p) == Ready(p, "arguments") /\
  Writes(p, InvocationRecord("arguments_compiled", Inv(p)), "args_ready")

ArgsReady(p) == Ready(p, "args_ready") /\
  Writes(p, ToolTransition(Inv(p), "args_ready"), "authorize")

\* DeterministicPermissionGate.authorize: only a read-only tool of the
\* shortlist is allowed, and nothing after the deadline.
Authorize(p) ==
  /\ Ready(p, "authorize")
  /\ \E allow \in BOOLEAN :
       /\ allow => at[p].intent \in ReadOnly
       /\ at' = [at EXCEPT ![p].pc = "authorization", ![p].allow = allow]
  /\ Local

RecordAuthorization(p) == Ready(p, "authorization") /\
  Writes(p, InvocationRecord("authorization_recorded", Inv(p)),
         IF at[p].allow THEN "authorized" ELSE "refused")

Refuse(p) ==
  /\ Ready(p, "refused")
  /\ \E t \in {"denied", "waiting_approval"} :
       /\ t = "waiting_approval" => at[p].intent \in Mutating
       /\ Writes(p, ToolTransition(Inv(p), t), "idle")

Authorized(p) == Ready(p, "authorized") /\
  Writes(p, ToolTransition(Inv(p), "authorized"), "tool_calls")

\* Mutation: the call goes to the executor before its durable boundary.
CallRunsAtOnce(p) == Ready(p, "tool_calls") /\
  Writes(p, Consumed(Inv(p), "tool_calls", 1), "execute")

ConsumeCall(p) == Ready(p, "tool_calls") /\
  Writes(p, Consumed(Inv(p), "tool_calls", 1), "dispatch")

\* The durable boundary: it commits before the executor is called.
StartDispatch(p) == Ready(p, "dispatch") /\
  Writes(p, InvocationRecord("dispatch_started", Inv(p)), "dispatched")

Dispatched(p) == Ready(p, "dispatched") /\
  Writes(p, ToolTransition(Inv(p), "dispatched"), "tool_attempts")

ConsumeAttempt(p) == Ready(p, "tool_attempts") /\
  Writes(p, Consumed(Inv(p), "tool_attempts", 1), "execute")

\* execute(): a key the executor finished is answered from memory, a token
\* that is already cancelled raises; otherwise the tool starts.
Execute(p) ==
  /\ Ready(p, "execute")
  /\ \/ /\ Inv(p) \in completed[p]
        /\ at' = [at EXCEPT ![p].pc = "normalize", ![p].raw = "succeeded"]
        /\ UNCHANGED ran
     \/ /\ Inv(p) \notin completed[p]
        /\ at' = [at EXCEPT ![p].pc = "normalize", ![p].raw = "failed"]
        /\ UNCHANGED ran
     \/ /\ Inv(p) \notin completed[p]
        /\ Goto(p, "running")
        /\ ran' = [ran EXCEPT ![Inv(p)] = @ + 1]
  /\ UNCHANGED <<run, completed, artifacts, starts>>

\* The tool ends: a result; cancelled or unavailable (recorded as failed);
\* timed out (post_dispatch_timeout: an unknown outcome); or an I/O error,
\* which the service does not catch.
Finish(p) ==
  /\ Ready(p, "running")
  /\ \/ \E r \in {"succeeded", "failed", "unknown_outcome"} :
          /\ at' = [at EXCEPT ![p].pc = "normalize", ![p].raw = r]
          /\ completed' = IF r = "succeeded"
                          THEN [completed EXCEPT ![p] = @ \cup {Inv(p)}]
                          ELSE completed
     \/ Raise(p) /\ UNCHANGED completed
  /\ UNCHANGED <<run, ran, artifacts, starts>>

\* Mutation: the artifact is left to be written later.
NormalizeUnstored(p) == Ready(p, "normalize") /\ Goto(p, "result") /\ Local

\* normalize() stores the payload as an immutable artifact, or raises when
\* it is not UTF-8 or does not read back.
Normalize(p) ==
  /\ Ready(p, "normalize")
  /\ \/ Goto(p, "result") /\ artifacts' = artifacts \cup {Inv(p)}
     \/ Raise(p) /\ UNCHANGED artifacts
  /\ UNCHANGED <<run, completed, ran, starts>>

RecordResult(p) == Ready(p, "result") /\
  Writes(p, InvocationRecord("result_recorded", Inv(p)), "tool_status")

ToolStatus(p) == Ready(p, "tool_status") /\
  Writes(p, ToolTransition(Inv(p), at[p].raw), "observing")

Observe(p) == Ready(p, "observing") /\ Writes(p, Transition("observing"), "flow")

RecordFlow(p) == Ready(p, "flow") /\ Writes(p, Record("flow_decided"), "target")

\* CodeOwnedFlowController.decide, with verify=True.
FlowTarget(raw) ==
  CASE raw = "unknown_outcome" -> "paused"
    [] raw = "failed" -> "deciding"
    [] OTHER -> "verifying"

FollowFlow(p) == Ready(p, "target") /\
  LET t == FlowTarget(at[p].raw)
  IN Writes(p, Transition(t), IF t = "verifying" THEN "accept" ELSE "idle")

\* DeterministicAcceptanceGate.evaluate: a succeeded result that meets the
\* task's criteria.
Accept(p) ==
  /\ Ready(p, "accept")
  /\ \E ok \in BOOLEAN :
       /\ ok => at[p].raw = "succeeded"
       /\ Writes(p, Accepted(ok), IF ok THEN "finish" ELSE "blocked")

Succeed(p) == Ready(p, "finish") /\ Writes(p, GateTransition("succeeded"), "idle")

Crash(p) ==
  /\ at[p].pc # "idle"
  /\ Raise(p) /\ completed' = [completed EXCEPT ![p] = {}]
  /\ UNCHANGED <<run, ran, artifacts, starts>>

\* The owner of the run starts it, resumes it, or gives it up.
CallerMoves ==
  [ready |-> {"deciding"}, waiting_user |-> {"deciding"}, paused |-> {"deciding"},
   deciding |-> {"cancelled"}, waiting_tool |-> {"cancelled"}]

Caller ==
  /\ run.lifecycle \in DOMAIN CallerMoves
  /\ \E t \in CallerMoves[run.lifecycle] : Append(Transition(t))
  /\ UNCHANGED <<at, completed, ran, artifacts, starts>>

\* Mutation: the answer is read off the run's lifecycle.
RecoverByLifecycle ==
  CASE run.lifecycle = "waiting_tool" -> "reconcile_only"
    [] run.lifecycle \in {"deciding", "ready"} -> "safe_retry"
    [] OTHER -> "terminal_or_paused"

\* recover(): what a restarted service tells the owner of the run to do.
Recover ==
  IF run.dispatched \ run.results # {} THEN "reconcile_only"
  ELSE IF run.lifecycle \in {"deciding", "ready"} THEN "safe_retry"
  ELSE "terminal_or_paused"

Init ==
  /\ run = Created
  /\ at = [p \in Processes |-> Idle]
  /\ completed = [p \in Processes |-> {}]
  /\ ran = [i \in Invocations |-> 0]
  /\ artifacts = {} /\ starts = 0

TurnStep(p) ==
  \/ Load(p) \/ Infer(p) \/ RecordInference(p) \/ ConsumeTurn(p)
  \/ ConsumeTokens(p) \/ ConsumeMs(p) \/ RecordDecision(p) \/ HandleNonTool(p)
  \/ BlockSubmit(p) \/ Compile(p) \/ Propose(p) \/ RecordArguments(p)
  \/ ArgsReady(p) \/ Authorize(p) \/ RecordAuthorization(p) \/ Refuse(p)
  \/ Authorized(p) \/ ConsumeCall(p) \/ StartDispatch(p) \/ Dispatched(p)
  \/ ConsumeAttempt(p) \/ Execute(p) \/ Finish(p) \/ Normalize(p)
  \/ RecordResult(p) \/ ToolStatus(p) \/ Observe(p) \/ RecordFlow(p)
  \/ FollowFlow(p) \/ Accept(p) \/ Succeed(p)

Next ==
  \/ Caller
  \/ \E p \in Processes : TurnStep(p) \/ Crash(p) \/ \E t \in Turns : Begin(p, t)

Spec == Init /\ [][Next]_vars

\* Every variable has its type, no budget is negative and no process holds a
\* version the log has not reached.
TypeOK ==
  /\ run.lifecycle \in RunLifecycle /\ run.version \in Nat
  /\ run.budgets \in [Categories -> Nat]
  /\ run.tools \in [Invocations -> ToolLifecycle]
  /\ run.claims \subseteq (Turns \cup Invocations) \X Categories
  /\ run.keys \subseteq Invocations /\ run.results \subseteq run.dispatched
  /\ run.dispatched \subseteq Invocations
  /\ run.verdict \in {"none", "accepted", "rejected"}
  /\ \A p \in Processes : at[p].pc \in Steps /\ at[p].version <= run.version
  /\ completed \in [Processes -> SUBSET Invocations]
  /\ ran \in [Invocations -> Nat] /\ artifacts \subseteq Invocations

\* An invocation's tool runs at most once, whatever processes race, die and
\* retry, and only behind its durable dispatch boundary, its idempotency claim
\* and both of its budget claims (execute_turn, "commit before execute()").
AtMostOnce ==
  \A i \in Invocations :
    /\ ran[i] <= 1
    /\ ran[i] = 1 =>
         /\ i \in run.dispatched \cap run.keys
         /\ {<<i, "tool_calls">>, <<i, "tool_attempts">>} \subseteq run.claims

\* The log's state is well typed and no tool runs twice or unaccounted for.
ToolsRunOnce == TypeOK /\ AtMostOnce

\* Tools that ran and whose result is not in the log.
Outstanding == {i \in Invocations : ran[i] > 0} \ run.results

\* recover() never forgets an effect: as long as a tool ran without a recorded
\* result, whatever killed its turn and whatever became of the run since, the
\* answer is reconcile_only; and safe_retry is never given while a process is
\* about to run or is running a tool.
EffectsAreRecovered ==
  /\ Outstanding # {} => Recover = "reconcile_only"
  /\ Recover = "safe_retry" =>
       \A p \in Processes : at[p].pc \notin {"execute", "running", "normalize", "result"}

\* A run succeeds only on evidence: a recorded result of a tool that ran once
\* and succeeded, behind which the artifact exists.  Every recorded result has
\* its artifact (the normalizer stores it before the result is appended).
SucceededIsEarned ==
  /\ run.results \subseteq artifacts
  /\ run.lifecycle = "succeeded" =>
       \E i \in run.results : run.tools[i] = "succeeded" /\ ran[i] = 1
=============================================================================
