------------------------------ MODULE AgentLog ------------------------------
(***************************************************************************)
(* The durable log of one agent run: SqliteAgentEventStore.append and the  *)
(* replay() of agent_runtime/reducer.py that every append runs over the    *)
(* candidate log before it commits.                                        *)
(*                                                                         *)
(* The log is kept as the state replay() computes from it: the log only    *)
(* grows and replay() folds it, so the state at a version is determined by *)
(* the version.  Every identifier of the code (action, invocation,         *)
(* idempotency key, budget claim, record) is a digest that contains the    *)
(* run, so runs do not meet in the unique indexes and one run is enough.   *)
(* A budget claim is <<namespace, category>>.  An invocation is the pair   *)
(* <<turn, tool>>: its action id, invocation id and idempotency key are    *)
(* digests of the same identity and are claimed under that one name.       *)
(***************************************************************************)
EXTENDS Integers, FiniteSets

CONSTANTS Turns,        \* turn ids callers may use
          ReadOnly,     \* catalog tools of effect class read_only
          Mutating,     \* catalog tools of the other effect classes
          Budget        \* the budgets of run_created, by category

VARIABLE run            \* AgentRunState: the replay of the committed log

Tools == ReadOnly \cup Mutating
Invocations == Turns \X Tools
Categories == {"turns", "inference_tokens", "inference_ms",
               "tool_calls", "tool_attempts"}

ASSUME BudgetAssumption == Budget \in [Categories -> Nat]

RunTerminal == {"succeeded", "blocked", "failed", "cancelled",
                "timed_out", "budget_exhausted"}
RunLifecycle == RunTerminal \cup
                {"ready", "deciding", "waiting_tool", "observing",
                 "synthesizing", "verifying", "waiting_user", "paused"}
ToolLifecycle == {"none", "proposed", "args_ready", "needs_resolution",
                  "authorized", "waiting_approval", "denied", "dispatched",
                  "succeeded", "partial", "failed", "unknown_outcome"}

RunTransitions ==
  LET ends == {"cancelled", "timed_out"}
      all  == RunTerminal \ {"succeeded"}
  IN [ready        |-> ends \cup {"deciding"},
      deciding     |-> all \cup {"waiting_tool", "waiting_user", "paused"},
      waiting_tool |-> (all \ {"blocked"}) \cup {"observing", "paused"},
      observing    |-> all \cup {"deciding", "synthesizing", "verifying", "paused"},
      synthesizing |-> RunTerminal \cup {"deciding"},
      verifying    |-> RunTerminal \cup {"deciding"},
      waiting_user |-> ends \cup {"deciding"},
      paused       |-> ends \cup {"deciding"}]

ToolTransitions ==
  [proposed         |-> {"args_ready", "needs_resolution"},
   needs_resolution |-> {"args_ready", "failed"},
   args_ready       |-> {"authorized", "waiting_approval", "denied"},
   waiting_approval |-> {"authorized", "denied"},
   authorized       |-> {"dispatched"},
   dispatched       |-> {"succeeded", "partial", "failed", "unknown_outcome"}]

\* The state after the run_created event.
Created == [version |-> 1, lifecycle |-> "ready", budgets |-> Budget,
            tools |-> [i \in Invocations |-> "none"], claims |-> {},
            keys |-> {}, dispatched |-> {}, results |-> {}, verdict |-> "none"]

Transition(t) == [kind |-> "run_transition", target |-> t, authority |-> FALSE]
GateTransition(t) == [kind |-> "run_transition", target |-> t, authority |-> TRUE]
Proposed(i) == [kind |-> "tool_proposed", invocation |-> i]
ToolTransition(i, t) == [kind |-> "tool_transition", invocation |-> i, target |-> t]
Consumed(ns, c, n) ==
  [kind |-> "budget_consumed", claim |-> <<ns, c>>, category |-> c, amount |-> n]
Record(k) == [kind |-> k]
InvocationRecord(k, i) == [kind |-> k, invocation |-> i]
Accepted(b) == [kind |-> "acceptance_decided", accepted |-> b]

\* The event may follow the state: the checks of replay() on one event.
Replays(s, e) ==
  CASE e.kind = "run_transition" ->
         /\ s.lifecycle \in DOMAIN RunTransitions
         /\ e.target \in RunTransitions[s.lifecycle]
         /\ e.target = "succeeded" => e.authority
    [] e.kind = "tool_proposed" ->
         s.lifecycle = "waiting_tool" /\ s.tools[e.invocation] = "none"
    [] e.kind = "tool_transition" ->
         /\ s.tools[e.invocation] \in DOMAIN ToolTransitions
         /\ e.target \in ToolTransitions[s.tools[e.invocation]]
    [] e.kind = "budget_consumed" ->
         e.claim \notin s.claims /\ 0 < e.amount /\ e.amount <= s.budgets[e.category]
    [] e.kind \in {"arguments_compiled", "authorization_recorded"} ->
         s.tools[e.invocation] # "none"
    [] e.kind = "dispatch_started" ->
         s.tools[e.invocation] = "authorized" /\ e.invocation \notin s.dispatched
    [] e.kind = "result_recorded" ->
         e.invocation \in s.dispatched \ s.results
    [] OTHER -> TRUE

\* The state replay() computes once the event is in the log.
Applied(s, e) ==
  LET new == [s EXCEPT !.version = @ + 1]
  IN CASE e.kind = "run_transition" -> [new EXCEPT !.lifecycle = e.target]
       [] e.kind = "tool_proposed" -> [new EXCEPT !.tools[e.invocation] = "proposed"]
       [] e.kind = "tool_transition" -> [new EXCEPT !.tools[e.invocation] = e.target]
       [] e.kind = "budget_consumed" ->
            [new EXCEPT !.budgets[e.category] = @ - e.amount,
                        !.claims = @ \cup {e.claim}]
       [] e.kind = "authorization_recorded" ->
            [new EXCEPT !.keys = @ \cup {e.invocation}]
       [] e.kind = "dispatch_started" ->
            [new EXCEPT !.dispatched = @ \cup {e.invocation}]
       [] e.kind = "result_recorded" ->
            [new EXCEPT !.results = @ \cup {e.invocation}]
       [] e.kind = "acceptance_decided" ->
            [new EXCEPT !.verdict = IF e.accepted THEN "accepted" ELSE "rejected"]
       [] OTHER -> new

\* The unique indexes of the table, over the whole store.
UniqueClaim(s, e) ==
  e.kind = "authorization_recorded" => e.invocation \notin s.keys

\* append(): in one write transaction, the version the writer expects is the
\* log's, the log with the event replays and no claim exists twice.
Commits(version, e) ==
  run.version = version /\ Replays(run, e) /\ UniqueClaim(run, e)

Append(e) == run' = Applied(run, e)
=============================================================================
