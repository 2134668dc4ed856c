--------------------------- MODULE AgentTurnProofs ---------------------------
(***************************************************************************)
(* For any number of processes, turns and tools: a tool runs at most once  *)
(* and behind its durable claims, recovery sees every effect, and a run    *)
(* succeeds only on recorded evidence.                                     *)
(***************************************************************************)
EXTENDS AgentTurn, TLAPS

RunType ==
  [version : Nat, lifecycle : RunLifecycle, budgets : [Categories -> Nat],
   tools : [Invocations -> ToolLifecycle],
   claims : SUBSET ((Turns \cup Invocations) \X Categories),
   keys : SUBSET Invocations, dispatched : SUBSET Invocations,
   results : SUBSET Invocations, verdict : {"none", "accepted", "rejected"}]

AtType ==
  [pc : Steps, loaded : BOOLEAN, version : Nat, turn : Turns \cup {"none"},
   intent : Intents \cup {"none"}, use : Nat \X Nat, raw : Raw, allow : BOOLEAN]

\* The events the service appends, with their fields typed.
IsEvent(e) ==
  \/ e.kind = "run_transition" /\ e.target \in RunLifecycle
  \/ e.kind = "tool_proposed" /\ e.invocation \in Invocations
  \/ e.kind = "tool_transition" /\ e.invocation \in Invocations /\ e.target \in ToolLifecycle
  \/ /\ e.kind = "budget_consumed" /\ e.amount \in Nat /\ e.category \in Categories
     /\ e.claim \in (Turns \cup Invocations) \X Categories
  \/ /\ e.kind \in {"arguments_compiled", "authorization_recorded", "dispatch_started",
                    "result_recorded"}
     /\ e.invocation \in Invocations
  \/ e.kind \in {"inference_completed", "decision_recorded", "flow_decided",
                 "acceptance_decided"}

\* What no event takes back.
Grows(s, t) ==
  /\ s.claims \subseteq t.claims /\ s.keys \subseteq t.keys
  /\ s.dispatched \subseteq t.dispatched /\ s.results \subseteq t.results
  /\ \A i \in Invocations : s.tools[i] = "succeeded" => t.tools[i] = "succeeded"
  /\ s.lifecycle = "succeeded" => t.lifecycle = "succeeded"
  /\ s.version <= t.version

\* An event that replays keeps the state typed and takes nothing back.
LEMMA AppliedGrows ==
  ASSUME NEW s \in RunType, NEW e, IsEvent(e), Replays(s, e)
  PROVE  Applied(s, e) \in RunType /\ Grows(s, Applied(s, e))
<1> DEFINE t == Applied(s, e)
           new == [s EXCEPT !.version = @ + 1]
<1> SUFFICES t \in RunType /\ Grows(s, t)
  OBVIOUS
<1>0. new \in RunType /\ Grows(s, new)
  BY DEF RunType, Grows
<1>1. CASE e.kind = "run_transition"
  <2>1. t = [new EXCEPT !.lifecycle = e.target]
    BY <1>1 DEF Applied
  <2>2. s.lifecycle # "succeeded" /\ e.target \in RunLifecycle
    BY <1>1 DEF Replays, RunTransitions, IsEvent
  <2> QED BY <2>1, <2>2, <1>0 DEF RunType, Grows
<1>2. CASE e.kind \in {"tool_proposed", "tool_transition"}
  <2>1. PICK x \in ToolLifecycle : t = [new EXCEPT !.tools[e.invocation] = x]
    BY <1>2 DEF Applied, IsEvent, ToolLifecycle
  <2>2. e.invocation \in Invocations /\ s.tools[e.invocation] # "succeeded"
    BY <1>2 DEF Replays, IsEvent, ToolTransitions
  <2> DEFINE tools == [s.tools EXCEPT ![e.invocation] = x]
  <2>3. /\ tools \in [Invocations -> ToolLifecycle]
        /\ \A i \in Invocations : s.tools[i] = "succeeded" => tools[i] = "succeeded"
    BY <2>2 DEF RunType
  <2>4. t = [new EXCEPT !.tools = tools]
    BY <2>1 DEF RunType
  <2> HIDE DEF tools, new
  <2>5. t \in RunType
    BY <2>3, <2>4, <1>0 DEF RunType
  <2>6. Grows(s, t)
    BY <2>3, <2>4, <1>0 DEF RunType, Grows
  <2> QED BY <2>5, <2>6
<1>4. CASE e.kind = "budget_consumed"
  <2> DEFINE budgets == [s.budgets EXCEPT ![e.category] = @ - e.amount]
             claims == s.claims \cup {e.claim}
  <2>1. t = [new EXCEPT !.budgets = budgets, !.claims = claims]
    BY <1>4 DEF Applied, RunType
  <2>2. /\ e.claim \in (Turns \cup Invocations) \X Categories
        /\ e.category \in Categories /\ e.amount \in Nat
        /\ e.amount <= s.budgets[e.category]
    BY <1>4 DEF Replays, IsEvent
  <2>3. budgets \in [Categories -> Nat]
    BY <2>2 DEF RunType
  <2>4. /\ claims \in SUBSET ((Turns \cup Invocations) \X Categories)
        /\ s.claims \subseteq claims
    BY <2>2 DEF RunType
  <2> HIDE DEF budgets, claims, new
  <2>5. t \in RunType
    BY <2>1, <2>3, <2>4, <1>0 DEF RunType
  <2>6. Grows(s, t)
    BY <2>1, <2>3, <2>4, <1>0 DEF RunType, Grows
  <2> QED BY <2>5, <2>6
<1>5. CASE e.kind \in {"authorization_recorded", "dispatch_started", "result_recorded"}
  <2>1. e.invocation \in Invocations
    BY <1>5 DEF IsEvent
  <2>0. \/ t = [new EXCEPT !.keys = @ \cup {e.invocation}]
        \/ t = [new EXCEPT !.dispatched = @ \cup {e.invocation}]
        \/ t = [new EXCEPT !.results = @ \cup {e.invocation}]
    BY <1>5 DEF Applied
  <2> HIDE DEF new, t
  <2>2. CASE t = [new EXCEPT !.keys = @ \cup {e.invocation}]
    BY <2>1, <2>2, <1>0 DEF RunType, Grows
  <2>3. CASE t = [new EXCEPT !.dispatched = @ \cup {e.invocation}]
    BY <2>1, <2>3, <1>0 DEF RunType, Grows
  <2>4. CASE t = [new EXCEPT !.results = @ \cup {e.invocation}]
    BY <2>1, <2>4, <1>0 DEF RunType, Grows
  <2> QED BY <2>0, <2>2, <2>3, <2>4
<1>6. CASE e.kind = "acceptance_decided"
  <2>1. \/ t = [new EXCEPT !.verdict = "accepted"]
        \/ t = [new EXCEPT !.verdict = "rejected"]
    BY <1>6 DEF Applied
  <2> QED BY <2>1, <1>0 DEF RunType, Grows
<1>7. CASE e.kind \in {"arguments_compiled", "inference_completed", "decision_recorded",
                       "flow_decided"}
  <2>1. t = new
    BY <1>7 DEF Applied
  <2> QED BY <2>1, <1>0
<1> QED BY <1>1, <1>2, <1>4, <1>5, <1>6, <1>7 DEF IsEvent

\* What an event changes, field by field.
LEMMA AppliedFields ==
  ASSUME NEW s \in RunType, NEW e, IsEvent(e)
  PROVE  LET t == Applied(s, e) IN
         /\ t.claims = IF e.kind = "budget_consumed" THEN s.claims \cup {e.claim}
                       ELSE s.claims
         /\ t.keys = IF e.kind = "authorization_recorded" THEN s.keys \cup {e.invocation}
                     ELSE s.keys
         /\ t.dispatched = IF e.kind = "dispatch_started"
                           THEN s.dispatched \cup {e.invocation} ELSE s.dispatched
         /\ t.results = IF e.kind = "result_recorded" THEN s.results \cup {e.invocation}
                        ELSE s.results
         /\ t.lifecycle = IF e.kind = "run_transition" THEN e.target ELSE s.lifecycle
         /\ e.kind = "tool_transition" => t.tools[e.invocation] = e.target
<1> DEFINE t == Applied(s, e)
           new == [s EXCEPT !.version = @ + 1]
<1>1. CASE e.kind = "run_transition"
  BY <1>1 DEF Applied, RunType
<1>2. CASE e.kind = "tool_proposed"
  BY <1>2 DEF Applied, RunType
<1>3. CASE e.kind = "tool_transition"
  BY <1>3 DEF Applied, RunType, IsEvent
<1>4. CASE e.kind = "budget_consumed"
  BY <1>4 DEF Applied, RunType
<1>5. CASE e.kind = "authorization_recorded"
  BY <1>5 DEF Applied, RunType
<1>6. CASE e.kind = "dispatch_started"
  BY <1>6 DEF Applied, RunType
<1>7. CASE e.kind = "result_recorded"
  BY <1>7 DEF Applied, RunType
<1>8. CASE e.kind = "acceptance_decided"
  BY <1>8 DEF Applied, RunType
<1>9. CASE e.kind \in {"arguments_compiled", "inference_completed", "decision_recorded",
                       "flow_decided"}
  BY <1>9 DEF Applied, RunType
<1> QED BY <1>1, <1>2, <1>3, <1>4, <1>5, <1>6, <1>7, <1>8, <1>9 DEF IsEvent

-----------------------------------------------------------------------------
(* The inductive invariant *)

\* Where a turn has an intent, has recorded the result, holds the attempt, has
\* passed the durable boundary, has paid for the call, has its idempotency key,
\* and has its invocation in hand.
Decided == {"inference_completed", "turns", "tokens", "ms", "decision"}
Recorded == {"tool_status", "observing", "flow", "target", "accept", "finish"}
Attempting == {"execute", "running", "normalize", "result"}
Begun == Attempting \cup Recorded \cup {"dispatched", "tool_attempts"}
Paid == Begun \cup {"dispatch"}
Keyed == Paid \cup {"authorized", "tool_calls"}
InTool == Keyed \cup {"compile", "propose", "arguments", "args_ready", "authorize",
                     "authorization", "refused"}

Ident(a) == <<a.turn, a.intent>>

\* What a process in step a knows of the log s, of the runs n of the tools and of
\* the artifacts f.
Placed(a, s, n, f) ==
  /\ a.version <= s.version
  /\ a.pc # "idle" => a.turn \in Turns
  /\ a.pc \in Decided => a.intent \in Intents
  /\ a.pc = "end" => a.intent \in Intents \ Tools
  /\ a.pc \in InTool => a.intent \in Tools
  /\ a.pc \in Keyed => Ident(a) \in s.keys
  /\ a.pc \in Paid => <<Ident(a), "tool_calls">> \in s.claims
  /\ a.pc \in Begun => Ident(a) \in s.dispatched
  /\ a.pc \in Attempting =>
       <<Ident(a), "tool_attempts">> \in s.claims /\ Ident(a) \notin s.results
  /\ a.pc = "execute" => n[Ident(a)] = 0
  /\ a.pc = "running" => n[Ident(a)] = 1
  /\ a.pc = "result" => Ident(a) \in f
  /\ a.pc \in Recorded => Ident(a) \in s.results
  /\ a.pc \in Recorded \cup {"normalize", "result"} /\ a.raw = "succeeded" =>
       n[Ident(a)] = 1
  /\ a.pc \in Recorded \ {"tool_status"} /\ a.raw = "succeeded" =>
       s.tools[Ident(a)] = "succeeded"
  /\ a.pc = "finish" => a.raw = "succeeded"

\* The log, the runs and the artifacts agree, whoever is where.
Ledger(s, n, f, c) ==
  /\ \A i \in Invocations :
       /\ n[i] \in {0, 1}
       /\ n[i] = 1 => /\ i \in s.dispatched /\ i \in s.keys
                      /\ <<i, "tool_calls">> \in s.claims
                      /\ <<i, "tool_attempts">> \in s.claims
       /\ i \in s.results => /\ <<i, "tool_attempts">> \in s.claims
                              /\ i \in s.dispatched /\ i \in f
       /\ \A p \in Processes : i \in c[p] => n[i] = 1
  /\ s.lifecycle = "succeeded" =>
       \E i \in s.results : s.tools[i] = "succeeded" /\ n[i] = 1

\* An attempt belongs to one process.
Apart(places) ==
  \A p, q \in Processes :
    p # q /\ places[p].pc \in Attempting /\ places[q].pc \in Attempting =>
      Ident(places[p]) # Ident(places[q])

TypeInv ==
  /\ run \in RunType /\ at \in [Processes -> AtType]
  /\ completed \in [Processes -> SUBSET Invocations]
  /\ ran \in [Invocations -> Nat] /\ artifacts \in SUBSET Invocations

IInv ==
  /\ TypeInv /\ Ledger(run, ran, artifacts, completed) /\ Apart(at)
  /\ \A p \in Processes : Placed(at[p], run, ran, artifacts)

-----------------------------------------------------------------------------
\* A process that does not move keeps its place while the log grows.
LEMMA PlacedKeeps ==
  ASSUME NEW a \in AtType, NEW s \in RunType, NEW t \in RunType, NEW n, NEW m,
         NEW f, NEW g, Placed(a, s, n, f), Grows(s, t), f \subseteq g,
         a.pc \in Attempting => Ident(a) \notin t.results,
         a.pc \in InTool => m[Ident(a)] = n[Ident(a)]
  PROVE  Placed(a, t, m, g)
<1>1. a.version <= t.version
  BY DEF Placed, Grows, RunType, AtType
<1>2. a.pc \in InTool /\ a.turn \in Turns => Ident(a) \in Invocations
  BY DEF Placed, Ident, Invocations
<1>3. /\ a.pc \in InTool => a.pc # "idle"
      /\ Attempting \cup Recorded \subseteq InTool
  BY DEF InTool, Keyed, Paid, Begun, Attempting, Recorded
<1>4. {"execute", "running", "normalize", "result"} \subseteq InTool
  BY <1>3 DEF Attempting
<1> QED BY <1>1, <1>2, <1>3, <1>4 DEF Placed, Grows

\* One process moves, and neither the log nor the tools do.
LEMMA MoveKeeps ==
  ASSUME IInv, NEW p \in Processes, NEW b \in AtType,
         Placed(b, run, ran, artifacts),
         b.pc \in Attempting => at[p].pc \in Attempting /\ Ident(b) = Ident(at[p]),
         at' = [at EXCEPT ![p] = b],
         UNCHANGED <<run, ran, artifacts>>,
         completed' \in [Processes -> SUBSET Invocations],
         \A q \in Processes : completed'[q] \subseteq completed[q]
  PROVE  IInv'
<1>1. TypeInv'
  BY DEF IInv, TypeInv
<1>2. Ledger(run, ran, artifacts, completed)'
  BY DEF IInv, Ledger
<1>3. Apart(at)'
  BY DEF IInv, TypeInv, Apart
<1>4. \A q \in Processes : Placed(at[q], run, ran, artifacts)'
  BY DEF IInv, TypeInv
<1> QED BY <1>1, <1>2, <1>3, <1>4 DEF IInv

\* A turn that ends leaves nothing to know.
LEMMA IdlePlaced ==
  ASSUME NEW s \in RunType, NEW n, NEW f
  PROVE  Idle \in AtType /\ Placed(Idle, s, n, f)
<1>1. Idle \in AtType
  BY DEF Idle, AtType, Steps, Raw
<1>2. Idle.pc = "idle" /\ Idle.version <= s.version
  BY DEF Idle, RunType
<1>3. "idle" \notin InTool
  BY DEF InTool, Keyed, Paid, Begun, Attempting, Recorded
<1> QED BY <1>1, <1>2, <1>3
        DEF Placed, Decided, InTool, Keyed, Paid, Begun, Attempting, Recorded

\* A turn that ends, by an exception or a crash, keeps the invariant.
LEMMA RaiseKeeps ==
  ASSUME IInv, NEW p \in Processes, Raise(p), UNCHANGED <<run, ran, artifacts>>,
         completed' \in [Processes -> SUBSET Invocations],
         \A q \in Processes : completed'[q] \subseteq completed[q]
  PROVE  IInv'
<1>1. Idle \in AtType /\ Placed(Idle, run, ran, artifacts)
  BY IdlePlaced DEF IInv, TypeInv
<1>2. Idle.pc \notin Attempting
  BY DEF Idle, Attempting
<1> QED BY <1>1, <1>2, MoveKeeps DEF Raise

\* One append: only the attempt's claim lets a process into an attempt, only
\* the attempt's owner records its result, and only the gate succeeds.
LEMMA WritesKeeps ==
  ASSUME IInv, NEW p \in Processes, NEW e, NEW next \in Steps, IsEvent(e),
         Writes(p, e, next),
         e.kind = "result_recorded" =>
           at[p].pc = "result" /\ e.invocation = Ident(at[p]),
         e.kind = "run_transition" /\ e.target = "succeeded" => at[p].pc = "finish",
         next \in Attempting =>
           e.kind = "budget_consumed" /\ e.claim = <<Ident(at[p]), "tool_attempts">>,
         Commits(at[p].version, e) /\ next # "idle" =>
           Placed([at[p] EXCEPT !.pc = next, !.loaded = FALSE], Applied(run, e), ran, artifacts)
  PROVE  IInv'
<1>1. CASE ~Commits(at[p].version, e)
  <2>1. Raise(p) /\ UNCHANGED <<run, completed, ran, artifacts>>
    BY <1>1 DEF Writes
  <2> QED BY <2>1, RaiseKeeps DEF IInv, TypeInv
<1>2. CASE Commits(at[p].version, e)
  <2> DEFINE b == IF next = "idle" THEN Idle
                  ELSE [at[p] EXCEPT !.pc = next, !.loaded = FALSE]
  <2>1. /\ run' = Applied(run, e) /\ UNCHANGED <<completed, ran, artifacts>>
        /\ at' = [at EXCEPT ![p] = b]
    BY <1>2 DEF Writes, Append, IInv, TypeInv
  <2>2. run \in RunType /\ run' \in RunType /\ Grows(run, run') /\ Replays(run, e)
    BY <1>2, <2>1, AppliedGrows DEF Commits, IInv, TypeInv
  <2>3. b \in AtType /\ (b.pc # "idle" => Ident(b) = Ident(at[p])) /\ b.pc = next
    BY IdlePlaced, <2>2 DEF IInv, TypeInv, AtType, Ident, Idle
  <2>4. Placed(b, run', ran', artifacts')
    BY <1>2, <2>1, <2>2, IdlePlaced
  <2>5. /\ e.kind # "result_recorded" => run'.results = run.results
        /\ e.kind = "result_recorded" => run'.results = run.results \cup {Ident(at[p])}
        /\ run'.lifecycle = "succeeded" =>
             run.lifecycle = "succeeded" \/ at[p].pc = "finish"
    <3>1. /\ run'.results = IF e.kind = "result_recorded"
                            THEN run.results \cup {e.invocation} ELSE run.results
          /\ run'.lifecycle = IF e.kind = "run_transition" THEN e.target ELSE run.lifecycle
      BY <2>1, <2>2, AppliedFields
    <3> QED BY <3>1
  <2>6. at[p].pc = "result" =>
          /\ Ident(at[p]) \in run.dispatched /\ Ident(at[p]) \in artifacts
          /\ <<Ident(at[p]), "tool_attempts">> \in run.claims
    BY DEF IInv, Placed, Begun, Attempting
  <2> HIDE DEF b
  <2>7. TypeInv'
    BY <2>1, <2>2, <2>3 DEF IInv, TypeInv
  <2>8. Ledger(run, ran, artifacts, completed)'
    <3>1. ASSUME NEW i \in Invocations
          PROVE  /\ ran'[i] \in {0, 1}
                 /\ ran'[i] = 1 =>
                      /\ i \in run'.dispatched /\ i \in run'.keys
                      /\ <<i, "tool_calls">> \in run'.claims
                      /\ <<i, "tool_attempts">> \in run'.claims
                 /\ i \in run'.results => /\ <<i, "tool_attempts">> \in run'.claims
                                          /\ i \in run'.dispatched /\ i \in artifacts'
                 /\ \A q \in Processes : i \in completed'[q] => ran'[i] = 1
      BY <2>1, <2>2, <2>5, <2>6 DEF IInv, Ledger, Grows
    <3>2. ASSUME run'.lifecycle = "succeeded"
          PROVE  \E i \in run'.results : run'.tools[i] = "succeeded" /\ ran'[i] = 1
      <4>1. CASE run.lifecycle = "succeeded"
        <5>1. PICK i \in run.results : run.tools[i] = "succeeded" /\ ran[i] = 1
          BY <4>1 DEF IInv, Ledger
        <5> QED BY <5>1, <2>1, <2>2 DEF Grows, RunType
      <4>2. CASE at[p].pc = "finish"
        <5>1. /\ Ident(at[p]) \in run.results /\ ran[Ident(at[p])] = 1
              /\ run.tools[Ident(at[p])] = "succeeded"
          BY <4>2 DEF IInv, Placed, Recorded
        <5> QED BY <5>1, <2>1, <2>2 DEF Grows, RunType
      <4> QED BY <3>2, <4>1, <4>2, <2>5
    <3> QED BY <3>1, <3>2 DEF Ledger
  <2>9. Apart(at)'
    <3>1. ASSUME NEW q \in Processes, q # p, next \in Attempting, at[q].pc \in Attempting
          PROVE  Ident(b) # Ident(at[q])
      <4>1. <<Ident(at[p]), "tool_attempts">> \notin run.claims
        BY <3>1, <2>2 DEF Replays
      <4>2. <<Ident(at[q]), "tool_attempts">> \in run.claims
        BY <3>1 DEF IInv, Placed
      <4>3. Ident(b) = Ident(at[p])
        BY <3>1, <2>3 DEF Attempting
      <4> QED BY <4>1, <4>2, <4>3
    <3>2. \A q \in Processes : at'[q] = IF q = p THEN b ELSE at[q]
      BY <2>1 DEF IInv, TypeInv
    <3> QED BY <3>1, <3>2, <2>3 DEF IInv, Apart
  <2>10. ASSUME NEW q \in Processes
         PROVE  Placed(at[q], run, ran, artifacts)'
    <3>1. CASE q = p
      BY <3>1, <2>1, <2>4 DEF IInv, TypeInv
    <3>2. CASE q # p
      <4>1. at'[q] = at[q] /\ at[q] \in AtType
        BY <3>2, <2>1 DEF IInv, TypeInv
      <4>2. at[q].pc \in Attempting => Ident(at[q]) \notin run'.results
        BY <3>2, <2>5 DEF IInv, Placed, Apart, Attempting
      <4>3. Placed(at[q], run, ran, artifacts)
        BY DEF IInv
      <4>4. Placed(at[q], run', ran', artifacts')
        BY <4>1, <4>2, <4>3, <2>1, <2>2, PlacedKeeps
      <4> QED BY <4>1, <4>4
    <3> QED BY <3>1, <3>2
  <2> QED BY <2>7, <2>8, <2>9, <2>10 DEF IInv
<1> QED BY <1>1, <1>2

\* A step of a turn appends what the next place needs to know.
Admissible(a, e, next) ==
  /\ a.pc # "idle" /\ next \in Steps /\ IsEvent(e)
  /\ next \in Decided => a.pc \in Decided
  /\ next = "end" => a.pc = "decision" /\ a.intent \notin Tools
  /\ next \in InTool => a.intent \in Tools
  /\ next \in Keyed =>
       \/ a.pc \in Keyed
       \/ e.kind = "authorization_recorded" /\ e.invocation = Ident(a)
  /\ next \in Paid =>
       \/ a.pc \in Paid
       \/ e.kind = "budget_consumed" /\ e.claim = <<Ident(a), "tool_calls">>
  /\ next \in Begun =>
       \/ a.pc \in Begun
       \/ e.kind = "dispatch_started" /\ e.invocation = Ident(a)
  /\ next \in Attempting =>
       /\ next = "execute"
       /\ e.kind = "budget_consumed" /\ e.claim = <<Ident(a), "tool_attempts">>
  /\ next \in Recorded => a.pc \in Recorded \/ e.kind = "result_recorded"
  /\ next \in Recorded \ {"tool_status"} =>
       \/ a.pc \in Recorded \ {"tool_status"}
       \/ e.kind = "tool_transition" /\ e.invocation = Ident(a) /\ e.target = a.raw
  /\ next = "finish" => a.raw = "succeeded"
  /\ e.kind = "result_recorded" => a.pc = "result" /\ e.invocation = Ident(a)
  /\ e.kind = "run_transition" /\ e.target = "succeeded" => a.pc = "finish"

\* An admissible append, committed or refused, keeps the invariant.
LEMMA AppendKeeps ==
  ASSUME IInv, NEW p \in Processes, NEW e, NEW next,
         Admissible(at[p], e, next), Writes(p, e, next)
  PROVE  IInv'
<1> DEFINE a == at[p]
           b == [a EXCEPT !.pc = next, !.loaded = FALSE]
           t == Applied(run, e)
<1>1. IsEvent(e) /\ next \in Steps
  BY DEF Admissible
<1>2. ASSUME Commits(a.version, e)
      PROVE  Placed(b, t, ran, artifacts)
  <2>1. /\ a \in AtType /\ Placed(a, run, ran, artifacts)
        /\ run \in RunType /\ Ledger(run, ran, artifacts, completed)
    BY DEF IInv, TypeInv
  <2>2. t \in RunType /\ Grows(run, t) /\ Replays(run, e)
    BY <1>1, <1>2, <2>1, AppliedGrows DEF Commits
  <2>3. /\ t.claims = IF e.kind = "budget_consumed" THEN run.claims \cup {e.claim}
                      ELSE run.claims
        /\ t.keys = IF e.kind = "authorization_recorded" THEN run.keys \cup {e.invocation}
                    ELSE run.keys
        /\ t.dispatched = IF e.kind = "dispatch_started"
                          THEN run.dispatched \cup {e.invocation} ELSE run.dispatched
        /\ t.results = IF e.kind = "result_recorded" THEN run.results \cup {e.invocation}
                       ELSE run.results
        /\ e.kind = "tool_transition" => t.tools[e.invocation] = e.target
    BY <1>1, <2>1, AppliedFields
  <2>4. /\ b.pc = next /\ Ident(b) = Ident(a) /\ b.raw = a.raw /\ b.version = a.version
        /\ b.turn = a.turn /\ b.intent = a.intent
    BY <2>1 DEF AtType, Ident
  <2> HIDE DEF t, b, a
  <2>5. b.version <= t.version /\ b.turn \in Turns
    BY <2>1, <2>2, <2>4 DEF Placed, Grows, AtType, RunType, Admissible, a
  <2>13. /\ next \in Decided => b.intent \in Intents
         /\ next = "end" => b.intent \in Intents \ Tools
    BY <2>1, <2>4 DEF Placed, Admissible, Decided, a
  <2>6. next \in InTool => b.intent \in Tools /\ Ident(a) \in Invocations
    BY <2>4, <2>5 DEF Admissible, Ident, Invocations, a
  <2>7. /\ next \in Keyed => Ident(a) \in t.keys
        /\ next \in Paid => <<Ident(a), "tool_calls">> \in t.claims
        /\ next \in Begun => Ident(a) \in t.dispatched
        /\ next \in Recorded => Ident(a) \in t.results
    BY <2>1, <2>2, <2>3 DEF Admissible, Placed, Grows, a
  <2>8. next \in Attempting =>
          /\ <<Ident(a), "tool_attempts">> \in t.claims
          /\ Ident(a) \notin t.results /\ ran[Ident(a)] = 0 /\ next = "execute"
    <3>1. SUFFICES ASSUME next \in Attempting
                   PROVE  /\ <<Ident(a), "tool_attempts">> \in t.claims
                          /\ Ident(a) \notin t.results /\ ran[Ident(a)] = 0
                          /\ next = "execute"
      OBVIOUS
    <3>2. /\ next = "execute" /\ e.kind = "budget_consumed"
          /\ e.claim = <<Ident(a), "tool_attempts">>
      BY <3>1 DEF Admissible, a
    <3>3. <<Ident(a), "tool_attempts">> \notin run.claims
      BY <3>2, <2>2 DEF Replays
    <3>4. Ident(a) \in Invocations
      BY <3>1, <2>6 DEF InTool, Keyed, Paid, Begun
    <3>5. ran[Ident(a)] = 0 /\ Ident(a) \notin run.results
      BY <3>3, <3>4, <2>1 DEF Ledger
    <3> QED BY <3>2, <3>5, <2>3
  <2>9. next \in Recorded /\ a.raw = "succeeded" => ran[Ident(a)] = 1
    BY <2>1 DEF Admissible, Placed, a
  <2>10. next \in Recorded \ {"tool_status"} /\ a.raw = "succeeded" =>
           t.tools[Ident(a)] = "succeeded"
    <3>1. CASE a.pc \in Recorded \ {"tool_status"}
      <4>1. a.pc \in InTool /\ a.pc # "idle"
        BY <3>1 DEF InTool, Keyed, Paid, Begun, Recorded
      <4>2. Ident(a) \in Invocations
        BY <4>1, <2>1 DEF Placed, Ident, Invocations
      <4> QED BY <3>1, <4>2, <2>1, <2>2 DEF Placed, Grows
    <3>2. CASE e.kind = "tool_transition" /\ e.invocation = Ident(a) /\ e.target = a.raw
      BY <3>2, <2>3
    <3> QED BY <3>1, <3>2 DEF Admissible, a
  <2>11. next = "finish" => b.raw = "succeeded"
    BY <2>4 DEF Admissible, a
  <2>12. /\ next \in Attempting => next \notin Recorded \cup {"normalize", "result", "running"}
         /\ next \in {"execute", "normalize", "result", "running"} => next \in Attempting
    BY <2>8 DEF Attempting, Recorded
  <2> QED BY <2>4, <2>5, <2>6, <2>7, <2>8, <2>9, <2>10, <2>11, <2>12, <2>13 DEF Placed
<1> HIDE DEF b, t
<1>3. /\ e.kind = "result_recorded" => at[p].pc = "result" /\ e.invocation = Ident(at[p])
      /\ e.kind = "run_transition" /\ e.target = "succeeded" => at[p].pc = "finish"
      /\ next \in Attempting =>
           e.kind = "budget_consumed" /\ e.claim = <<Ident(at[p]), "tool_attempts">>
  BY DEF Admissible
<1> QED BY <1>1, <1>2, <1>3, WritesKeeps DEF b, t

-----------------------------------------------------------------------------
(* The steps of a turn *)

\* What a process knows of the invocation it works on.
LEMMA InHand ==
  ASSUME IInv, NEW p \in Processes
  PROVE  /\ at[p] \in AtType /\ Placed(at[p], run, ran, artifacts) /\ Inv(p) = Ident(at[p])
         /\ at[p].pc # "idle" => at[p].turn \in Turns
         /\ at[p].pc \in InTool => at[p].intent \in Tools /\ Inv(p) \in Invocations
<1>1. at[p] \in AtType /\ Placed(at[p], run, ran, artifacts)
  BY DEF IInv, TypeInv
<1>2. at[p].pc \in InTool => at[p].pc # "idle"
  BY DEF InTool, Keyed, Paid, Begun, Attempting, Recorded
<1> QED BY <1>1, <1>2 DEF Placed, Inv, Ident, Invocations

\* The steps that append one event each.
LEMMA AppendSteps ==
  ASSUME IInv, NEW p \in Processes,
         \/ RecordInference(p) \/ ConsumeTurn(p) \/ RecordDecision(p) \/ BlockSubmit(p)
         \/ Propose(p) \/ RecordArguments(p) \/ ArgsReady(p) \/ RecordAuthorization(p)
         \/ Authorized(p) \/ ConsumeCall(p) \/ StartDispatch(p) \/ Dispatched(p)
         \/ ConsumeAttempt(p) \/ RecordResult(p) \/ ToolStatus(p) \/ Observe(p)
         \/ RecordFlow(p) \/ Succeed(p)
  PROVE  IInv'
<1> USE DEF Decided, InTool, Keyed, Paid, Begun, Attempting, Recorded, Steps
<1>0. /\ at[p] \in AtType /\ Inv(p) = Ident(at[p])
      /\ at[p].pc # "idle" => at[p].turn \in Turns
      /\ at[p].pc \in InTool => at[p].intent \in Tools /\ Inv(p) \in Invocations
  BY InHand
<1>1. CASE RecordInference(p)
  <2> DEFINE e == Record("inference_completed")
             next == "turns"
  <2>1. at[p].pc = "inference_completed" /\ Writes(p, e, next)
    BY <1>1 DEF RecordInference, Ready
  <2>2. Admissible(at[p], e, next)
    <3>1. IsEvent(e)
      BY <1>0, <2>1 DEF IsEvent, Record
    <3> QED BY <1>0, <2>1, <3>1 DEF Admissible, Record
  <2> HIDE DEF e, next
  <2> QED BY <2>1, <2>2, AppendKeeps
<1>2. CASE ConsumeTurn(p)
  <2> DEFINE e == Consumed(at[p].turn, "turns", 1)
             next == "tokens"
  <2>1. at[p].pc = "turns" /\ Writes(p, e, next)
    BY <1>2 DEF ConsumeTurn, Ready
  <2>2. Admissible(at[p], e, next)
    <3>1. IsEvent(e)
      BY <1>0, <2>1 DEF IsEvent, Consumed, Categories
    <3> QED BY <1>0, <2>1, <3>1 DEF Admissible, Consumed
  <2> HIDE DEF e, next
  <2> QED BY <2>1, <2>2, AppendKeeps
<1>3. CASE RecordDecision(p)
  <2> DEFINE e == Record("decision_recorded")
             next == IF at[p].intent \in Tools THEN "compile" ELSE "end"
  <2>1. at[p].pc = "decision" /\ Writes(p, e, next)
    BY <1>3 DEF RecordDecision, Ready
  <2>2. Admissible(at[p], e, next)
    <3>1. IsEvent(e)
      BY <1>0, <2>1 DEF IsEvent, Record
    <3> QED BY <1>0, <2>1, <3>1 DEF Admissible, Record
  <2> HIDE DEF e, next
  <2> QED BY <2>1, <2>2, AppendKeeps
<1>4. CASE BlockSubmit(p)
  <2> DEFINE e == GateTransition("blocked")
             next == "idle"
  <2>1. at[p].pc = "blocked" /\ Writes(p, e, next)
    BY <1>4 DEF BlockSubmit, Ready
  <2>2. Admissible(at[p], e, next)
    <3>1. IsEvent(e)
      BY <1>0, <2>1 DEF IsEvent, GateTransition, RunLifecycle, RunTerminal
    <3> QED BY <1>0, <2>1, <3>1 DEF Admissible, GateTransition
  <2> HIDE DEF e, next
  <2> QED BY <2>1, <2>2, AppendKeeps
<1>5. CASE Propose(p)
  <2> DEFINE e == Proposed(Inv(p))
             next == "arguments"
  <2>1. at[p].pc = "propose" /\ Writes(p, e, next)
    BY <1>5 DEF Propose, Ready
  <2>2. Admissible(at[p], e, next)
    <3>1. IsEvent(e)
      BY <1>0, <2>1 DEF IsEvent, Proposed
    <3> QED BY <1>0, <2>1, <3>1 DEF Admissible, Proposed
  <2> HIDE DEF e, next
  <2> QED BY <2>1, <2>2, AppendKeeps
<1>6. CASE RecordArguments(p)
  <2> DEFINE e == InvocationRecord("arguments_compiled", Inv(p))
             next == "args_ready"
  <2>1. at[p].pc = "arguments" /\ Writes(p, e, next)
    BY <1>6 DEF RecordArguments, Ready
  <2>2. Admissible(at[p], e, next)
    <3>1. IsEvent(e)
      BY <1>0, <2>1 DEF IsEvent, InvocationRecord
    <3> QED BY <1>0, <2>1, <3>1 DEF Admissible, InvocationRecord
  <2> HIDE DEF e, next
  <2> QED BY <2>1, <2>2, AppendKeeps
<1>7. CASE ArgsReady(p)
  <2> DEFINE e == ToolTransition(Inv(p), "args_ready")
             next == "authorize"
  <2>1. at[p].pc = "args_ready" /\ Writes(p, e, next)
    BY <1>7 DEF ArgsReady, Ready
  <2>2. Admissible(at[p], e, next)
    <3>1. IsEvent(e)
      BY <1>0, <2>1 DEF IsEvent, ToolTransition, ToolLifecycle
    <3> QED BY <1>0, <2>1, <3>1 DEF Admissible, ToolTransition
  <2> HIDE DEF e, next
  <2> QED BY <2>1, <2>2, AppendKeeps
<1>8. CASE RecordAuthorization(p)
  <2> DEFINE e == InvocationRecord("authorization_recorded", Inv(p))
             next == IF at[p].allow THEN "authorized" ELSE "refused"
  <2>1. at[p].pc = "authorization" /\ Writes(p, e, next)
    BY <1>8 DEF RecordAuthorization, Ready
  <2>2. Admissible(at[p], e, next)
    <3>1. IsEvent(e)
      BY <1>0, <2>1 DEF IsEvent, InvocationRecord
    <3> QED BY <1>0, <2>1, <3>1 DEF Admissible, InvocationRecord
  <2> HIDE DEF e, next
  <2> QED BY <2>1, <2>2, AppendKeeps
<1>9. CASE Authorized(p)
  <2> DEFINE e == ToolTransition(Inv(p), "authorized")
             next == "tool_calls"
  <2>1. at[p].pc = "authorized" /\ Writes(p, e, next)
    BY <1>9 DEF Authorized, Ready
  <2>2. Admissible(at[p], e, next)
    <3>1. IsEvent(e)
      BY <1>0, <2>1 DEF IsEvent, ToolTransition, ToolLifecycle
    <3> QED BY <1>0, <2>1, <3>1 DEF Admissible, ToolTransition
  <2> HIDE DEF e, next
  <2> QED BY <2>1, <2>2, AppendKeeps
<1>10. CASE ConsumeCall(p)
  <2> DEFINE e == Consumed(Inv(p), "tool_calls", 1)
             next == "dispatch"
  <2>1. at[p].pc = "tool_calls" /\ Writes(p, e, next)
    BY <1>10 DEF ConsumeCall, Ready
  <2>2. Admissible(at[p], e, next)
    <3>1. IsEvent(e)
      BY <1>0, <2>1 DEF IsEvent, Consumed, Categories
    <3> QED BY <1>0, <2>1, <3>1 DEF Admissible, Consumed
  <2> HIDE DEF e, next
  <2> QED BY <2>1, <2>2, AppendKeeps
<1>11. CASE StartDispatch(p)
  <2> DEFINE e == InvocationRecord("dispatch_started", Inv(p))
             next == "dispatched"
  <2>1. at[p].pc = "dispatch" /\ Writes(p, e, next)
    BY <1>11 DEF StartDispatch, Ready
  <2>2. Admissible(at[p], e, next)
    <3>1. IsEvent(e)
      BY <1>0, <2>1 DEF IsEvent, InvocationRecord
    <3> QED BY <1>0, <2>1, <3>1 DEF Admissible, InvocationRecord
  <2> HIDE DEF e, next
  <2> QED BY <2>1, <2>2, AppendKeeps
<1>12. CASE Dispatched(p)
  <2> DEFINE e == ToolTransition(Inv(p), "dispatched")
             next == "tool_attempts"
  <2>1. at[p].pc = "dispatched" /\ Writes(p, e, next)
    BY <1>12 DEF Dispatched, Ready
  <2>2. Admissible(at[p], e, next)
    <3>1. IsEvent(e)
      BY <1>0, <2>1 DEF IsEvent, ToolTransition, ToolLifecycle
    <3> QED BY <1>0, <2>1, <3>1 DEF Admissible, ToolTransition
  <2> HIDE DEF e, next
  <2> QED BY <2>1, <2>2, AppendKeeps
<1>13. CASE ConsumeAttempt(p)
  <2> DEFINE e == Consumed(Inv(p), "tool_attempts", 1)
             next == "execute"
  <2>1. at[p].pc = "tool_attempts" /\ Writes(p, e, next)
    BY <1>13 DEF ConsumeAttempt, Ready
  <2>2. Admissible(at[p], e, next)
    <3>1. IsEvent(e)
      BY <1>0, <2>1 DEF IsEvent, Consumed, Categories
    <3> QED BY <1>0, <2>1, <3>1 DEF Admissible, Consumed
  <2> HIDE DEF e, next
  <2> QED BY <2>1, <2>2, AppendKeeps
<1>14. CASE RecordResult(p)
  <2> DEFINE e == InvocationRecord("result_recorded", Inv(p))
             next == "tool_status"
  <2>1. at[p].pc = "result" /\ Writes(p, e, next)
    BY <1>14 DEF RecordResult, Ready
  <2>2. Admissible(at[p], e, next)
    <3>1. IsEvent(e)
      BY <1>0, <2>1 DEF IsEvent, InvocationRecord
    <3> QED BY <1>0, <2>1, <3>1 DEF Admissible, InvocationRecord
  <2> HIDE DEF e, next
  <2> QED BY <2>1, <2>2, AppendKeeps
<1>15. CASE ToolStatus(p)
  <2> DEFINE e == ToolTransition(Inv(p), at[p].raw)
             next == "observing"
  <2>1. at[p].pc = "tool_status" /\ Writes(p, e, next)
    BY <1>15 DEF ToolStatus, Ready
  <2>2. Admissible(at[p], e, next)
    <3>1. IsEvent(e)
      BY <1>0, <2>1 DEF IsEvent, ToolTransition, ToolLifecycle, AtType, Raw
    <3> QED BY <1>0, <2>1, <3>1 DEF Admissible, ToolTransition
  <2> HIDE DEF e, next
  <2> QED BY <2>1, <2>2, AppendKeeps
<1>16. CASE Observe(p)
  <2> DEFINE e == Transition("observing")
             next == "flow"
  <2>1. at[p].pc = "observing" /\ Writes(p, e, next)
    BY <1>16 DEF Observe, Ready
  <2>2. Admissible(at[p], e, next)
    <3>1. IsEvent(e)
      BY <1>0, <2>1 DEF IsEvent, Transition, RunLifecycle
    <3> QED BY <1>0, <2>1, <3>1 DEF Admissible, Transition
  <2> HIDE DEF e, next
  <2> QED BY <2>1, <2>2, AppendKeeps
<1>17. CASE RecordFlow(p)
  <2> DEFINE e == Record("flow_decided")
             next == "target"
  <2>1. at[p].pc = "flow" /\ Writes(p, e, next)
    BY <1>17 DEF RecordFlow, Ready
  <2>2. Admissible(at[p], e, next)
    <3>1. IsEvent(e)
      BY <1>0, <2>1 DEF IsEvent, Record
    <3> QED BY <1>0, <2>1, <3>1 DEF Admissible, Record
  <2> HIDE DEF e, next
  <2> QED BY <2>1, <2>2, AppendKeeps
<1>18. CASE Succeed(p)
  <2> DEFINE e == GateTransition("succeeded")
             next == "idle"
  <2>1. at[p].pc = "finish" /\ Writes(p, e, next)
    BY <1>18 DEF Succeed, Ready
  <2>2. Admissible(at[p], e, next)
    <3>1. IsEvent(e)
      BY <1>0, <2>1 DEF IsEvent, GateTransition, RunLifecycle, RunTerminal
    <3> QED BY <1>0, <2>1, <3>1 DEF Admissible, GateTransition
  <2> HIDE DEF e, next
  <2> QED BY <2>1, <2>2, AppendKeeps
<1> QED BY <1>1, <1>2, <1>3, <1>4, <1>5, <1>6, <1>7, <1>8, <1>9, <1>10, <1>11,
           <1>12, <1>13, <1>14, <1>15, <1>16, <1>17, <1>18

\* The steps that append one event of several, or none.
LEMMA ChoiceSteps ==
  ASSUME IInv, NEW p \in Processes,
         \/ ConsumeTokens(p) \/ ConsumeMs(p) \/ HandleNonTool(p) \/ Compile(p)
         \/ Refuse(p) \/ FollowFlow(p) \/ Accept(p)
  PROVE  IInv'
<1> USE DEF Decided, InTool, Keyed, Paid, Begun, Attempting, Recorded, Steps
<1>0. /\ at[p] \in AtType /\ Inv(p) = Ident(at[p])
      /\ at[p].pc # "idle" => at[p].turn \in Turns
      /\ at[p].pc \in InTool => at[p].intent \in Tools /\ Inv(p) \in Invocations
  BY InHand
<1>1. ASSUME NEW from \in {"tokens", "ms"}, NEW to \in {"ms", "decision"},
             at[p].pc = from, Goto(p, to), Local
      PROVE  IInv'
  <2> DEFINE b == [at[p] EXCEPT !.pc = to]
  <2>1. /\ b \in AtType /\ b.pc = to /\ b.version = at[p].version /\ b.turn = at[p].turn
        /\ b.intent = at[p].intent /\ at' = [at EXCEPT ![p] = b]
    BY <1>0, <1>1 DEF AtType, Goto, IInv, TypeInv
  <2> HIDE DEF b
  <2>2. Placed(b, run, ran, artifacts) /\ b.pc \notin Attempting
    BY <1>0, <1>1, <2>1, InHand DEF Placed
  <2> QED BY <1>1, <2>1, <2>2, MoveKeeps DEF Local, IInv, TypeInv
<1>2. CASE ConsumeTokens(p)
  <2>1. CASE at[p].use[1] > 0
    <3> DEFINE e == Consumed(at[p].turn, "inference_tokens", at[p].use[1])
    <3>1. at[p].pc = "tokens" /\ Writes(p, e, "ms")
      BY <1>2, <2>1 DEF ConsumeTokens, Ready
    <3>2. IsEvent(e)
      BY <1>0, <3>1 DEF IsEvent, Consumed, Categories, AtType
    <3>3. Admissible(at[p], e, "ms")
      BY <1>0, <3>1, <3>2 DEF Admissible, Consumed
    <3> HIDE DEF e
    <3> QED BY <3>1, <3>3, AppendKeeps
  <2>2. CASE ~(at[p].use[1] > 0)
    BY <1>1, <1>2, <2>2 DEF ConsumeTokens, Ready
  <2> QED BY <2>1, <2>2
<1>3. CASE ConsumeMs(p)
  <2>1. CASE at[p].use[2] > 0
    <3> DEFINE e == Consumed(at[p].turn, "inference_ms", at[p].use[2])
    <3>1. at[p].pc = "ms" /\ Writes(p, e, "decision")
      BY <1>3, <2>1 DEF ConsumeMs, Ready
    <3>2. IsEvent(e)
      BY <1>0, <3>1 DEF IsEvent, Consumed, Categories, AtType
    <3>3. Admissible(at[p], e, "decision")
      BY <1>0, <3>1, <3>2 DEF Admissible, Consumed
    <3> HIDE DEF e
    <3> QED BY <3>1, <3>3, AppendKeeps
  <2>2. CASE ~(at[p].use[2] > 0)
    BY <1>1, <1>3, <2>2 DEF ConsumeMs, Ready
  <2> QED BY <2>1, <2>2
<1>4. CASE HandleNonTool(p)
  <2>1. at[p].pc = "end"
    BY <1>4 DEF HandleNonTool, Ready
  <2>6. at[p].intent \in Intents \ Tools
    BY <2>1, InHand DEF Placed
  <2>2. ASSUME NEW e, NEW next, Writes(p, e, next),
               \/ e = Transition("waiting_user") /\ next = "idle"
               \/ e = Transition("blocked") /\ next = "idle"
               \/ e = Accepted(FALSE) /\ next = "blocked"
        PROVE  IInv'
    <3>1. IsEvent(e)
      BY <2>2 DEF IsEvent, Transition, Accepted, RunLifecycle, RunTerminal
    <3>2. Admissible(at[p], e, next)
      BY <2>1, <2>2, <3>1 DEF Admissible, Transition, Accepted
    <3> QED BY <2>2, <3>2, AppendKeeps
  <2>3. CASE at[p].intent = "ask_user"
    BY <1>4, <2>2, <2>3 DEF HandleNonTool
  <2>4. CASE at[p].intent = "blocked"
    BY <1>4, <2>2, <2>4 DEF HandleNonTool
  <2>5. CASE at[p].intent = "submit"
    BY <1>4, <2>2, <2>5 DEF HandleNonTool
  <2> QED BY <2>3, <2>4, <2>5, <2>6 DEF Intents
<1>5. CASE Compile(p)
  <2>1. at[p].pc = "compile"
    BY <1>5 DEF Compile, Ready
  <2>2. CASE Writes(p, Transition("waiting_tool"), "propose")
    <3>1. IsEvent(Transition("waiting_tool"))
      BY DEF IsEvent, Transition, RunLifecycle
    <3>2. Admissible(at[p], Transition("waiting_tool"), "propose")
      BY <1>0, <2>1, <3>1 DEF Admissible, Transition
    <3> QED BY <2>2, <3>2, AppendKeeps
  <2>3. CASE Raise(p) /\ Local
    BY <2>3, RaiseKeeps DEF Local, IInv, TypeInv
  <2> QED BY <1>5, <2>2, <2>3 DEF Compile
<1>6. CASE Refuse(p)
  <2>1. at[p].pc = "refused"
    BY <1>6 DEF Refuse, Ready
  <2>2. PICK t \in {"denied", "waiting_approval"} :
             Writes(p, ToolTransition(Inv(p), t), "idle")
    BY <1>6 DEF Refuse
  <2>3. IsEvent(ToolTransition(Inv(p), t))
    BY <1>0, <2>1, <2>2 DEF IsEvent, ToolTransition, ToolLifecycle
  <2>4. Admissible(at[p], ToolTransition(Inv(p), t), "idle")
    BY <2>1, <2>3 DEF Admissible, ToolTransition
  <2> QED BY <2>2, <2>4, AppendKeeps
<1>7. CASE FollowFlow(p)
  <2> DEFINE t == FlowTarget(at[p].raw)
             next == IF t = "verifying" THEN "accept" ELSE "idle"
  <2>1. at[p].pc = "target" /\ Writes(p, Transition(t), next)
    BY <1>7 DEF FollowFlow, Ready
  <2>2. t \in {"paused", "deciding", "verifying"} /\ next \in {"accept", "idle"}
    BY DEF FlowTarget
  <2> HIDE DEF t, next
  <2>3. IsEvent(Transition(t))
    BY <2>2 DEF IsEvent, Transition, RunLifecycle
  <2>4. Admissible(at[p], Transition(t), next)
    BY <1>0, <2>1, <2>2, <2>3 DEF Admissible, Transition
  <2> QED BY <2>1, <2>4, AppendKeeps
<1>8. CASE Accept(p)
  <2>1. at[p].pc = "accept"
    BY <1>8 DEF Accept, Ready
  <2>2. PICK ok \in BOOLEAN :
             /\ ok => at[p].raw = "succeeded"
             /\ Writes(p, Accepted(ok), IF ok THEN "finish" ELSE "blocked")
    BY <1>8 DEF Accept
  <2>3. IsEvent(Accepted(ok))
    BY DEF IsEvent, Accepted
  <2>4. CASE ok
    <3>1. Admissible(at[p], Accepted(ok), "finish")
      BY <1>0, <2>1, <2>2, <2>3, <2>4 DEF Admissible, Accepted
    <3> QED BY <2>2, <2>4, <3>1, AppendKeeps
  <2>5. CASE ~ok
    <3>1. Admissible(at[p], Accepted(ok), "blocked")
      BY <1>0, <2>1, <2>3 DEF Admissible, Accepted
    <3> QED BY <2>2, <2>5, <3>1, AppendKeeps
  <2> QED BY <2>4, <2>5
<1> QED BY <1>2, <1>3, <1>4, <1>5, <1>6, <1>7, <1>8

\* The steps that touch no log: each moves its process to a place it may be in.
LEMMA MoveSteps ==
  ASSUME IInv, NEW p \in Processes,
         \/ Load(p) \/ Infer(p) \/ Authorize(p) \/ Crash(p)
         \/ \E t \in Turns : Begin(p, t)
  PROVE  IInv'
<1> USE DEF Decided, InTool, Keyed, Paid, Begun, Attempting, Recorded, Steps
<1>0. /\ at[p] \in AtType /\ Inv(p) = Ident(at[p]) /\ run \in RunType
      /\ Placed(at[p], run, ran, artifacts)
      /\ completed \in [Processes -> SUBSET Invocations]
  BY InHand DEF IInv, TypeInv
<1>1. CASE Load(p)
  <2> DEFINE b == [at[p] EXCEPT !.loaded = TRUE, !.version = run.version]
  <2>1. at' = [at EXCEPT ![p] = b] /\ Local
    BY <1>1 DEF Load, IInv, TypeInv
  <2>2. /\ b \in AtType /\ b.pc = at[p].pc /\ Ident(b) = Ident(at[p])
        /\ b.raw = at[p].raw /\ b.version <= run.version
        /\ b.turn = at[p].turn /\ b.intent = at[p].intent
    <3> HIDE DEF Steps
    <3>1. run.version \in Nat
      BY <1>0 DEF RunType
    <3>2. b \in AtType
      BY <1>0, <3>1 DEF AtType
    <3>3. b.version = run.version /\ run.version <= run.version
      BY <1>0, <3>1 DEF AtType
    <3> QED BY <1>0, <3>2, <3>3 DEF AtType, Ident
  <2> HIDE DEF b
  <2>3. Placed(b, run, ran, artifacts)
    BY <1>0, <2>2 DEF Placed
  <2> QED BY <1>0, <2>1, <2>2, <2>3, MoveKeeps DEF Local
<1>2. CASE Infer(p)
  <2>1. at[p].pc = "infer" /\ Local
    BY <1>2 DEF Infer, Ready
  <2>2. CASE Raise(p)
    BY <1>0, <2>1, <2>2, RaiseKeeps DEF Local
  <2>3. ASSUME NEW i \in Intents, NEW u \in Usage,
               at' = [at EXCEPT ![p].pc = "inference_completed", ![p].intent = i,
                                ![p].use = u]
        PROVE  IInv'
    <3> DEFINE b == [at[p] EXCEPT !.pc = "inference_completed", !.intent = i, !.use = u]
    <3>1. at' = [at EXCEPT ![p] = b]
      BY <2>3 DEF IInv, TypeInv
    <3>2. u \in Nat \X Nat
      BY UsageAssumption
    <3>3. /\ b \in AtType /\ b.pc = "inference_completed" /\ b.intent = i
          /\ b.version = at[p].version /\ b.turn = at[p].turn
      BY <1>0, <3>2 DEF AtType
    <3> HIDE DEF b
    <3>4. Placed(b, run, ran, artifacts)
      BY <1>0, <2>1, <3>3 DEF Placed
    <3> QED BY <1>0, <2>1, <3>1, <3>3, <3>4, MoveKeeps DEF Local
  <2> QED BY <1>2, <2>2, <2>3 DEF Infer
<1>3. CASE Authorize(p)
  <2>1. at[p].pc = "authorize" /\ Local
    BY <1>3 DEF Authorize, Ready
  <2>2. PICK allow \in BOOLEAN :
             at' = [at EXCEPT ![p].pc = "authorization", ![p].allow = allow]
    BY <1>3 DEF Authorize
  <2> DEFINE b == [at[p] EXCEPT !.pc = "authorization", !.allow = allow]
  <2>3. at' = [at EXCEPT ![p] = b]
    BY <2>2 DEF IInv, TypeInv
  <2>4. /\ b \in AtType /\ b.pc = "authorization" /\ b.intent = at[p].intent
        /\ b.version = at[p].version /\ b.turn = at[p].turn
    BY <1>0, ZenonT(60) DEF AtType
  <2> HIDE DEF b
  <2>5. Placed(b, run, ran, artifacts)
    BY <1>0, <2>1, <2>4 DEF Placed
  <2> QED BY <1>0, <2>1, <2>3, <2>4, <2>5, MoveKeeps DEF Local
<1>4. CASE Crash(p)
  <2>1. /\ Raise(p) /\ UNCHANGED <<run, ran, artifacts>>
        /\ completed' = [completed EXCEPT ![p] = {}]
    BY <1>4 DEF Crash
  <2>2. /\ completed' \in [Processes -> SUBSET Invocations]
        /\ \A q \in Processes : completed'[q] \subseteq completed[q]
    BY <1>0, <2>1
  <2> QED BY <2>1, <2>2, RaiseKeeps
<1>5. ASSUME NEW t \in Turns, Begin(p, t)
      PROVE  IInv'
  <2> DEFINE b == [Idle EXCEPT !.pc = "infer", !.version = run.version, !.turn = t]
  <2>1. at' = [at EXCEPT ![p] = b] /\ UNCHANGED <<run, completed, ran, artifacts>>
    BY <1>5 DEF Begin
  <2>2. b \in AtType /\ b.pc = "infer" /\ b.version = run.version /\ b.turn = t
    BY <1>0, IdlePlaced, ZenonT(60) DEF Idle, AtType, RunType
  <2> HIDE DEF b
  <2>3. Placed(b, run, ran, artifacts)
    BY <1>0, <2>2 DEF Placed, RunType
  <2> QED BY <1>0, <2>1, <2>2, <2>3, MoveKeeps
<1> QED BY <1>1, <1>2, <1>3, <1>4, <1>5

\* The tool runs under the attempt its process holds.
LEMMA ToolSteps ==
  ASSUME IInv, NEW p \in Processes, Execute(p) \/ Finish(p) \/ Normalize(p)
  PROVE  IInv'
<1> DEFINE i == Inv(p)
<1>0. /\ at[p] \in AtType /\ i = Ident(at[p]) /\ run \in RunType
      /\ Placed(at[p], run, ran, artifacts) /\ Ledger(run, ran, artifacts, completed)
      /\ completed \in [Processes -> SUBSET Invocations]
      /\ ran \in [Invocations -> Nat] /\ artifacts \in SUBSET Invocations
      /\ at[p].pc \in Attempting => i \in Invocations
      /\ at \in [Processes -> AtType]
  BY InHand DEF IInv, TypeInv, InTool, Keyed, Paid, Begun
<1>1. /\ Attempting = {"execute", "running", "normalize", "result"}
      /\ Attempting \subseteq Begun /\ Begun \subseteq Paid /\ Paid \subseteq Keyed
      /\ Keyed \subseteq InTool /\ Attempting \cap Recorded = {}
      /\ Attempting \cap Decided = {} /\ "end" \notin Attempting /\ "idle" \notin Attempting
  BY DEF Attempting, Begun, Paid, Keyed, InTool, Recorded, Decided
<1>2. ASSUME NEW x \in Attempting, NEW r \in Raw, at[p].pc \in Attempting,
             NEW n, NEW f, artifacts \subseteq f,
             x = "execute" => n[i] = 0, x = "running" => n[i] = 1,
             x = "result" => i \in f,
             x \in {"normalize", "result"} /\ r = "succeeded" => n[i] = 1
      PROVE  LET b == [at[p] EXCEPT !.pc = x, !.raw = r]
             IN  b \in AtType /\ b.pc = x /\ Ident(b) = i /\ Placed(b, run, n, f)
  <2> DEFINE b == [at[p] EXCEPT !.pc = x, !.raw = r]
  <2>1. /\ b \in AtType /\ b.pc = x /\ b.raw = r /\ Ident(b) = i /\ b.turn = at[p].turn
        /\ b.intent = at[p].intent /\ b.version = at[p].version
    BY <1>0, <1>1, <1>2, ZenonT(60) DEF AtType, Ident, Steps
  <2> HIDE DEF b
  <2>2. Placed(b, run, n, f)
    BY <1>0, <1>1, <1>2, <2>1 DEF Placed, Recorded
  <2> QED BY <2>1, <2>2 DEF b
<1>3. CASE Execute(p)
  <2>1. at[p].pc = "execute" /\ UNCHANGED <<run, completed, artifacts>> /\ ran[i] = 0
    BY <1>0, <1>3 DEF Execute, Ready, Placed
  <2>2. i \in Invocations /\ i \notin completed[p]
    <3>1. i \in Invocations
      BY <1>0, <1>1, <2>1
    <3>2. \A j \in Invocations, q \in Processes : j \in completed[q] => ran[j] = 1
      BY <1>0 DEF Ledger
    <3> HIDE DEF i
    <3> QED BY <2>1, <3>1, <3>2
  <2>3. CASE /\ at' = [at EXCEPT ![p].pc = "normalize", ![p].raw = "failed"]
             /\ UNCHANGED ran
    <3> DEFINE b == [at[p] EXCEPT !.pc = "normalize", !.raw = "failed"]
    <3>1. b \in AtType /\ b.pc = "normalize" /\ Ident(b) = i /\ Placed(b, run, ran, artifacts)
      BY <1>1, <1>2, <2>1 DEF Raw
    <3>2. at' = [at EXCEPT ![p] = b]
      BY <1>0, <2>3
    <3> HIDE DEF b
    <3> QED BY <1>0, <1>1, <2>1, <2>3, <3>1, <3>2, MoveKeeps
  <2>4. CASE /\ Goto(p, "running") /\ ran' = [ran EXCEPT ![i] = @ + 1]
    <3> DEFINE b == [at[p] EXCEPT !.pc = "running"]
    <3>2. /\ ran' \in [Invocations -> Nat] /\ ran'[i] = 1
          /\ \A j \in Invocations \ {i} : ran'[j] = ran[j]
      BY <1>0, <2>1, <2>2, <2>4
    <3>3. at[p].raw \in Raw /\ b = [at[p] EXCEPT !.pc = "running", !.raw = at[p].raw]
      BY <1>0 DEF AtType
    <3>4. b \in AtType /\ b.pc = "running" /\ Ident(b) = i /\ Placed(b, run, ran', artifacts)
      <4>1. PICK n : n = ran'
        OBVIOUS
      <4>2. n[i] = 1 /\ "running" \in Attempting /\ at[p].pc \in Attempting
        BY <1>1, <2>1, <3>2, <4>1
      <4> HIDE DEF b, i
      <4> QED BY <1>2, <3>3, <4>1, <4>2, ZenonT(60)
    <3>5. at' = [at EXCEPT ![p] = b]
      BY <1>0, <2>4 DEF Goto
    <3> HIDE DEF b
    <3>6. TypeInv'
      BY <1>0, <2>1, <3>2, <3>4, <3>5 DEF TypeInv
    <3>7. Ledger(run, ran, artifacts, completed)'
      <4>1. /\ i \in run.dispatched /\ i \in run.keys /\ <<i, "tool_calls">> \in run.claims
            /\ <<i, "tool_attempts">> \in run.claims
        BY <1>0, <1>1, <2>1 DEF Placed
      <4>2. \A j \in Invocations : ran[j] = 1 => ran'[j] = 1
        BY <2>1, <3>2
      <4>3. \A j \in Invocations : ran'[j] = ran[j] \/ j = i
        BY <3>2
      <4>4. \A j \in run.results : j \in Invocations
        BY <1>0 DEF RunType
      <4> QED BY <1>0, <2>1, <3>2, <4>1, <4>2, <4>3, <4>4 DEF Ledger
    <3>8. Apart(at)'
      BY <1>0, <1>1, <2>1, <3>4, <3>5 DEF IInv, Apart
    <3>9. ASSUME NEW q \in Processes
          PROVE  Placed(at[q], run, ran, artifacts)'
      <4>1. CASE q = p
        BY <4>1, <1>0, <2>1, <3>4, <3>5
      <4>2. CASE q # p
        <5>1. at'[q] = at[q] /\ at[q] \in AtType /\ Placed(at[q], run, ran, artifacts)
          BY <4>2, <1>0, <3>5 DEF IInv
        <5>2. at[q].pc \in Attempting => Ident(at[q]) # i
          BY <4>2, <1>0, <1>1, <2>1 DEF IInv, Apart
        <5>3. at[q].pc \in InTool => Ident(at[q]) \in Invocations
          BY <5>1, InHand
        <5>4. /\ at[q].pc \in Attempting => ran'[Ident(at[q])] = ran[Ident(at[q])]
              /\ at[q].pc \in InTool /\ ran[Ident(at[q])] = 1 => ran'[Ident(at[q])] = 1
          BY <1>1, <2>1, <3>2, <5>2, <5>3
        <5>5. Recorded \subseteq InTool
          BY DEF InTool, Keyed, Paid, Begun
        <5>6. Placed(at[q], run, ran', artifacts)
          BY <1>1, <5>1, <5>4, <5>5 DEF Placed
        <5> QED BY <2>1, <5>1, <5>6
      <4> QED BY <4>1, <4>2
    <3> QED BY <3>6, <3>7, <3>8, <3>9 DEF IInv
  <2> QED BY <1>3, <2>2, <2>3, <2>4 DEF Execute
<1>4. CASE Finish(p)
  <2>1. at[p].pc = "running" /\ UNCHANGED <<run, ran, artifacts>> /\ ran[i] = 1
    BY <1>0, <1>4 DEF Finish, Ready, Placed
  <2>2. CASE Raise(p) /\ UNCHANGED completed
    BY <1>0, <2>1, <2>2, RaiseKeeps
  <2>3. ASSUME NEW r \in {"succeeded", "failed", "unknown_outcome"},
               at' = [at EXCEPT ![p].pc = "normalize", ![p].raw = r],
               completed' = IF r = "succeeded"
                            THEN [completed EXCEPT ![p] = @ \cup {i}] ELSE completed
        PROVE  IInv'
    <3> DEFINE b == [at[p] EXCEPT !.pc = "normalize", !.raw = r]
    <3>1. i \in Invocations /\ r \in Raw
      BY <1>0, <1>1, <2>1 DEF Raw
    <3>2. b \in AtType /\ b.pc = "normalize" /\ Ident(b) = i /\ Placed(b, run, ran, artifacts)
      BY <1>1, <1>2, <2>1, <3>1, ZenonT(60)
    <3>3. at' = [at EXCEPT ![p] = b]
      BY <1>0, <2>3
    <3> HIDE DEF b
    <3>4. /\ completed' \in [Processes -> SUBSET Invocations]
          /\ \A q \in Processes : completed'[q] \subseteq completed[q] \cup {i}
      BY <1>0, <2>3, <3>1
    <3>5. TypeInv'
      BY <1>0, <2>1, <3>2, <3>3, <3>4 DEF TypeInv
    <3> HIDE DEF i
    <3>6. Ledger(run, ran, artifacts, completed)'
      BY <1>0, <2>1, <3>1, <3>4 DEF Ledger
    <3>7. Apart(at)'
      BY <1>0, <1>1, <2>1, <3>2, <3>3 DEF IInv, Apart
    <3>8. \A q \in Processes : Placed(at[q], run, ran, artifacts)'
      BY <1>0, <2>1, <3>2, <3>3 DEF IInv
    <3> QED BY <3>5, <3>6, <3>7, <3>8 DEF IInv
  <2> QED BY <1>4, <2>2, <2>3 DEF Finish
<1>5. CASE Normalize(p)
  <2>1. at[p].pc = "normalize" /\ UNCHANGED <<run, completed, ran>>
    BY <1>5 DEF Normalize, Ready
  <2>2. CASE Raise(p) /\ UNCHANGED artifacts
    BY <1>0, <2>1, <2>2, RaiseKeeps
  <2>3. CASE Goto(p, "result") /\ artifacts' = artifacts \cup {i}
    <3> DEFINE b == [at[p] EXCEPT !.pc = "result"]
               f == artifacts \cup {i}
    <3>1. i \in Invocations
      BY <1>0, <1>1, <2>1
    <3>2. at[p].raw \in Raw /\ b = [at[p] EXCEPT !.pc = "result", !.raw = at[p].raw]
      BY <1>0 DEF AtType
    <3>3. b \in AtType /\ b.pc = "result" /\ Ident(b) = i /\ Placed(b, run, ran, f)
      <4>1. at[p].raw = "succeeded" => ran[i] = 1
        BY <1>0, <2>1 DEF Placed
      <4>2. PICK n, g, r : n = ran /\ g = f /\ r = at[p].raw /\ r \in Raw
        BY <3>2
      <4>3. artifacts \subseteq g /\ "result" \in Attempting /\ at[p].pc \in Attempting
        BY <1>1, <2>1, <4>2
      <4>4. i \in g /\ (r = "succeeded" => n[i] = 1)
        BY <4>1, <4>2
      <4> DEFINE c == [at[p] EXCEPT !.pc = "result", !.raw = r]
      <4>5. c \in AtType /\ c.pc = "result" /\ Ident(c) = i /\ Placed(c, run, n, g)
        <5> HIDE DEF b, f, i
        <5> QED BY <1>2, <4>2, <4>3, <4>4, ZenonT(60)
      <4>6. b = c
        BY <3>2, <4>2
      <4> HIDE DEF b, c, f, i
      <4> QED BY <4>2, <4>5, <4>6
    <3>4. at' = [at EXCEPT ![p] = b] /\ artifacts' = f
      BY <1>0, <2>3 DEF Goto
    <3>5. f \in SUBSET Invocations /\ artifacts \subseteq f
      BY <1>0, <3>1
    <3> HIDE DEF b, f
    <3>6. TypeInv'
      BY <1>0, <2>1, <3>3, <3>4, <3>5 DEF TypeInv
    <3>7. Ledger(run, ran, artifacts, completed)'
      BY <1>0, <2>1, <3>4, <3>5 DEF Ledger
    <3>8. Apart(at)'
      BY <1>0, <1>1, <2>1, <3>3, <3>4 DEF IInv, Apart
    <3>9. ASSUME NEW q \in Processes
          PROVE  Placed(at[q], run, ran, artifacts)'
      <4>1. CASE q = p
        BY <4>1, <1>0, <2>1, <3>3, <3>4
      <4>2. CASE q # p
        <5>1. at'[q] = at[q] /\ Placed(at[q], run, ran, artifacts)
          BY <4>2, <1>0, <3>4 DEF IInv
        <5>2. Placed(at[q], run, ran, f)
          BY <5>1, <3>5 DEF Placed
        <5> QED BY <2>1, <3>4, <5>1, <5>2
      <4> QED BY <4>1, <4>2
    <3> QED BY <3>6, <3>7, <3>8, <3>9 DEF IInv
  <2> QED BY <1>5, <2>2, <2>3 DEF Normalize
<1> QED BY <1>3, <1>4, <1>5

\* The owner of the run moves it; no move of theirs is a success.
LEMMA CallerKeeps ==
  ASSUME IInv, Caller
  PROVE  IInv'
<1>1. PICK t \in {"deciding", "cancelled"} : Append(Transition(t))
  BY DEF Caller, CallerMoves
<1>2. /\ run \in RunType /\ UNCHANGED <<at, completed, ran, artifacts>>
      /\ run.lifecycle \in {"ready", "waiting_user", "paused", "deciding", "waiting_tool"}
  BY DEF IInv, TypeInv, Caller, CallerMoves
<1>3. run' = [run EXCEPT !.version = @ + 1, !.lifecycle = t]
  BY <1>1, <1>2 DEF Append, Applied, Transition, RunType
<1>4. run' \in RunType /\ Grows(run, run')
  <2>1. t \in RunLifecycle /\ run.version \in Nat /\ run.version + 1 \in Nat
    BY <1>2 DEF RunType, RunLifecycle, RunTerminal
  <2>2. run' \in RunType
    BY <1>2, <1>3, <2>1 DEF RunType
  <2>3. /\ run'.claims = run.claims /\ run'.keys = run.keys
        /\ run'.dispatched = run.dispatched /\ run'.results = run.results
        /\ run'.tools = run.tools /\ run'.version = run.version + 1
    BY <1>2, <1>3 DEF RunType
  <2>4. run.version <= run'.version
    BY <2>1, <2>3
  <2> QED BY <1>2, <2>2, <2>3, <2>4 DEF Grows
<1>5. /\ run'.results = run.results /\ run'.lifecycle # "succeeded"
      /\ run'.claims = run.claims /\ run'.keys = run.keys /\ run'.dispatched = run.dispatched
  BY <1>2, <1>3 DEF RunType
<1>6. TypeInv'
  BY <1>2, <1>4 DEF IInv, TypeInv
<1>7. Ledger(run, ran, artifacts, completed)'
  BY <1>2, <1>5 DEF IInv, Ledger
<1>8. Apart(at)'
  BY <1>2 DEF IInv, Apart
<1>9. ASSUME NEW q \in Processes
      PROVE  Placed(at[q], run, ran, artifacts)'
  <2>1. at[q] \in AtType /\ Placed(at[q], run, ran, artifacts)
    BY DEF IInv, TypeInv
  <2>2. at[q].pc \in Attempting => Ident(at[q]) \notin run'.results
    BY <2>1, <1>5 DEF Placed
  <2>3. Placed(at[q], run', ran, artifacts)
    BY <1>2, <1>4, <2>1, <2>2, PlacedKeeps
  <2> QED BY <1>2, <2>3
<1> QED BY <1>6, <1>7, <1>8, <1>9 DEF IInv

-----------------------------------------------------------------------------
(* The invariant and what it gives *)

\* A run that was just created satisfies the invariant.
LEMMA InitIInv ==
  Init => IInv
<1> SUFFICES ASSUME Init PROVE IInv
  OBVIOUS
<1>1. run \in RunType
  BY BudgetAssumption DEF Init, Created, RunType, RunLifecycle, ToolLifecycle
<1>2. /\ run.results = {} /\ run.dispatched = {} /\ run.lifecycle = "ready"
  BY DEF Init, Created
<1>3. Idle \in AtType /\ Placed(Idle, run, ran, artifacts)
  BY <1>1, IdlePlaced
<1>4. Idle.pc = "idle"
  BY DEF Idle
<1>5. TypeInv
  BY <1>1, <1>3 DEF Init, TypeInv
<1>6. Ledger(run, ran, artifacts, completed)
  BY <1>2 DEF Init, Ledger
<1>7. Apart(at)
  BY <1>4 DEF Init, Apart, Attempting
<1>8. \A p \in Processes : Placed(at[p], run, ran, artifacts)
  BY <1>3 DEF Init
<1> QED BY <1>5, <1>6, <1>7, <1>8 DEF IInv

\* Every step of a turn, every crash and every move of the run's owner keeps
\* the invariant.
LEMMA NextIInv ==
  IInv /\ [Next]_vars => IInv'
<1> SUFFICES ASSUME IInv, [Next]_vars PROVE IInv'
  OBVIOUS
<1>1. CASE Caller
  BY <1>1, CallerKeeps
<1>2. ASSUME NEW p \in Processes, TurnStep(p)
      PROVE  IInv'
  BY <1>2, AppendSteps, ChoiceSteps, MoveSteps, ToolSteps DEF TurnStep
<1>3. ASSUME NEW p \in Processes, Crash(p) \/ \E t \in Turns : Begin(p, t)
      PROVE  IInv'
  BY <1>3, MoveSteps
<1>4. CASE UNCHANGED vars
  BY <1>4 DEF vars, IInv, TypeInv, Ledger, Apart, Placed
<1> QED BY <1>1, <1>2, <1>3, <1>4 DEF Next

\* The inductive invariant: types, the ledger of log, runs and artifacts, one
\* owner per attempt, and what each process knows where it stands.
THEOREM Inductive == Spec => []IInv
<1> QED BY InitIInv, NextIInv, PTL DEF Spec

\* Whatever processes race, crash and retry, no invocation's tool runs twice,
\* and none runs before its dispatch boundary, its idempotency key and both of
\* its budget claims are in the log (execute_turn): for any processes, turns,
\* tools, budgets and reported usage.
THEOREM RunsOnce == Spec => []ToolsRunOnce
<1>1. IInv => TypeOK
  <2> SUFFICES ASSUME IInv PROVE TypeOK
    OBVIOUS
  <2>1. run.results \subseteq run.dispatched
    <3>1. run.results \subseteq Invocations
      BY DEF IInv, TypeInv, RunType
    <3> QED BY <3>1 DEF IInv, Ledger
  <2>2. ASSUME NEW p \in Processes
        PROVE  at[p].pc \in Steps /\ at[p].version <= run.version
    BY DEF IInv, TypeInv, AtType, Placed
  <2> QED BY <2>1, <2>2 DEF TypeOK, IInv, TypeInv, RunType
<1>2. IInv => AtMostOnce
  <2> SUFFICES ASSUME IInv, NEW i \in Invocations
               PROVE  /\ ran[i] <= 1
                      /\ ran[i] = 1 =>
                           /\ i \in run.dispatched \cap run.keys
                           /\ {<<i, "tool_calls">>, <<i, "tool_attempts">>} \subseteq run.claims
    BY DEF AtMostOnce
  <2>1. /\ ran[i] \in {0, 1}
        /\ ran[i] = 1 => /\ i \in run.dispatched /\ i \in run.keys
                         /\ <<i, "tool_calls">> \in run.claims
                         /\ <<i, "tool_attempts">> \in run.claims
    BY DEF IInv, Ledger
  <2>2. ran[i] <= 1
    BY <2>1
  <2> QED BY <2>1, <2>2
<1> QED BY Inductive, <1>1, <1>2, PTL DEF ToolsRunOnce

\* recover() answers reconcile_only as long as a tool ran without a recorded
\* result, and never safe_retry while a process holds an attempt.
THEOREM RecoverSeesEffects == Spec => []EffectsAreRecovered
<1>1. IInv => EffectsAreRecovered
  <2> SUFFICES ASSUME IInv PROVE EffectsAreRecovered
    OBVIOUS
  <2>1. ASSUME Outstanding # {}
        PROVE  Recover = "reconcile_only"
    <3>1. PICK i \in Invocations : ran[i] > 0 /\ i \notin run.results
      BY <2>1 DEF Outstanding
    <3>2. ran[i] \in {0, 1}
      BY DEF IInv, Ledger
    <3>3. ran[i] = 1
      BY <3>1, <3>2
    <3>4. i \in run.dispatched
      BY <3>3 DEF IInv, Ledger
    <3> QED BY <3>1, <3>4 DEF Recover
  <2>2. ASSUME NEW p \in Processes,
               at[p].pc \in {"execute", "running", "normalize", "result"}
        PROVE  Recover = "reconcile_only"
    <3>1. Ident(at[p]) \in run.dispatched /\ Ident(at[p]) \notin run.results
      BY <2>2 DEF IInv, Placed, Attempting, Begun
    <3> QED BY <3>1 DEF Recover
  <2> QED BY <2>1, <2>2 DEF EffectsAreRecovered
<1> QED BY Inductive, <1>1, PTL

\* A run is succeeded only behind a recorded, succeeded result of a tool that
\* ran once, and every recorded result has its artifact.
THEOREM SuccessIsEarned == Spec => []SucceededIsEarned
<1>1. IInv => SucceededIsEarned
  <2> SUFFICES ASSUME IInv PROVE SucceededIsEarned
    OBVIOUS
  <2>1. run.results \subseteq Invocations
    BY DEF IInv, TypeInv, RunType
  <2> QED BY <2>1 DEF IInv, Ledger, SucceededIsEarned
<1> QED BY Inductive, <1>1, PTL
=============================================================================
