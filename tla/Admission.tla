------------------------------ MODULE Admission ------------------------------
(***************************************************************************)
(* ResourceAdmissionController (inference_runtime/governance.py): the      *)
(* ledger of reservations, as operators on its value.  `ledger' is the set *)
(* of requests holding a reservation and `kv' the tokens each activated    *)
(* one owns (0 while it is pending).  The workflow and the agent quotas    *)
(* have the same form; one level of scopes stands for both.                *)
(***************************************************************************)
EXTENDS Naturals, FiniteSets, FiniteSetsExt

CONSTANTS Attempts,          \* calls of infer(), each with its reservation
          IdOf,              \* scheduling.request_id of an attempt
          ScopeOf,           \* its workflow and agent
          Estimate,          \* estimated_tokens
          LowPriority,       \* attempts load shedding applies to
          MaxPending, ShedThreshold, MaxPendingPerScope,
          MaxSequences, MaxSequencesPerScope, KvBudget, MaxKvPerScope

\* What AdmissionLimits accepts.
ValidLimits ==
  /\ {MaxPending, ShedThreshold, MaxPendingPerScope, MaxSequences,
      MaxSequencesPerScope, KvBudget, MaxKvPerScope} \subseteq Nat \ {0}
  /\ ShedThreshold <= MaxPending
  /\ MaxSequencesPerScope <= MaxSequences /\ MaxKvPerScope <= KvBudget

ASSUME AdmissionAssumption ==
  /\ IsFiniteSet(Attempts) /\ DOMAIN IdOf = Attempts
  /\ Estimate \in [Attempts -> Nat \ {0}]
  /\ LowPriority \subseteq Attempts
  /\ ValidLimits

SameScope(a, S) == {b \in S : ScopeOf[b] = ScopeOf[a]}

PendingOf(ledger, kv) == {a \in ledger : kv[a] = 0}

ActiveOf(ledger, kv) == {a \in ledger : kv[a] > 0}

Tokens(S, kv) == MapThenSumSet(LAMBDA a : kv[a], S)

\* admit() accepts: no reservation under this id, and room at every level.
CanAdmit(ledger, kv, a) ==
  LET pending == PendingOf(ledger, kv) IN
  /\ Estimate[a] <= KvBudget /\ Estimate[a] <= MaxKvPerScope
  /\ \A b \in ledger : IdOf[b] # IdOf[a]
  /\ Cardinality(pending) < MaxPending
  /\ a \in LowPriority => Cardinality(pending) < ShedThreshold
  /\ Cardinality(SameScope(a, pending)) < MaxPendingPerScope

\* Mutation: the quotas are compared with what is reserved so far.
CanActivateLate(ledger, kv, a) ==
  LET active == ActiveOf(ledger, kv)
      scope  == SameScope(a, active)
  IN /\ a \in PendingOf(ledger, kv)
     /\ Cardinality(active) < MaxSequences
     /\ Cardinality(scope) < MaxSequencesPerScope
     /\ Tokens(active, kv) <= KvBudget
     /\ Tokens(scope, kv) <= MaxKvPerScope

\* can_activate(): the estimate of a pending reservation fits every quota.
CanActivate(ledger, kv, a) ==
  LET active == ActiveOf(ledger, kv)
      scope  == SameScope(a, active)
  IN /\ a \in PendingOf(ledger, kv)
     /\ Cardinality(active) < MaxSequences
     /\ Cardinality(scope) < MaxSequencesPerScope
     /\ Tokens(active, kv) + Estimate[a] <= KvBudget
     /\ Tokens(scope, kv) + Estimate[a] <= MaxKvPerScope

\* activate() accepts what does not exceed the estimate.
ActivateAccepts(ledger, kv, a, actual) ==
  /\ a \in PendingOf(ledger, kv)
  /\ actual \in 1 .. Estimate[a]
==============================================================================
