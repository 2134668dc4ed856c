--------------------------- MODULE RequestService ---------------------------
(***************************************************************************)
(* What the dispatcher promises its clients, without threads, locks or     *)
(* deadlines: a bounded service that starts waiting requests one at a      *)
(* time, in the order it accepted them, and settles each exactly once.     *)
(***************************************************************************)
EXTENDS Naturals, FiniteSets

CONSTANTS Requests, Bound

VARIABLES status, rank, nextRank

vars == <<status, rank, nextRank>>

With(s) == {r \in Requests : status[r] = s}

Init ==
  /\ status = [r \in Requests |-> "new"]
  /\ rank = [r \in Requests |-> 0]
  /\ nextRank = 0

Accept(r) ==
  /\ status[r] = "new"
  /\ Cardinality(With("waiting")) < Bound
  /\ status' = [status EXCEPT ![r] = "waiting"]
  /\ rank' = [rank EXCEPT ![r] = nextRank]
  /\ nextRank' = nextRank + 1

\* First come, first served, one at a time.
Start(r) ==
  /\ status[r] = "waiting"
  /\ With("running") = {}
  /\ \A s \in With("waiting") : rank[r] <= rank[s]
  /\ status' = [status EXCEPT ![r] = "running"]
  /\ UNCHANGED <<rank, nextRank>>

\* Requests leave the service for good: done, failed, cancelled or expired.
Settle(S) ==
  /\ S # {}
  /\ S \subseteq With("waiting") \cup With("running")
  /\ status' = [r \in Requests |-> IF r \in S THEN "settled" ELSE status[r]]
  /\ UNCHANGED <<rank, nextRank>>

Next ==
  \/ \E r \in Requests : Accept(r) \/ Start(r)
  \/ \E S \in SUBSET Requests : Settle(S)

\* An accepted request is eventually settled.
Settles(r) == status[r] \in {"waiting", "running"} ~> status[r] = "settled"

Safety == Init /\ [][Next]_vars
Spec   == Safety /\ \A r \in Requests : Settles(r)
=============================================================================
