----------------------------- MODULE MCScheduler -----------------------------
(***************************************************************************)
(* Instance of ContinuousScheduler for TLC.                                *)
(***************************************************************************)
EXTENDS ContinuousScheduler

CONSTANTS a1, a2

\* Two attempts have an id each.
Ids12 == [a \in Attempts |-> IF a = a1 THEN "i1" ELSE "i2"]

OneScope  == [a \in Attempts |-> "scope"]
MixedCost == [a \in Attempts |-> IF a = a1 THEN 2 ELSE 1]
==============================================================================
