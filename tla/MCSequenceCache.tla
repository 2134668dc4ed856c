--------------------------- MODULE MCSequenceCache ---------------------------
(***************************************************************************)
(* Instance of SequenceCache for TLC.                                      *)
(***************************************************************************)
EXTENDS SequenceCache, TLC

CONSTANTS c1, c2, i1, i2, i3

\* One prefix and one session; a private and a tenant-wide scope.
Kinds == [k \in Keys |-> k]
TwoScopes ==
  { [tenant |-> "t", workflow |-> "w", agent |-> "a", visibility |-> "private"],
    [tenant |-> "t", workflow |-> "w", agent |-> "b", visibility |-> "tenant"] }

Symmetry == Permutations(Clients) \cup Permutations(Ids)
==============================================================================
