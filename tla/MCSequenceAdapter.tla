-------------------------- MODULE MCSequenceAdapter --------------------------
(* Four requests over two slots: a slot is reused within a process, and      *)
(* three processes follow each other.                                        *)
EXTENDS SequenceAdapter, TLC

MCSymmetry == Permutations(Requests)

=============================================================================
