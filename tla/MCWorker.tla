------------------------------ MODULE MCWorker ------------------------------
(***************************************************************************)
(* Instance of WorkerProcess for TLC.                                      *)
(***************************************************************************)
EXTENDS WorkerProcess, TLC

CONSTANTS r1, r2

Symmetry == Permutations(Requests)
==============================================================================
