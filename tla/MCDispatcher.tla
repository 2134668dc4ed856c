---------------------------- MODULE MCDispatcher ----------------------------
(***************************************************************************)
(* Instances of Dispatcher for TLC.                                        *)
(***************************************************************************)
EXTENDS Dispatcher, TLC

Symmetry == Permutations(Requests)

\* Liveness: calls of worker.cancel() hang once made, which is the worst case
\* for whoever waits; consumers keep up, and nobody prunes the registry.
HangingCancelNext ==
  \/ \E r \in Requests :
       Submit(r) \/ Cancel(r) \/ CancelClose(r) \/ TaskEnd(r) \/ QueueDeadline(r)
  \/ ExpiryStep \/ DispatcherStep \/ RestartStep \/ BackStopStep
  \/ ShutdownFlags \/ DrainStep \/ ShutdownJoin
  \/ ExecDeadline

HangingCancelSpec == Init /\ [][HangingCancelNext]_vars /\ Fairness
=============================================================================
