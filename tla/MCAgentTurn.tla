---------------------------- MODULE MCAgentTurn ----------------------------
(* Two service processes on one run's log. *)
EXTENDS AgentTurn, TLC

MCUsage == {<<0, 1>>, <<1, 0>>}
MCBudget == [[c \in Categories |-> 1] EXCEPT !["turns"] = 2]
MCSymmetry == Permutations(Processes)
=============================================================================
