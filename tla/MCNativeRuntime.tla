--------------------------- MODULE MCNativeRuntime ---------------------------
(* Two slots; a request outside sessions and two turns of one session that   *)
(* share its scope and the beginning of its prompt.  The markers share a     *)
(* token, and "t" is text too.                                               *)
EXTENDS NativeRuntime

MCRequests == {"r1", "r2", "r3"}
MCPromptOf == [r1 |-> <<"a", "b", "a">>, r2 |-> <<"a", "b", "a">>,
               r3 |-> <<"a", "b", "b", "a">>]
MCScopeOf == [r1 |-> "A", r2 |-> "A", r3 |-> "A"]
MCSessionOf == [r1 |-> "none", r2 |-> "s", r3 |-> "s"]
MCCommitOf == [r1 |-> FALSE, r2 |-> TRUE, r3 |-> TRUE]
MCPrefixOf == [r1 |-> 0, r2 |-> 1, r3 |-> 2]
MCTokenBytes == [m |-> "whole", t |-> "whole", EOG |-> "whole"]
MCStart == <<"m">>
MCEnd == <<"m", "t">>

=============================================================================
