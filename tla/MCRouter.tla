------------------------------ MODULE MCRouter ------------------------------
(***************************************************************************)
(* Instance of InferenceRouter for TLC: two managed backends, one of them  *)
(* with room for two, a serial and a steppable one; two routed calls and   *)
(* one that takes its lease itself, all with the same request id.          *)
(***************************************************************************)
EXTENDS InferenceRouter

CONSTANTS c1, c2, c3, i1

MCIdOf   == [c \in Calls |-> i1]
MCServes == [c \in Calls |-> IF c = c1 THEN {"n"} ELSE IF c = c2 THEN {"m", "s", "p"}
                             ELSE {"m", "n", "s"}]
MCRank   == [b \in Backends |-> IF b = "m" THEN 0 ELSE IF b = "n" THEN 1
                                ELSE IF b = "s" THEN 2 ELSE 3]
MCKind   == [b \in Backends |-> IF b = "s" THEN "serial"
                                ELSE IF b = "p" THEN "steppable" ELSE "managed"]
MCCapacity == [b \in Backends |-> IF b = "n" THEN 2 ELSE 1]
==============================================================================
