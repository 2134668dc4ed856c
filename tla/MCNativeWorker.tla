--------------------------- MODULE MCNativeWorker ---------------------------
(* Two jobs, a registry of one entry, an end marker of two tokens, each of   *)
(* which may also occur as text; "h" is one half of a character.             *)
EXTENDS NativeWorker

MCStart == <<"o">>
MCEnd == <<"c", "m">>
MCTokenBytes == [t \in {"o", "c", "m", "h"} |-> IF t = "h" THEN "half" ELSE "whole"]

=============================================================================
