---------------------------- MODULE MCEventBuffer ----------------------------
(***************************************************************************)
(* Instance of EventBuffer for TLC.                                        *)
(***************************************************************************)
EXTENDS EventBuffer
==============================================================================
