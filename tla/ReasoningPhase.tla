--------------------------- MODULE ReasoningPhase ---------------------------
(* The phase controller every generated token passes                        *)
(* (native/reasoning_phase_controller.cpp) and the checks on what the final *)
(* phase emits (native/generation_safety.cpp).  A controller is a record;   *)
(* consuming a token answers the action and the controller it leaves.       *)
EXTENDS Naturals, Sequences, SequencesExt

CONSTANTS
    StartMarker, EndMarker,     \* token sequences that open and close the reasoning
    reasoning_budget, final_budget, total_budget,
    EOG,                        \* the end-of-generation token
    TokenBytes                  \* [token -> "whole" | "half" | "bad"] as UTF-8

ASSUME PhaseAssumption ==
    /\ StartMarker # <<>> /\ EndMarker # <<>> /\ StartMarker # EndMarker
    /\ reasoning_budget <= total_budget /\ final_budget <= total_budget
    /\ total_budget <= reasoning_budget + final_budget

MaxOf(a, b) == IF a > b THEN a ELSE b

NewController ==
    [phase |-> "expect_reasoning_start", sampled |-> 0, reasoning |-> 0, final |-> 0,
     tail |-> <<>>]

(* remember(): the tail is as long as the longer marker, and no phase clears it. *)
Remember(tail, token) ==
    LET longer == Append(tail, token)
    IN  IF Len(longer) > MaxOf(Len(StartMarker), Len(EndMarker)) THEN Tail(longer) ELSE longer

Failed(c, reason) ==
    [controller |-> [c EXCEPT !.phase = "error"], action |-> "failed", error |-> reason]

Enter(c, phase, action) ==
    [controller |-> [c EXCEPT !.phase = phase], action |-> action, error |-> "none"]

(* The counters include the token that overruns them; those of a controller *)
(* that failed are read by nobody.                                          *)
Counted(c, eog) ==
    [c EXCEPT !.sampled = @ + 1,
        !.reasoning = IF c.phase # "final" THEN @ + 1 ELSE @,
        !.final = IF c.phase = "final" /\ ~eog THEN @ + 1 ELSE @]

Overrun(c, eog) ==
    IF c.sampled > total_budget THEN "total_budget_exhausted"
    ELSE IF c.phase # "final" /\ c.reasoning > reasoning_budget
         THEN "reasoning_budget_exhausted"
    ELSE IF c.phase = "final" /\ ~eog /\ c.final > final_budget
         THEN "final_budget_exhausted"
    ELSE "none"

AtEog(c, grammar_accepting) ==
    IF c.phase # "final" THEN Failed(c, "eog_before_reasoning_end")
    ELSE IF ~grammar_accepting THEN Failed(c, "eog_before_grammar_accepting")
    ELSE Enter(c, "done", "completed")

(* Mutation: a second start marker during the reasoning is let through. *)
AtMarkerLenient(c) ==
    IF c.phase = "reasoning" /\ IsSuffix(StartMarker, c.tail) THEN Enter(c, c.phase, "none")
    ELSE IF c.phase = "expect_reasoning_start" /\ IsSuffix(StartMarker, c.tail)
         THEN Enter(c, "reasoning", "reasoning_started")
    ELSE IF c.phase = "reasoning" /\ IsSuffix(EndMarker, c.tail)
         THEN Enter(c, "final", "activate_final_grammar")
    ELSE Enter(c, c.phase, "none")

AtMarker(c) ==
    LET start == IsSuffix(StartMarker, c.tail)
        end == IsSuffix(EndMarker, c.tail)
    IN  CASE c.phase = "expect_reasoning_start" /\ end ->
                Failed(c, "reasoning_end_before_start")
          [] c.phase = "expect_reasoning_start" /\ ~end /\ start ->
                Enter(c, "reasoning", "reasoning_started")
          [] c.phase = "reasoning" /\ start -> Failed(c, "duplicate_reasoning_start")
          [] c.phase = "reasoning" /\ ~start /\ end ->
                Enter(c, "final", "activate_final_grammar")
          [] c.phase = "final" /\ (start \/ end) ->
                Failed(c, "reasoning_marker_after_final")
          [] OTHER -> Enter(c, c.phase, "none")

Consume(c, token, grammar_accepting) ==
    LET eog == token = EOG
        counted == Counted(c, eog)
        remembered == [counted EXCEPT !.tail = Remember(@, token)]
    IN  IF c.phase \in {"done", "error"} THEN Failed(c, "token received after terminal state")
        ELSE IF Overrun(counted, eog) # "none" THEN Failed(counted, Overrun(counted, eog))
        ELSE IF eog THEN AtEog(remembered, grammar_accepting)
        ELSE AtMarker(remembered)

(* An end of generation proves acceptance only when the final grammar sampled it. *)
GrammarAcceptanceProven(eog, final_grammar) == eog /\ final_grammar

-----------------------------------------------------------------------------
(* Utf8Accumulator: a piece ends on a character boundary ("whole"), holds   *)
(* one half of a two-token character ("half"), or cannot be UTF-8 ("bad").  *)

NewUtf8 == [valid |-> TRUE, pending |-> <<>>]

Utf8Append(u, token) ==
    LET bytes == Append(u.pending, token)
        kind == TokenBytes[token]
    IN  CASE ~u.valid \/ kind = "bad" \/ (kind = "whole" /\ u.pending # <<>>) ->
                [utf8 |-> [u EXCEPT !.valid = FALSE], completed |-> <<>>]
          [] u.valid /\ kind = "half" /\ u.pending = <<>> ->
                [utf8 |-> [u EXCEPT !.pending = bytes], completed |-> <<>>]
          [] OTHER -> [utf8 |-> [u EXCEPT !.pending = <<>>], completed |-> bytes]

Utf8Finish(u) == u.valid /\ u.pending = <<>>

=============================================================================
