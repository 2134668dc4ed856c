--------------------------- MODULE SequenceEngine ---------------------------
(* The slot ledger of the native inference runtime                          *)
(* (native/sequence_engine.cpp): a fixed number of sequence slots, each     *)
(* with a generation, and a budget of KV tokens.  An operation answers a    *)
(* record with its status and the engine it leaves behind.                  *)
EXTENDS Naturals, FiniteSets

CONSTANTS
    max_sequences,      \* number of slots
    token_capacity,     \* KV tokens all sequences may reserve together
    GenerationModulus   \* 2^64 in the code: the width of a generation

ASSUME EngineAssumption ==
    /\ max_sequences \in Nat \ {0}
    /\ token_capacity \in Nat \ {0}
    /\ GenerationModulus \in Nat \ {0, 1}

Slots == 0 .. max_sequences - 1

NoKey == "none"

(* A slot that holds no sequence keeps only its generation. *)
Vacant(generation) ==
    [generation |-> generation, key |-> NoKey, lifecycle |-> "released",
     prompt_tokens |-> 0, output_token_budget |-> 0,
     prompt_tokens_processed |-> 0, decoded_tokens |-> 0]

NewEngine ==
    [slots |-> [s \in Slots |-> Vacant(0)], reserved_tokens |-> 0, active_sequences |-> 0]

Handle(slot, generation, key) == [slot |-> slot, generation |-> generation, key |-> key]

Reservation(slot) == slot.prompt_tokens + slot.output_token_budget

(* find(): the slot still holds the sequence the handle was made for. *)
Finds(engine, handle) ==
    LET slot == engine.slots[handle.slot]
    IN  /\ slot.lifecycle # "released"
        /\ slot.generation = handle.generation
        /\ slot.key = handle.key

Lifecycle(engine, handle) ==
    IF Finds(engine, handle) THEN engine.slots[handle.slot].lifecycle ELSE "none"

(* Zero never names a generation, so the counter skips it when it wraps. *)
NextGeneration(generation) ==
    LET next == (generation + 1) % GenerationModulus IN IF next = 0 THEN 1 ELSE next

Duplicate(engine, key) ==
    \E s \in Slots : engine.slots[s].lifecycle # "released" /\ engine.slots[s].key = key

AdmissionStatus(engine, key, prompt_tokens, budget) ==
    IF prompt_tokens = 0 \/ budget = 0 THEN "invalid_request"
    ELSE IF Duplicate(engine, key) THEN "duplicate"
    ELSE IF engine.active_sequences = max_sequences THEN "sequence_capacity"
    ELSE IF prompt_tokens + budget > token_capacity - engine.reserved_tokens
         THEN "token_capacity"
    ELSE "admitted"

FirstVacant(engine) ==
    CHOOSE s \in Slots :
        /\ engine.slots[s].lifecycle = "released"
        /\ \A t \in Slots : engine.slots[t].lifecycle = "released" => s <= t

Admit(engine, key, prompt_tokens, budget) ==
    LET status == AdmissionStatus(engine, key, prompt_tokens, budget)
        s == FirstVacant(engine)
        generation == NextGeneration(engine.slots[s].generation)
    IN  IF status # "admitted"
        THEN [status |-> status, engine |-> engine, handle |-> Handle(0, 0, NoKey)]
        ELSE [status |-> status,
              handle |-> Handle(s, generation, key),
              engine |->
                [slots |-> [engine.slots EXCEPT ![s] =
                     [Vacant(generation) EXCEPT !.key = key, !.lifecycle = "admitted",
                        !.prompt_tokens = prompt_tokens, !.output_token_budget = budget]],
                 reserved_tokens |-> engine.reserved_tokens + prompt_tokens + budget,
                 active_sequences |-> engine.active_sequences + 1]]

(* One operation on a live slot: stale handles and wrong states change nothing. *)
Operate(engine, handle, lifecycles, amountOk, changed) ==
    IF ~Finds(engine, handle) THEN [status |-> "stale_handle", engine |-> engine]
    ELSE IF engine.slots[handle.slot].lifecycle \notin lifecycles
         THEN [status |-> "invalid_state", engine |-> engine]
    ELSE IF ~amountOk THEN [status |-> "invalid_amount", engine |-> engine]
    ELSE [status |-> "applied",
          engine |-> [engine EXCEPT !.slots[handle.slot] = changed]]

StartPrefill(engine, handle) ==
    Operate(engine, handle, {"admitted"}, TRUE,
            [engine.slots[handle.slot] EXCEPT !.lifecycle = "prefill"])

AdvancePrefill(engine, handle, tokens) ==
    LET slot == engine.slots[handle.slot]
        remaining == slot.prompt_tokens - slot.prompt_tokens_processed
    IN  Operate(engine, handle, {"prefill"}, tokens \in 1 .. remaining,
                [slot EXCEPT
                    !.prompt_tokens_processed = @ + tokens,
                    !.lifecycle = IF tokens = remaining THEN "decode" ELSE @])

AdvanceDecode(engine, handle, tokens) ==
    LET slot == engine.slots[handle.slot]
    IN  Operate(engine, handle, {"decode"},
                tokens \in 1 .. slot.output_token_budget - slot.decoded_tokens,
                [slot EXCEPT !.decoded_tokens = @ + tokens])

Finish(engine, handle) ==
    Operate(engine, handle, {"decode"}, TRUE,
            [engine.slots[handle.slot] EXCEPT !.lifecycle = "terminal"])

Cancel(engine, handle) ==
    Operate(engine, handle, {"admitted", "prefill", "decode"}, TRUE,
            [engine.slots[handle.slot] EXCEPT !.lifecycle = "terminal"])

(* release(): only a terminal sequence gives its reservation back, once. *)
Release(engine, handle) ==
    LET slot == engine.slots[handle.slot]
    IN  IF ~Finds(engine, handle)
        THEN [status |-> IF slot.generation = handle.generation /\ slot.lifecycle = "released"
                         THEN "already_released" ELSE "stale_handle",
              engine |-> engine]
        ELSE IF slot.lifecycle # "terminal"
             THEN [status |-> "invalid_state", engine |-> engine]
        ELSE [status |-> "released",
              engine |->
                [slots |-> [engine.slots EXCEPT ![handle.slot] = Vacant(slot.generation)],
                 reserved_tokens |-> engine.reserved_tokens - Reservation(slot),
                 active_sequences |-> engine.active_sequences - 1]]

=============================================================================
