---------------------------- MODULE NativeRuntime ----------------------------
(***************************************************************************)
(* The command loop of the native inference runtime                        *)
(* (native/inference_runtime_main.cpp): sequences opened over a prompt,    *)
(* prefilled in chunks, decoded in batches and released, with the KV       *)
(* memory of llama.cpp and the snapshots kept of it.                       *)
(*                                                                         *)
(* Commands are handled one at a time.  The loops of a batch over its      *)
(* sequences are steps of their own, since an exception may leave them     *)
(* anywhere; the client learns of a command only from its reply.  The      *)
(* client is the continuous scheduler through its adapter: it steps a      *)
(* sequence it holds, one command at a time, and after an error it only    *)
(* releases the sequences of that command.                                 *)
(***************************************************************************)
EXTENDS SequenceEngine, ReasoningPhase, PromptCache

CONSTANTS
    Requests,                   \* request ids
    PromptOf,                   \* [Requests -> token sequences]: build_prompt()
    ScopeOf,                    \* [Requests -> cache identity or "none"]
    SessionOf,                  \* [Requests -> session id or "none"]
    CommitOf,                   \* [Requests -> BOOLEAN]: session control "commit"
    PrefixOf,                   \* [Requests -> Nat]: length of the session prefix
    Parents,                    \* parent generations a client may name
    SampledTokens,              \* tokens the model may sample
    sequence_context_tokens, prefill_chunk_tokens, decode_quantum_tokens,
    max_decode_batch, tick_token_budget,
    PREFIX_CACHE_CHECKPOINT_TOKENS,
    MaxOpens, MaxFaults         \* bounds: open commands; failures and expiries

(* The tokens of the model's vocabulary that occur.                         *)
Tokens == SampledTokens \cup UNION {Range(PromptOf[r]) : r \in Requests}

(* What the configuration is checked for at the start, and a request when   *)
(* it opens a sequence.                                                     *)
RuntimeConfig ==
    /\ NoKey \notin Requests
    /\ PromptOf \in [Requests -> Seq(Tokens)]
    /\ \A r \in Requests : SessionOf[r] # "none" =>
          /\ ScopeOf[r] # "none"
          /\ PrefixOf[r] \in 1 .. Len(PromptOf[r]) - 1
    /\ {reasoning_budget, final_budget, total_budget} \subseteq Nat
    /\ {byte_budget, max_entries} \subseteq Nat
    /\ {prefill_chunk_tokens, decode_quantum_tokens, tick_token_budget} \subseteq Nat
    /\ prefill_chunk_tokens <= tick_token_budget
    /\ max_decode_batch \in 1 .. max_sequences
    /\ PREFIX_CACHE_CHECKPOINT_TOKENS \in Nat \ {0}

ASSUME RuntimeAssumption == RuntimeConfig

VARIABLES
    engine,     \* SequenceEngine
    states,     \* [Slots -> NativeSequenceState or NoState]
    kv,         \* [Slots -> tokens]: llama.cpp's memory, by position
    cache,      \* PromptStateCache
    cmd,        \* the batch command in progress, or Idle
    invalid,    \* "sequence_state_invalid" was thrown
    held,       \* the client's handles: [handle -> what it was told]
    opens, faults

vars == <<engine, states, kv, cache, cmd, invalid, held, opens, faults>>

NoState == [request |-> NoKey]
Idle == [type |-> "idle"]

NativeSequenceState(handle, r, parent, cached) ==
    [internal |-> handle, request |-> r, parent |-> parent,
     logical |-> cached, physical |-> cached, n_past |-> cached, cached |-> cached,
     pending |-> Last(PromptOf[r]), phase |-> NewController, final_phase |-> FALSE,
     committed |-> NoGeneration, utf8 |-> NewUtf8, final_bytes |-> <<>>,
     sampled |-> <<>>, terminal |-> FALSE, failed |-> FALSE]

Init ==
    /\ engine = NewEngine
    /\ states = [s \in Slots |-> NoState]
    /\ kv = [s \in Slots |-> <<>>]
    /\ cache = <<>>
    /\ cmd = Idle
    /\ invalid = FALSE
    /\ held = << >>
    /\ opens = 0
    /\ faults = 0

(* An external failure: a decode, a copy or a restore that llama.cpp refuses, *)
(* or entries that reach their TTL.                                          *)
Faults(n) == faults + n <= MaxFaults /\ faults' = faults + n

-----------------------------------------------------------------------------
(* open_sequence *)

InSession(r) == SessionOf[r] # "none"

Admission(r) == Admit(engine, r, Len(PromptOf[r]), total_budget)

ContextOverflow(r) == Len(PromptOf[r]) + total_budget + 8 > sequence_context_tokens

RootConflict(r, parent, c) ==
    /\ InSession(r) /\ parent = NoGeneration
    /\ ~SessionRootAllowed(c, ScopeOf[r], SessionOf[r], r)

Restorable(r, parent, c) ==
    IF ScopeOf[r] = "none" THEN Miss
    ELSE IF InSession(r) /\ parent # NoGeneration
         THEN SessionEntry(c, ScopeOf[r], SessionOf[r], parent, PromptOf[r])
         ELSE BestPrefix(c, ScopeOf[r], PromptOf[r])

(* Refused before a slot is taken; only the root check looks at the cache. *)
OpenRefused(r, parent, c) ==
    /\ \/ ContextOverflow(r)
       \/ RootConflict(r, parent, c)
       \/ Admission(r).status # "admitted"
    /\ cache' = IF InSession(r) /\ parent = NoGeneration /\ ~ContextOverflow(r)
                THEN c ELSE cache
    /\ UNCHANGED <<engine, states, kv, invalid, held>>

(* Mutation: the slot is cancelled but not released. *)
OpenWithoutParentLeaking(r, parent, c, restored) ==
    LET admitted == Admission(r)
        prefilling == StartPrefill(admitted.engine, admitted.handle).engine
    IN  /\ ~ContextOverflow(r) /\ admitted.status = "admitted"
        /\ InSession(r) /\ parent # NoGeneration
        /\ Restorable(r, parent, c) = Miss \/ ~restored
        /\ engine' = Cancel(prefilling, admitted.handle).engine
        /\ cache' = c
        /\ UNCHANGED <<states, kv, invalid, held>>

(* A parent generation that cannot be restored gives the slot back. *)
OpenWithoutParent(r, parent, c, restored) ==
    LET admitted == Admission(r)
        prefilling == StartPrefill(admitted.engine, admitted.handle).engine
        cancelled == Cancel(prefilling, admitted.handle).engine
    IN  /\ ~ContextOverflow(r) /\ admitted.status = "admitted"
        /\ InSession(r) /\ parent # NoGeneration
        /\ Restorable(r, parent, c) = Miss \/ ~restored
        /\ engine' = Release(cancelled, admitted.handle).engine
        /\ cache' = c
        /\ UNCHANGED <<states, kv, invalid, held>>

OpenAdmitted(r, parent, c, restored) ==
    LET admitted == Admission(r)
        h == admitted.handle
        i == IF restored THEN Restorable(r, parent, c) ELSE Miss
        cached == IF i = Miss THEN 0 ELSE Len(c[i].tokens)
        started == StartPrefill(admitted.engine, h)
        advanced == IF i = Miss THEN started ELSE AdvancePrefill(started.engine, h, cached)
    IN  /\ ~ContextOverflow(r) /\ ~RootConflict(r, parent, c)
        /\ admitted.status = "admitted"
        /\ ~(InSession(r) /\ parent # NoGeneration /\ i = Miss)
        /\ engine' = advanced.engine
        /\ invalid' = (invalid \/ advanced.status # "applied")
        /\ states' = [states EXCEPT ![h.slot] = NativeSequenceState(h, r, parent, cached)]
        /\ kv' = IF i = Miss THEN kv ELSE [kv EXCEPT ![h.slot] = c[i].state]
        /\ cache' = IF i = Miss THEN c ELSE Touch(c, i)
        /\ held' = [k \in DOMAIN held \cup {h} |->
                      IF k = h THEN [mode |-> "prefill", text |-> <<>>, final_text |-> <<>>]
                      ELSE held[k]]

(* A malformed envelope is refused before anything changes and is not a     *)
(* step here.                                                               *)
OpenSequence(r, parent) ==
    \E expired \in 0 .. Len(cache), restored \in BOOLEAN :
        LET c == Pruned(cache, expired)
        IN  /\ cmd = Idle
            /\ opens < MaxOpens /\ opens' = opens + 1
            /\ parent # NoGeneration => InSession(r)
            /\ ~restored => Restorable(r, parent, c) # Miss
            /\ ScopeOf[r] = "none" => expired = 0
            /\ Faults((IF expired > 0 THEN 1 ELSE 0) + (IF restored THEN 0 ELSE 1))
            /\ \/ OpenRefused(r, parent, c)
               \/ OpenWithoutParent(r, parent, c, restored)
               \/ OpenAdmitted(r, parent, c, restored)
            /\ UNCHANGED cmd

-----------------------------------------------------------------------------
(* Replies *)

(* What an error makes of the sequences of its command: releases are left.  *)
Doomed(handles) ==
    [k \in DOMAIN held |->
        IF k \in handles THEN [held[k] EXCEPT !.mode = "doomed"] ELSE held[k]]

ReplyError(steps) == cmd' = Idle /\ held' = Doomed(Range(steps))

Smaller(a, b) == IF a < b THEN a ELSE b

(* The scheduler's token budget for one sequence of a batch. *)
Share(limit, steps) == Smaller(limit, tick_token_budget \div Len(steps))

(* A batch names handles the client holds in that phase, each once, in any  *)
(* order; one order stands for all where its sequences do not meet.         *)
Able(mode) == {k \in DOMAIN held : held[k].mode = mode}

PrefillBatches ==
    {s \in UNION {[1 .. n -> Able("prefill")] : n \in 1 .. max_sequences} : IsInjective(s)}

DecodeBatches == {SetToSeq(b) : b \in {b \in SUBSET Able("decode") :
                                        Cardinality(b) \in 1 .. max_decode_batch}}

Steppable(h, lifecycle) ==
    /\ states[h.slot] # NoState
    /\ states[h.slot].internal.generation = h.generation
    /\ Lifecycle(engine, states[h.slot].internal) = lifecycle

-----------------------------------------------------------------------------
(* prefill_batch *)

CommitPending(st) ==
    InSession(st.request) /\ CommitOf[st.request] /\ st.committed = NoGeneration

(* Mutation: a chunk goes past the session prefix. *)
LogicalTokensUncut(st, budget) ==
    LET logical == Smaller(budget, Len(PromptOf[st.request]) - st.logical)
    IN  IF ScopeOf[st.request] = "none" \/ InSession(st.request) THEN logical
        ELSE Smaller(logical, PREFIX_CACHE_CHECKPOINT_TOKENS
                              - (st.physical % PREFIX_CACHE_CHECKPOINT_TOKENS))

(* A chunk ends where a snapshot is due: at the session prefix of a sequence *)
(* that commits, at the next checkpoint of one outside a session.            *)
LogicalTokens(st, budget) ==
    LET remaining == Len(PromptOf[st.request]) - st.logical
        logical == Smaller(budget, remaining)
    IN  IF ScopeOf[st.request] = "none" THEN logical
        ELSE IF CommitPending(st) /\ st.physical < PrefixOf[st.request]
             THEN Smaller(logical, PrefixOf[st.request] - st.physical)
        ELSE IF ~InSession(st.request)
             THEN Smaller(logical, PREFIX_CACHE_CHECKPOINT_TOKENS
                                   - (st.physical % PREFIX_CACHE_CHECKPOINT_TOKENS))
        ELSE logical

(* The last prompt token stays pending: decode feeds it and samples from it. *)
PhysicalTokens(st, logical) ==
    IF logical = Len(PromptOf[st.request]) - st.logical THEN logical - 1 ELSE logical

Decoded(work) ==
    [s \in Slots |->
        LET items == {i \in DOMAIN work : work[i].handle.slot = s}
        IN  IF items = {} THEN kv[s]
            ELSE LET item == work[Min(items)]
                     st == states[s]
                 IN  kv[s] \o SubSeq(PromptOf[st.request], st.physical + 1,
                                     st.physical + item.physical)]

PrefillBatch(steps, budget) ==
    LET work == [i \in DOMAIN steps |->
            LET st == states[steps[i].slot]
                logical == LogicalTokens(st, budget)
            IN  [handle |-> steps[i], logical |-> logical,
                 physical |-> PhysicalTokens(st, logical)]]
    IN  /\ cmd = Idle
        /\ budget > 0 /\ budget * Len(steps) <= tick_token_budget
        /\ IF \A i \in DOMAIN steps : Steppable(steps[i], "prefill")
           THEN /\ cmd' = [type |-> "prefill", steps |-> steps, work |-> work]
                /\ kv' = Decoded(work)
                /\ UNCHANGED held
           ELSE ReplyError(steps) /\ UNCHANGED kv
        /\ UNCHANGED <<engine, states, cache, invalid, opens, faults>>

(* llama_decode fails: what it wrote before it did is not known. *)
PrefillFails ==
    /\ cmd.type = "prefill" /\ cmd.work # <<>> /\ Len(cmd.work) = Len(cmd.steps)
    /\ \E i \in DOMAIN cmd.work : cmd.work[i].physical > 0
    /\ Faults(1)
    /\ ReplyError(cmd.steps)
    /\ UNCHANGED <<engine, states, kv, cache, invalid, opens>>

(* The snapshot an item of the batch leaves behind it, if one is due. *)
Snapshot(st, c, copied) ==
    LET r == st.request
        nothing == [used |-> FALSE, due |-> FALSE, generation |-> st.committed, cache |-> cache]
    IN  IF ScopeOf[r] = "none" THEN nothing
        ELSE IF CommitPending(st) /\ st.physical = PrefixOf[r]
        THEN LET stored == StoreSession(c, ScopeOf[r], SessionOf[r], st.parent, r,
                               SubSeq(PromptOf[r], 1, PrefixOf[r]),
                               kv[st.internal.slot], copied)
             IN  [used |-> TRUE, due |-> TRUE, generation |-> stored.generation,
                  cache |-> stored.cache]
        ELSE IF ~InSession(r) /\ st.physical > 0
        THEN [used |-> TRUE, due |-> FALSE, generation |-> NoGeneration,
              cache |-> Store(c, ScopeOf[r], SubSeq(PromptOf[r], 1, st.physical),
                              kv[st.internal.slot], copied)]
        ELSE nothing

ReplyPrefill(steps, after) ==
    /\ cmd' = Idle
    /\ held' = [k \in DOMAIN held |->
          IF k \in Range(steps) /\ after[k.slot].logical = Len(PromptOf[k.key])
          THEN [held[k] EXCEPT !.mode = "decode"] ELSE held[k]]

PrefillItem ==
    /\ cmd.type = "prefill" /\ cmd.work # <<>>
    /\ \E expired \in 0 .. Len(cache), copied \in BOOLEAN :
        LET item == Head(cmd.work)
            s == item.handle.slot
            physical == states[s].physical + item.physical
            st == [states[s] EXCEPT !.physical = physical, !.n_past = physical,
                                    !.logical = @ + item.logical]
            advanced == AdvancePrefill(engine, st.internal, item.logical)
            snapshot == Snapshot(st, Pruned(cache, expired), copied)
            after == [states EXCEPT ![s] = [st EXCEPT !.committed = snapshot.generation]]
        IN  /\ (expired > 0 \/ ~copied) => snapshot.used
            /\ Faults((IF expired > 0 THEN 1 ELSE 0) + (IF copied THEN 0 ELSE 1))
            /\ engine' = advanced.engine
            /\ invalid' = (invalid \/ advanced.status # "applied")
            /\ cache' = snapshot.cache
            /\ states' = after
            /\ IF snapshot.due /\ snapshot.generation = NoGeneration
               THEN ReplyError(cmd.steps)
               ELSE IF Len(cmd.work) = 1 THEN ReplyPrefill(cmd.steps, after)
               ELSE cmd' = [cmd EXCEPT !.work = Tail(@)] /\ UNCHANGED held
    /\ UNCHANGED <<kv, opens>>

-----------------------------------------------------------------------------
(* decode_batch *)

DecodeBatch(steps, budget) ==
    /\ cmd = Idle
    /\ budget > 0 /\ budget * Len(steps) <= tick_token_budget
    /\ IF \A i \in DOMAIN steps :
             Steppable(steps[i], "decode") /\ ~states[steps[i].slot].terminal
       THEN /\ cmd' = [type |-> "decode", steps |-> steps, budget |-> budget,
                       round |-> <<>>,
                       taken |-> [k \in Range(steps) |-> 0],
                       text |-> [k \in Range(steps) |-> <<>>]]
            /\ UNCHANGED held
       ELSE ReplyError(steps)
    /\ UNCHANGED <<engine, states, kv, cache, invalid, opens, faults>>

Active ==
    SetToSeq({k \in Range(cmd.steps) : ~states[k.slot].terminal /\ cmd.taken[k] < cmd.budget})

(* One round: the pending token of every active sequence is decoded. *)
DecodeRound ==
    /\ cmd.type = "decode" /\ cmd.round = <<>> /\ Active # <<>>
    /\ \/ /\ kv' = [s \in Slots |->
                IF \E k \in Range(Active) : k.slot = s
                THEN Append(kv[s], states[s].pending) ELSE kv[s]]
          /\ cmd' = [cmd EXCEPT !.round = Active]
          /\ UNCHANGED <<held, faults>>
       \/ Faults(1) /\ ReplyError(cmd.steps) /\ UNCHANGED kv
    /\ UNCHANGED <<engine, states, cache, invalid, opens>>

(* What the state becomes when it samples a token. *)
Sampled(st, token, decoded_tokens) ==
    LET eog == token = EOG
        inFinal == st.phase.phase = "final"
        result == Consume(st.phase, token, GrammarAcceptanceProven(eog, st.final_phase))
        appended == IF inFinal /\ ~eog THEN Utf8Append(st.utf8, token)
                    ELSE [utf8 |-> st.utf8, completed |-> <<>>]
        completed == result.action = "completed"
        failed == \/ ~appended.utf8.valid
                  \/ result.action = "failed"
                  \/ ~completed /\ decoded_tokens = total_budget
                  \/ completed /\ ~Utf8Finish(appended.utf8)
    IN  [state |-> [st EXCEPT
            !.n_past = @ + 1,
            !.sampled = Append(@, token),
            !.phase = result.controller,
            !.utf8 = appended.utf8,
            !.final_bytes = IF inFinal /\ ~eog THEN Append(@, token) ELSE @,
            !.final_phase = @ \/ result.action = "activate_final_grammar",
            !.failed = failed,
            !.terminal = failed \/ completed,
            !.pending = IF failed \/ completed THEN @ ELSE token],
         text |-> appended.completed]

DecodeSample(token) ==
    /\ cmd.type = "decode" /\ cmd.round # <<>>
    /\ LET k == Head(cmd.round)
           st == states[k.slot]
           advanced == AdvanceDecode(engine, st.internal, 1)
           next == Sampled(st, token, advanced.engine.slots[k.slot].decoded_tokens)
       IN  /\ states' = [states EXCEPT ![k.slot] = next.state]
           /\ engine' = IF next.state.terminal
                        THEN Finish(advanced.engine, st.internal).engine
                        ELSE advanced.engine
           /\ invalid' = (invalid \/ advanced.status # "applied")
           /\ cmd' = [cmd EXCEPT !.round = Tail(@), !.taken[k] = @ + 1,
                                 !.text[k] = @ \o next.text]
    /\ UNCHANGED <<kv, cache, held, opens, faults>>

DecodeReply ==
    /\ cmd.type = "decode" /\ cmd.round = <<>> /\ Active = <<>>
    /\ cmd' = Idle
    /\ held' = [k \in DOMAIN held |->
          IF k \notin Range(cmd.steps) THEN held[k]
          ELSE LET st == states[k.slot]
               IN  [mode |-> IF st.failed THEN "failed"
                             ELSE IF st.terminal THEN "finished" ELSE "decode",
                    text |-> held[k].text \o cmd.text[k],
                    final_text |-> IF st.terminal THEN st.final_bytes ELSE <<>>]]
    /\ UNCHANGED <<engine, states, kv, cache, invalid, opens, faults>>

-----------------------------------------------------------------------------
(* Mutation: only a sequence that ended by itself has its memory removed. *)
MemoryKept(s) ==
    IF states[s] # NoState /\ states[s].terminal THEN [kv EXCEPT ![s] = <<>>] ELSE kv

(* llama_memory_seq_rm(): whenever the slot has a state, whosever it is. *)
MemoryRemoved(s) == IF states[s] # NoState THEN [kv EXCEPT ![s] = <<>>] ELSE kv

(* release_sequence: a sequence that has not ended is cancelled first. *)
ReleaseSequence(h) ==
    LET st == states[h.slot]
        own == st # NoState /\ st.internal.generation = h.generation
        internal == IF own THEN st.internal ELSE Handle(h.slot, h.generation, NoKey)
        ended == IF own /\ Lifecycle(engine, internal) # "terminal"
                 THEN Cancel(engine, internal).engine ELSE engine
        released == Release(ended, internal)
    IN  /\ cmd = Idle
        /\ kv' = MemoryRemoved(h.slot)
        /\ engine' = released.engine
        /\ states' = IF released.status = "released"
                     THEN [states EXCEPT ![h.slot] = NoState] ELSE states
        /\ held' = [k \in DOMAIN held \ {h} |-> held[k]]
        /\ UNCHANGED <<cache, cmd, invalid, opens, faults>>

CacheClear ==
    /\ cmd = Idle /\ cache # <<>>
    /\ Faults(1)
    /\ cache' = Cleared
    /\ UNCHANGED <<engine, states, kv, cmd, invalid, held, opens>>

-----------------------------------------------------------------------------
Next ==
    \/ \E r \in Requests, parent \in Parents : OpenSequence(r, parent)
    \/ \E steps \in PrefillBatches : PrefillBatch(steps, Share(prefill_chunk_tokens, steps))
    \/ PrefillFails
    \/ PrefillItem
    \/ \E steps \in DecodeBatches : DecodeBatch(steps, Share(decode_quantum_tokens, steps))
    \/ DecodeRound
    \/ \E token \in SampledTokens : DecodeSample(token)
    \/ DecodeReply
    \/ \E h \in DOMAIN held : ReleaseSequence(h)
    \/ CacheClear

Spec == Init /\ [][Next]_vars

-----------------------------------------------------------------------------
(* Properties *)

Live(s) == engine.slots[s].lifecycle # "released"

(* The KV memory a sequence is continued from is exactly the tokens of its  *)
(* own prompt and answer, up to the position the next token is fed at, and  *)
(* a slot without a sequence has none: restored snapshots, chunk ends, the  *)
(* pending last token and the removal at release (open_sequence,            *)
(* prefill_batch, decode_batch, release_sequence) all have to agree on it.  *)
KvMatches ==
    \A s \in Slots :
        /\ ~Live(s) => kv[s] = <<>>
        /\ \A h \in DOMAIN held :
              cmd = Idle /\ h.slot = s /\ held[h].mode # "doomed" =>
                 LET st == states[s]
                 IN  /\ kv[s] = SubSeq(PromptOf[st.request] \o st.sampled, 1, st.n_past)
                     /\ held[h].mode = "decode" =>
                           st.n_past = Len(PromptOf[st.request]) + Len(st.sampled) - 1

(* The slot ledger, the per-slot states and the client's handles tell one   *)
(* story after every command, failed ones included: no slot or reservation  *)
(* is lost or counted twice, progress is counted alike on both sides, and   *)
(* the branches that throw "sequence_state_invalid" are never taken.        *)
EngineAgrees ==
    /\ ~invalid
    /\ engine.active_sequences = Cardinality({s \in Slots : Live(s)})
    /\ engine.reserved_tokens = MapThenSumSet(LAMBDA s : Reservation(engine.slots[s]), Slots)
    /\ engine.reserved_tokens <= token_capacity
    /\ \A s \in Slots :
          /\ Live(s) <=> states[s] # NoState
          /\ Live(s) =>
                LET slot == engine.slots[s]
                    st == states[s]
                IN  /\ Finds(engine, st.internal) /\ st.internal \in DOMAIN held
                    /\ slot.prompt_tokens_processed = st.logical
                    /\ slot.decoded_tokens = Len(st.sampled)
                    /\ slot.lifecycle = (IF st.terminal THEN "terminal"
                                         ELSE IF st.logical = Len(PromptOf[st.request])
                                         THEN "decode" ELSE "prefill")
    /\ \A h \in DOMAIN held : Finds(engine, h)

(* Every snapshot is the memory of exactly the tokens it is filed under,    *)
(* the cache keeps to its two limits, and a session never holds two         *)
(* snapshots with one generation (capture, store, store_session).           *)
SnapshotsFaithful ==
    /\ \A i \in DOMAIN cache : cache[i].state = cache[i].tokens
    /\ BytesUsed(cache) <= byte_budget /\ Len(cache) <= max_entries
    /\ \A i, j \in DOMAIN cache :
          i # j => \/ cache[i].kind # cache[j].kind
                   \/ cache[i].identity # cache[j].identity
                   \/ /\ cache[i].kind = "session"
                      /\ \/ cache[i].session # cache[j].session
                         \/ /\ cache[i].generation # cache[j].generation
                            /\ cache[i].commit_key # cache[j].commit_key
                   \/ cache[i].kind = "prefix" /\ cache[i].tokens # cache[j].tokens

(* What the client was sent piece by piece is the final text of the         *)
(* completion, within the budgets of the request; and a session sequence    *)
(* that was to commit did, unless what it restored already reached past its *)
(* prefix (decode_batch's outcomes, prefill_batch's commit).                *)
CompletionIsWhole ==
    \A h \in DOMAIN held : held[h].mode = "finished" =>
        LET st == states[h.slot]
        IN  /\ held[h].text = held[h].final_text
            /\ st.phase.phase = "done"
            /\ st.phase.reasoning + st.phase.final + 1 = Len(st.sampled)
            /\ Len(st.sampled) <= total_budget
            /\ InSession(st.request) /\ CommitOf[st.request] =>
                  st.committed # NoGeneration \/ st.cached >= PrefixOf[st.request]

=============================================================================
