----------------------------- MODULE PromptCache -----------------------------
(* PromptStateCache of native/inference_runtime_main.cpp: snapshots of a    *)
(* sequence's KV memory, keyed by the tokens they were computed from.  The  *)
(* cache is the sequence of its entries from least to most recently used,   *)
(* and the size of a snapshot is the number of tokens in it.                *)
EXTENDS Naturals, Sequences, FiniteSets, SequencesExt, FiniteSetsExt

CONSTANTS
    byte_budget, max_entries,
    MIN_PREFIX_CACHE_TOKENS

ASSUME CacheAssumption ==
    byte_budget \in Nat /\ max_entries \in Nat /\ MIN_PREFIX_CACHE_TOKENS \in Nat

NoGeneration == 0
Miss == 0               \* no cached tokens: what restore() answers without an entry

BytesUsed(cache) == MapThenSumSet(LAMBDA i : Len(cache[i].state), DOMAIN cache)

(* prune(): every entry idle for the TTL goes; age follows the LRU order, so *)
(* some number of the oldest.                                                *)
Pruned(cache, expired) == SubSeq(cache, expired + 1, Len(cache))

Touch(cache, i) == Append(RemoveAt(cache, i), cache[i])

(* clear() *)
Cleared == <<>>

-----------------------------------------------------------------------------
(* restore(): the longest prefix entry that leaves at least one token of the *)
(* prompt to decode; the most recently used one among equals.                *)
PrefixMatches(cache, identity, tokens) ==
    {i \in DOMAIN cache :
        /\ cache[i].kind = "prefix"
        /\ cache[i].identity = identity
        /\ Len(cache[i].tokens) \in MIN_PREFIX_CACHE_TOKENS .. Len(tokens) - 1
        /\ IsPrefix(cache[i].tokens, tokens)}

BestPrefix(cache, identity, tokens) ==
    LET found == PrefixMatches(cache, identity, tokens)
    IN  IF Len(tokens) <= 1 \/ found = {} THEN Miss
        ELSE CHOOSE i \in found : \A j \in found :
                \/ Len(cache[j].tokens) < Len(cache[i].tokens)
                \/ Len(cache[j].tokens) = Len(cache[i].tokens) /\ j <= i

(* restore_session(): exactly the generation asked for, if it is a prefix. *)
SessionEntry(cache, identity, session, generation, tokens) ==
    LET found == {i \in DOMAIN cache :
            /\ cache[i].kind = "session"
            /\ cache[i].identity = identity
            /\ cache[i].session = session
            /\ cache[i].generation = generation}
        i == Min(found)
    IN  IF \/ Len(tokens) <= 1 \/ found = {}
           \/ Len(cache[i].tokens) > Len(tokens) - 1
           \/ ~IsPrefix(cache[i].tokens, tokens)
        THEN Miss ELSE i

SessionEntries(cache, identity, session) ==
    {i \in DOMAIN cache :
        /\ cache[i].kind = "session"
        /\ cache[i].identity = identity
        /\ cache[i].session = session}

SessionRootAllowed(cache, identity, session, commit_key) ==
    \A i \in SessionEntries(cache, identity, session) : cache[i].commit_key = commit_key

-----------------------------------------------------------------------------
(* capture(): evict from the least recently used end until the snapshot      *)
(* fits, then copy it; the copy may fail after the evictions.                *)
Fits(cache, size) ==
    BytesUsed(cache) + size <= byte_budget /\ Len(cache) < max_entries

(* Mutation: entries are evicted until the count allows one more. *)
EvictedByCount(cache, size) ==
    SubSeq(cache, IF Len(cache) < max_entries THEN 1 ELSE 2, Len(cache))

Evicted(cache, size) ==
    LET enough == {k \in 0 .. Len(cache) :
                      k = Len(cache) \/ Fits(SubSeq(cache, k + 1, Len(cache)), size)}
    IN  SubSeq(cache, Min(enough) + 1, Len(cache))

Capture(cache, entry, copied) ==
    LET size == Len(entry.state)
        room == Evicted(cache, size)
    IN  IF size = 0 \/ size > byte_budget THEN [ok |-> FALSE, cache |-> cache]
        ELSE IF max_entries = 0 \/ ~copied THEN [ok |-> FALSE, cache |-> room]
        ELSE [ok |-> TRUE, cache |-> Append(room, entry)]

Entry(kind, identity, session, generation, parent, commit_key, tokens, state) ==
    [kind |-> kind, identity |-> identity, session |-> session, generation |-> generation,
     parent |-> parent, commit_key |-> commit_key, tokens |-> tokens, state |-> state]

(* store(): an entry with the same tokens is only touched. *)
Store(cache, identity, tokens, state, copied) ==
    LET same == {i \in DOMAIN cache :
            /\ cache[i].kind = "prefix"
            /\ cache[i].identity = identity
            /\ cache[i].tokens = tokens}
    IN  IF same # {} THEN Touch(cache, Min(same))
        ELSE Capture(cache, Entry("prefix", identity, "none", NoGeneration, NoGeneration,
                                  "none", tokens, state), copied).cache

(* store_session(): a commit key is stored once; a second root is refused; a *)
(* new generation follows the largest one still in the cache.                *)
StoreSession(cache, identity, session, parent, commit_key, tokens, state, copied) ==
    LET own == SessionEntries(cache, identity, session)
        same == {i \in own : cache[i].commit_key = commit_key}
        next == Max({1} \cup {cache[i].generation + 1 : i \in own})
        captured == Capture(cache, Entry("session", identity, session, next, parent,
                                         commit_key, tokens, state), copied)
        refused == [generation |-> NoGeneration, cache |-> cache]
    IN  IF same # {}
        THEN LET i == Min(same) IN
             IF cache[i].parent # parent \/ cache[i].tokens # tokens THEN refused
             ELSE [generation |-> cache[i].generation, cache |-> Touch(cache, i)]
        ELSE IF own # {} /\ parent = NoGeneration THEN refused
        ELSE [generation |-> IF captured.ok THEN next ELSE NoGeneration,
              cache |-> captured.cache]

=============================================================================
