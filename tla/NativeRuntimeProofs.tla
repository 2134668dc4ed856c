------------------------ MODULE NativeRuntimeProofs ------------------------
(***************************************************************************)
(* Proofs about the native inference runtime, for any number of slots, any *)
(* requests, prompts and sampled tokens, any chunk and quantum sizes, any  *)
(* limits of the snapshot cache, and whatever fails.                       *)
(*                                                                         *)
(* The invariant RuntimeInv joins five things the command loop keeps apart *)
(* and updates at different times: the slot ledger of the engine, the      *)
(* state of each sequence, the KV memory of each slot, the snapshots, and  *)
(* what the client was told.  A lemma follows it through each command, and *)
(* within prefill_batch and decode_batch through each item and token.      *)
(***************************************************************************)
EXTENDS NativeRuntime, TLAPS, FiniteSetTheorems, SequenceTheorems, NaturalsInduction,
        WellFoundedInduction

-----------------------------------------------------------------------------
(***************************************************************************)
(* The invariant.                                                          *)
(***************************************************************************)

\* Every nonempty set of naturals has a least element.
LEMMA LeastNat ==
  ASSUME NEW B \in SUBSET Nat, B # {}
  PROVE  \E n \in B : \A m \in B : n <= m
<1>1. \E n \in B : \A m \in B : ~(<<m, n>> \in OpToRel(<, Nat))
  BY NatLessThanWellFounded, WFMin, Zenon
<1>2. \A m, n \in Nat : m < n => <<m, n>> \in OpToRel(<, Nat)
  BY DEF OpToRel
<1>3. \E n \in B : \A m \in B : ~(m < n)
  BY <1>1, <1>2, Zenon
<1> QED
  BY <1>3

\* The prompt of a sequence, and all the tokens it has.
Prompt(st) == PromptOf[st.request]

TokensOf(st) == Prompt(st) \o st.sampled

\* The fields of the records the loop keeps.
StateShape(st) ==
  st = [internal |-> st.internal, request |-> st.request, parent |-> st.parent,
        logical |-> st.logical, physical |-> st.physical, n_past |-> st.n_past,
        cached |-> st.cached, pending |-> st.pending, phase |-> st.phase,
        final_phase |-> st.final_phase, committed |-> st.committed, utf8 |-> st.utf8,
        final_bytes |-> st.final_bytes, sampled |-> st.sampled, terminal |-> st.terminal,
        failed |-> st.failed]

ControllerShape(c) ==
  c = [phase |-> c.phase, sampled |-> c.sampled, reasoning |-> c.reasoning,
       final |-> c.final, tail |-> c.tail]

Accumulator(p) == [valid |-> TRUE, pending |-> p]

NoteShape(note) == note = [mode |-> note.mode, text |-> note.text, final_text |-> note.final_text]

\* The progress of a sequence: the prompt first, of which the last token stays
\* pending, then the tokens sampled.
Progress(st) ==
  /\ st.request \in Requests
  /\ st.logical \in 0 .. Len(Prompt(st)) /\ Len(Prompt(st)) > 0
  /\ st.physical = (IF st.logical = Len(Prompt(st)) THEN st.logical - 1 ELSE st.logical)
  /\ st.sampled \in Seq(Tokens)
  /\ st.n_past = st.physical + Len(st.sampled)
  /\ st.cached \in 0 .. st.physical
  /\ st.logical < Len(Prompt(st)) => st.sampled = <<>> /\ ~st.terminal
  /\ ~st.terminal => st.pending = Last(TokensOf(st))

\* What the controller and the accumulator have made of the sampled tokens.
Spoken(st) ==
  /\ st.terminal \in BOOLEAN /\ st.failed \in BOOLEAN /\ (st.failed => st.terminal)
  /\ st.final_bytes \in Seq(Tokens)
  /\ ~st.failed =>
       /\ st.utf8 = Accumulator(st.utf8.pending) /\ st.utf8.pending \in Seq(Tokens)
       /\ ControllerShape(st.phase) /\ st.phase.reasoning \in Nat /\ st.phase.final \in Nat
  /\ ~st.terminal =>
       /\ st.phase.phase \in {"expect_reasoning_start", "reasoning", "final"}
       /\ st.phase.reasoning + st.phase.final = Len(st.sampled)
       /\ Len(st.sampled) < total_budget
  /\ st.terminal /\ ~st.failed =>
       /\ st.phase.phase = "done" /\ st.utf8.pending = <<>>
       /\ st.phase.reasoning + st.phase.final + 1 = Len(st.sampled)
       /\ Len(st.sampled) <= total_budget

\* A session sequence commits its prefix before it goes past it, unless what it
\* restored was past it already.
CommitsInTime(st) ==
  /\ st.committed \in Nat
  /\ InSession(st.request) /\ CommitOf[st.request] =>
       \/ st.committed # NoGeneration
       \/ st.physical < PrefixOf[st.request]
       \/ st.cached >= PrefixOf[st.request]

-----------------------------------------------------------------------------
\* The slot ledger against the states of the sequences.
Fills(slot, st, s) ==
  /\ slot.key = st.request
  /\ st.internal = Handle(s, slot.generation, slot.key)
  /\ slot.prompt_tokens = Len(Prompt(st)) /\ slot.output_token_budget = total_budget
  /\ slot.prompt_tokens_processed = st.logical
  /\ slot.decoded_tokens = Len(st.sampled)
  /\ slot.lifecycle = (IF st.terminal THEN "terminal"
                       ELSE IF st.logical = Len(Prompt(st)) THEN "decode" ELSE "prefill")

\* The slots that hold a sequence.
LiveSlots(e) == {s \in Slots : e.slots[s].lifecycle # "released"}

\* The fields and types of the ledger.
SlotShape(slot) ==
  slot = [generation |-> slot.generation, key |-> slot.key, lifecycle |-> slot.lifecycle,
          prompt_tokens |-> slot.prompt_tokens, output_token_budget |-> slot.output_token_budget,
          prompt_tokens_processed |-> slot.prompt_tokens_processed,
          decoded_tokens |-> slot.decoded_tokens]

SlotType(slot) ==
  /\ slot.generation \in Nat /\ slot.prompt_tokens \in Nat /\ slot.output_token_budget \in Nat
  /\ SlotShape(slot)

LedgerShape(e) ==
  /\ e = [slots |-> e.slots, reserved_tokens |-> e.reserved_tokens,
          active_sequences |-> e.active_sequences]
  /\ e.slots = [s \in Slots |-> e.slots[s]]

\* What the slots reserve together.
ReservedIn(e) == MapThenSumSet(LAMBDA s : Reservation(e.slots[s]), Slots)

\* The ledger is the sum of its slots, within the capacity.
Books(e) ==
  /\ LedgerShape(e)
  /\ \A s \in Slots : /\ SlotType(e.slots[s])
                      /\ s \notin LiveSlots(e) => e.slots[s] = Vacant(e.slots[s].generation)
  /\ e.active_sequences = Cardinality(LiveSlots(e))
  /\ e.reserved_tokens = ReservedIn(e)
  /\ e.reserved_tokens <= token_capacity

\* A state stands beside each live slot and no other, and the client has its handle.
SlotsAgree(e, sts, hd) ==
  /\ sts = [s \in Slots |-> sts[s]]
  /\ \A s \in Slots : IF s \in LiveSlots(e)
                      THEN /\ sts[s] # NoState /\ StateShape(sts[s]) /\ Fills(e.slots[s], sts[s], s)
                           /\ Progress(sts[s]) /\ Spoken(sts[s])
                      ELSE sts[s] = NoState
  /\ DOMAIN hd = {sts[s].internal : s \in LiveSlots(e)}

-----------------------------------------------------------------------------
\* The handles a command is about, and those it has still to deal with.
Stepped(c) == IF c = Idle THEN {} ELSE Range(c.steps)

Pending(c) == IF c.type = "prefill" THEN {c.work[i].handle : i \in DOMAIN c.work}
              ELSE IF c.type = "decode" THEN Range(c.round) ELSE {}

\* The item of a prefill batch that is about a sequence.
ItemOf(c, h) == c.work[CHOOSE i \in DOMAIN c.work : c.work[i].handle = h]

\* How many tokens llama.cpp's memory is ahead of a sequence's count.
Ahead(c, h) == IF h \notin Pending(c) THEN 0
               ELSE IF c.type = "prefill" THEN ItemOf(c, h).physical ELSE 1

\* A sequence that was not given up remembers the tokens it counts, and commits.
Remembers(st, memory, ahead) ==
  /\ memory = SubSeq(TokensOf(st), 1, st.n_past + ahead)
  /\ CommitsInTime(st)

\* What the client holds against what the sequence is.
Told(note, st, text) ==
  /\ note.mode \in {"prefill", "decode", "finished", "failed"}
  /\ note.text \in Seq(Tokens)
  /\ note.mode # "prefill" => st.logical = Len(Prompt(st))
  /\ note.mode = "finished" => /\ st.terminal /\ ~st.failed
                               /\ note.final_text = st.final_bytes
  /\ note.mode = "failed" => st.failed
  /\ ~st.failed => (note.text \o text) \o st.utf8.pending = st.final_bytes

\* What a decode batch has for a sequence and did not send yet.
TextOf(c, h) == IF c.type = "decode" /\ h \in Range(c.steps) THEN c.text[h] ELSE <<>>

\* A sequence was given up after an error, or its memory and its client are right;
\* between commands the client knows also which command it is for.
HandleOk(h, sts, memory, c, hd) ==
  LET st == sts[h.slot]
  IN  /\ NoteShape(hd[h])
      /\ \/ hd[h].mode = "doomed" /\ h \notin Stepped(c)
         \/ /\ Remembers(st, memory[h.slot], Ahead(c, h))
            /\ Told(hd[h], st, TextOf(c, h))
            /\ h \notin Stepped(c) =>
                 /\ hd[h].mode = "prefill" => st.logical < Len(Prompt(st))
                 /\ hd[h].mode = "decode" => ~st.terminal

\* An item of a prefill batch, still to be booked.
ItemOk(item, st) ==
  LET left == Len(Prompt(st)) - st.logical
  IN  /\ item.logical \in 1 .. left
      /\ item.physical = (IF item.logical = left THEN item.logical - 1 ELSE item.logical)
      /\ InSession(st.request) /\ CommitOf[st.request] /\ st.committed = NoGeneration
         /\ st.physical < PrefixOf[st.request]
            => st.physical + item.logical <= PrefixOf[st.request]

\* A batch in progress names sequences the client holds, and each once in what is left.
CommandOk(c, sts, hd) ==
  \/ c = Idle
  \/ /\ c.type = "prefill"
     /\ c = [type |-> "prefill", steps |-> c.steps, work |-> c.work]
     /\ c.steps \in Seq(DOMAIN hd) /\ Range(c.steps) # {}
     /\ \A h \in Range(c.steps) : hd[h].mode = "prefill" /\ ~sts[h.slot].terminal
     /\ c.work \in Seq([handle : Range(c.steps), logical : Nat, physical : Nat]) /\ c.work # <<>>
     /\ \A i, j \in DOMAIN c.work : c.work[i].handle = c.work[j].handle => i = j
     /\ \A i \in DOMAIN c.work : ItemOk(c.work[i], sts[c.work[i].handle.slot])
  \/ /\ c.type = "decode"
     /\ c = [type |-> "decode", steps |-> c.steps, budget |-> c.budget, round |-> c.round,
             taken |-> c.taken, text |-> c.text]
     /\ c.steps \in Seq(DOMAIN hd)
     /\ \A h \in Range(c.steps) : hd[h].mode = "decode"
     /\ c.round \in Seq(Range(c.steps))
     /\ \A i, j \in DOMAIN c.round : c.round[i] = c.round[j] => i = j
     /\ \A h \in Range(c.round) : ~sts[h.slot].terminal
     /\ c.text \in [Range(c.steps) -> Seq(Tokens)]
     /\ c.taken \in [Range(c.steps) -> Nat]

-----------------------------------------------------------------------------
\* An entry of the snapshot cache.
EntryOk(entry) ==
  /\ entry.tokens \in Seq(Tokens) /\ entry.tokens # <<>>
  /\ entry.state = entry.tokens
  /\ entry.kind \in {"prefix", "session"}
  /\ entry.kind = "session" => entry.generation \in Nat \ {0}

\* Two entries that may be in one cache.
Distinct(a, b) ==
  \/ a.kind # b.kind
  \/ a.identity # b.identity
  \/ a.kind = "session" /\ \/ a.session # b.session
                           \/ a.generation # b.generation /\ a.commit_key # b.commit_key
  \/ a.kind = "prefix" /\ a.tokens # b.tokens

\* The snapshots, apart and within the limits.
CacheOk(c) ==
  /\ c = [i \in 1 .. Len(c) |-> c[i]] /\ Len(c) \in Nat
  /\ \A i \in DOMAIN c : EntryOk(c[i])
  /\ \A i, j \in DOMAIN c : i # j => Distinct(c[i], c[j])
  /\ BytesUsed(c) <= byte_budget /\ Len(c) <= max_entries

-----------------------------------------------------------------------------
\* The inductive invariant.
RuntimeInv ==
  /\ ~invalid
  /\ Books(engine)
  /\ SlotsAgree(engine, states, held)
  /\ CommandOk(cmd, states, held)
  /\ kv = [s \in Slots |-> kv[s]]
  /\ \A s \in Slots \ LiveSlots(engine) : kv[s] = <<>>
  /\ \A h \in DOMAIN held : HandleOk(h, states, kv, cmd, held)
  /\ CacheOk(cache)

(***************************************************************************)
(* Sums.  A fold over a set is the value of a function on its subsets that *)
(* satisfies the equation of the fold.  Such a function exists, by         *)
(* induction on the number of elements, and its values do not depend on    *)
(* the order.                                                              *)
(***************************************************************************)

SumStep(h, f, s) ==
  IF s = {} THEN 0 ELSE f[CHOOSE x \in s : TRUE] + h[s \ {CHOOSE x \in s : TRUE}]

Sums(h, f, D) == h = [s \in SUBSET D |-> SumStep(h, f, s)]

NatSums(h, f, D) == Sums(h, f, D) /\ h \in [SUBSET D -> Nat]

\* The sum of f over D.
Total(f, D) == (CHOOSE h : Sums(h, f, D))[D]

\* Induction over the subsets of a finite set, with a set in the place of a
\* predicate.
LEMMA SubsetInduction ==
  ASSUME NEW D, IsFiniteSet(D), NEW F,
         \A s \in SUBSET D : (\A x \in s : s \ {x} \in F) => s \in F
  PROVE  D \in F
<1> DEFINE B == {n \in Nat : \E s \in SUBSET D : s \notin F /\ Cardinality(s) = n}
<1>1. SUFFICES ASSUME D \notin F PROVE FALSE
  OBVIOUS
<1>2. Cardinality(D) \in B
  BY <1>1, FS_CardinalityType
<1>3. PICK n \in B : \A m \in B : n <= m
  BY <1>2, LeastNat
<1>4. PICK s \in SUBSET D : s \notin F /\ Cardinality(s) = n
  BY <1>3
<1>5. PICK x \in s : s \ {x} \notin F
  BY <1>4
<1>6. IsFiniteSet(s) /\ Cardinality(s \ {x}) = n - 1 /\ Cardinality(s \ {x}) \in Nat
  BY <1>4, FS_Subset, FS_RemoveElement, FS_CardinalityType
<1>7. n - 1 \in B /\ n - 1 < n
  BY <1>3, <1>5, <1>6
<1> QED
  BY <1>3, <1>7

\* What CHOOSE takes from a nonempty set is in it.
LEMMA Chosen == ASSUME NEW s, s # {} PROVE (CHOOSE x \in s : TRUE) \in s
OBVIOUS

\* A function that satisfies the equation of the fold exists.
LEMMA SumsExist ==
  ASSUME NEW D, IsFiniteSet(D), NEW f, \A x \in D : f[x] \in Nat
  PROVE  \E h : NatSums(h, f, D)
<1> DEFINE Upto(n) == \E h \in [SUBSET D -> Nat] :
                        \A s \in SUBSET D : Cardinality(s) <= n => h[s] = SumStep(h, f, s)
           B == {n \in Nat : ~Upto(n)}
<1>0. \A s \in SUBSET D : IsFiniteSet(s) /\ Cardinality(s) \in Nat
  BY FS_Subset, FS_CardinalityType
<1>1. Upto(0)
  <2>1. [s \in SUBSET D |-> 0] \in [SUBSET D -> Nat]
    OBVIOUS
  <2>2. \A s \in SUBSET D : Cardinality(s) <= 0 => s = {}
    BY <1>0, FS_EmptySet
  <2> QED
    BY <2>1, <2>2 DEF SumStep
<1>2. ASSUME NEW n \in Nat, Upto(n) PROVE Upto(n + 1)
  <2>1. PICK h \in [SUBSET D -> Nat] :
          \A s \in SUBSET D : Cardinality(s) <= n => h[s] = SumStep(h, f, s)
    BY <1>2
  <2> DEFINE g == [s \in SUBSET D |-> SumStep(h, f, s)]
  <2>2. \A s \in SUBSET D : s # {} => (CHOOSE x \in s : TRUE) \in s
    BY Chosen
  <2>3. g \in [SUBSET D -> Nat]
    BY <2>2 DEF SumStep
  <2>4. ASSUME NEW s \in SUBSET D, Cardinality(s) <= n + 1 PROVE g[s] = SumStep(g, f, s)
    <3>1. CASE s = {}
      BY <3>1 DEF SumStep
    <3>2. CASE s # {}
      <4>1. PICK c \in s : c = (CHOOSE x \in s : TRUE)
        BY <2>2, <3>2
      <4>2. IsFiniteSet(s) /\ Cardinality(s \ {c}) = Cardinality(s) - 1
        BY <1>0, FS_RemoveElement
      <4>3. s \ {c} \in SUBSET D /\ Cardinality(s \ {c}) <= n
        BY <1>0, <2>4, <4>2
      <4>4. g[s \ {c}] = h[s \ {c}]
        BY <2>1, <4>3
      <4>5. g[s] = h[s \ {c}] + f[c] /\ SumStep(g, f, s) = g[s \ {c}] + f[c]
        BY <3>2, <4>1 DEF SumStep
      <4> QED
        BY <4>4, <4>5
    <3> QED
      BY <3>1, <3>2
  <2> HIDE DEF g
  <2> QED
    BY <2>3, <2>4
<1> HIDE DEF Upto
<1>3. B = {}
  <2>1. SUFFICES ASSUME B # {} PROVE FALSE
    OBVIOUS
  <2>2. PICK n \in B : \A m \in B : n <= m
    BY <2>1, LeastNat
  <2>3. n # 0 /\ n - 1 \in Nat /\ n - 1 + 1 = n
    BY <1>1, <2>2
  <2>4. n - 1 \in B
    BY <1>2, <2>2, <2>3
  <2> QED
    BY <2>2, <2>3, <2>4
<1>4. Upto(Cardinality(D))
  BY <1>0, <1>3
<1>5. PICK h \in [SUBSET D -> Nat] :
        \A s \in SUBSET D : Cardinality(s) <= Cardinality(D) => h[s] = SumStep(h, f, s)
  BY <1>4 DEF Upto
<1>6. \A s \in SUBSET D : Cardinality(s) <= Cardinality(D)
  BY FS_Subset
<1> QED
  BY <1>5, <1>6 DEF Sums, NatSums

\* The sum over a set does not depend on what it is a part of.
LEMMA SumsAgree ==
  ASSUME NEW D, IsFiniteSet(D), NEW E \in SUBSET D, NEW f, NEW h, NEW g,
         Sums(h, f, D), Sums(g, f, E)
  PROVE  h[E] = g[E]
<1> DEFINE F == {s \in SUBSET E : h[s] = g[s]}
<1>1. ASSUME NEW s \in SUBSET E, \A x \in s : s \ {x} \in F PROVE s \in F
  <2>1. h[s] = SumStep(h, f, s) /\ g[s] = SumStep(g, f, s)
    BY DEF Sums
  <2>2. CASE s = {}
    BY <2>1, <2>2 DEF SumStep
  <2>3. CASE s # {}
    BY <1>1, <2>1, <2>3, Chosen DEF SumStep
  <2> QED
    BY <2>2, <2>3
<1>2. IsFiniteSet(E)
  BY FS_Subset
<1> HIDE DEF F
<1>3. E \in F
  BY <1>1, <1>2, SubsetInduction
<1> QED
  BY <1>3 DEF F

\* Any element may be taken first.
LEMMA SumsOrder ==
  ASSUME NEW D, IsFiniteSet(D), NEW f, \A x \in D : f[x] \in Nat,
         NEW h, NatSums(h, f, D)
  PROVE  \A x \in D : h[D] = f[x] + h[D \ {x}]
<1>0. h \in [SUBSET D -> Nat] /\ Sums(h, f, D)
  BY DEF NatSums
<1> DEFINE F == {s \in SUBSET D : \A y \in s : h[s] = f[y] + h[s \ {y}]}
<1>1. ASSUME NEW s \in SUBSET D, \A y \in s : s \ {y} \in F, NEW y \in s
      PROVE  h[s] = f[y] + h[s \ {y}]
  <2> DEFINE c == CHOOSE z \in s : TRUE
  <2>1. c \in s /\ h[s] = h[s \ {c}] + f[c]
    BY <1>0, Chosen DEF Sums, SumStep
  <2> HIDE DEF c
  <2>2. CASE y = c
    <3>1. PICK m \in Nat : m = h[s \ {c}]
      BY <1>0
    <3>2. PICK n \in Nat : n = f[c]
      BY <2>1
    <3> QED
      BY <2>1, <2>2, <3>1, <3>2
  <2>3. CASE y # c
    <3>1. h[s \ {c}] = f[y] + h[(s \ {c}) \ {y}]
      BY <1>1, <2>1, <2>3
    <3>2. h[s \ {y}] = f[c] + h[(s \ {y}) \ {c}]
      BY <1>1, <2>1, <2>3
    <3>3. (s \ {y}) \ {c} = (s \ {c}) \ {y}
      OBVIOUS
    <3>4. PICK k \in Nat : k = h[(s \ {c}) \ {y}]
      BY <1>0
    <3>5. f[y] \in Nat /\ f[c] \in Nat
      BY <2>1
    <3>6. h[s] = f[c] + (f[y] + k) /\ h[s \ {y}] = f[c] + k
      BY <2>1, <3>1, <3>2, <3>3, <3>4
    <3> QED
      BY <3>4, <3>5, <3>6
  <2> QED
    BY <2>2, <2>3
<1>2. \A s \in SUBSET D : (\A y \in s : s \ {y} \in F) => s \in F
  BY <1>1
<1> HIDE DEF F
<1>3. D \in F
  BY <1>2, SubsetInduction
<1> QED
  BY <1>3 DEF F

\* The sum over a set of positions is a number, and each adds its size.
LEMMA TotalAdd ==
  ASSUME NEW D, IsFiniteSet(D), NEW f, \A x \in D : f[x] \in Nat
  PROVE  /\ Total(f, D) \in Nat
         /\ \A x \in D : Total(f, D) = f[x] + Total(f, D \ {x})
<1>1. PICK h : NatSums(h, f, D)
  BY SumsExist
<1>2. ASSUME NEW E \in SUBSET D PROVE Total(f, E) = h[E]
  <2>1. IsFiniteSet(E)
    BY FS_Subset
  <2>2. \E g : Sums(g, f, E)
    BY <2>1, SumsExist DEF NatSums
  <2>3. Sums(CHOOSE g : Sums(g, f, E), f, E)
    BY <2>2
  <2> QED
    BY <1>1, <2>3, SumsAgree DEF Total, NatSums
<1>3. \A x \in D : h[D] = f[x] + h[D \ {x}]
  BY <1>1, SumsOrder
<1>4. ASSUME NEW y \in D PROVE Total(f, D) = f[y] + Total(f, D \ {y})
  BY <1>2, <1>3
<1> QED
  BY <1>1, <1>2, <1>4 DEF NatSums

\* No positions, no bytes.
LEMMA TotalNone == ASSUME NEW f PROVE Total(f, {}) = 0
<1>1. PICK h : NatSums(h, f, {})
  BY SumsExist, FS_EmptySet
<1>2. Sums(CHOOSE g : Sums(g, f, {}), f, {})
  BY <1>1 DEF NatSums
<1> QED
  BY <1>2 DEF Total, Sums, SumStep

\* Moving events to other positions does not change the sum.
LEMMA TotalMoved ==
  ASSUME NEW D, IsFiniteSet(D), NEW f, NEW g, NEW to, IsFiniteSet({to[x] : x \in D}),
         \A x \in D : f[x] \in Nat, \A x \in D : g[to[x]] = f[x],
         \A x, y \in D : to[x] = to[y] => x = y
  PROVE  Total(g, {to[x] : x \in D}) = Total(f, D)
<1> DEFINE M(s) == {to[x] : x \in s}
           F == {s \in SUBSET D : Total(g, M(s)) = Total(f, s)}
<1>1. ASSUME NEW s \in SUBSET D, \A x \in s : s \ {x} \in F
      PROVE  Total(g, M(s)) = Total(f, s)
  <2>1. IsFiniteSet(s) /\ IsFiniteSet(M(s))
    <3>1. M(s) \in SUBSET {to[x] : x \in D}
      OBVIOUS
    <3> HIDE DEF M
    <3> QED
      BY <3>1, FS_Subset
  <2>2. CASE s = {}
    <3>1. M(s) = {}
      BY <2>2
    <3> HIDE DEF M
    <3> QED
      BY <2>2, <3>1, TotalNone
  <2>3. CASE s # {}
    <3>1. PICK x \in s : TRUE
      BY <2>3
    <3>2. to[x] \in M(s) /\ M(s) \ {to[x]} = M(s \ {x})
      BY <3>1
    <3>3. \A y \in M(s) : g[y] \in Nat
      OBVIOUS
    <3>4. Total(g, M(s \ {x})) = Total(f, s \ {x}) /\ g[to[x]] = f[x]
      BY <1>1
    <3> HIDE DEF M
    <3>5. Total(g, M(s)) = g[to[x]] + Total(g, M(s \ {x}))
      <4>1. PICK T, y : T = M(s) /\ y = to[x]
        OBVIOUS
      <4>2. IsFiniteSet(T) /\ (\A z \in T : g[z] \in Nat) /\ y \in T
        BY <2>1, <3>2, <3>3, <4>1
      <4>3. Total(g, T) = g[y] + Total(g, T \ {y})
        BY <4>2, TotalAdd
      <4> QED
        BY <3>2, <4>1, <4>3
    <3>6. Total(f, s) = f[x] + Total(f, s \ {x})
      BY <2>1, TotalAdd
    <3> QED
      BY <3>4, <3>5, <3>6
  <2> QED
    BY <2>2, <2>3
<1>2. \A s \in SUBSET D : (\A x \in s : s \ {x} \in F) => s \in F
  BY <1>1
<1>3. F = {s \in SUBSET D : Total(g, M(s)) = Total(f, s)}
  OBVIOUS
<1> HIDE DEF F
<1>4. D \in F
  BY <1>2, SubsetInduction
<1> QED
  BY <1>3, <1>4

\* The sum depends on the values only.
LEMMA TotalSame ==
  ASSUME NEW D, IsFiniteSet(D), NEW f, NEW g, \A x \in D : f[x] \in Nat /\ g[x] = f[x]
  PROVE  Total(g, D) = Total(f, D)
<1>1. PICK to : to = [i \in D |-> i]
  OBVIOUS
<1>2. {to[x] : x \in D} = D /\ \A x, y \in D : to[x] = to[y] => x = y
  BY <1>1
<1>3. \A x \in D : g[to[x]] = f[x] /\ f[x] \in Nat
  BY <1>1
<1>4. IsFiniteSet({to[x] : x \in D})
  BY <1>2
<1>5. Total(g, {to[x] : x \in D}) = Total(f, D)
  BY <1>2, <1>3, <1>4, TotalMoved
<1> QED
  BY <1>2, <1>5

-----------------------------------------------------------------------------
(***************************************************************************)
(* The slot ledger of the runtime.                                         *)
(***************************************************************************)

\* The slots are those of the adapter's model.
LEMMA SlotsAreSlots ==
  /\ Slots = 0 .. max_sequences - 1 /\ Slots \subseteq Nat /\ IsFiniteSet(Slots)
  /\ Cardinality(Slots) = max_sequences /\ max_sequences \in Nat \ {0}
<1>1. max_sequences \in Nat \ {0} /\ 0 \in Nat /\ max_sequences - 1 \in Nat
  BY EngineAssumption
<1>2. IsFiniteSet(0 .. max_sequences - 1)
      /\ Cardinality(0 .. max_sequences - 1) = max_sequences
  BY <1>1, FS_Interval
<1> QED
  BY <1>1, <1>2 DEF Slots

\* What each slot reserves.
Weights(slots) == [s \in Slots |-> slots[s].prompt_tokens + slots[s].output_token_budget]

WeightsNat(slots) ==
  \A s \in Slots : slots[s].prompt_tokens \in Nat /\ slots[s].output_token_budget \in Nat

\* The reserved tokens of an engine are a sum over its slots.
LEMMA ReservedIsTotal ==
  ASSUME NEW e, WeightsNat(e.slots)
  PROVE  ReservedIn(e) = Total(Weights(e.slots), Slots)
<1> DEFINE w == Weights(e.slots)
           P(h) == h = [s \in SUBSET Slots |->
                          IF s = {} THEN 0
                          ELSE Reservation(e.slots[CHOOSE x \in s : TRUE])
                               + h[s \ {CHOOSE x \in s : TRUE}]]
<1>1. ReservedIn(e) = (CHOOSE h : P(h))[Slots]
  BY DEF ReservedIn, MapThenSumSet, MapThenFoldSet
<1>2. \A x \in Slots : w[x] = Reservation(e.slots[x]) /\ w[x] \in Nat
  BY DEF Weights, Reservation, WeightsNat
<1> HIDE DEF w
<1>3. ASSUME NEW s \in SUBSET Slots, s # {}
      PROVE  w[CHOOSE x \in s : TRUE] = Reservation(e.slots[CHOOSE x \in s : TRUE])
  <2>1. PICK c \in Slots : c = (CHOOSE x \in s : TRUE)
    BY <1>3, Chosen
  <2> QED
    BY <1>2, <2>1
<1>4. ASSUME NEW h PROVE P(h) <=> Sums(h, w, Slots)
  BY <1>3 DEF Sums, SumStep
<1>5. IsFiniteSet(Slots)
  BY SlotsAreSlots
<1>6. PICK g : NatSums(g, w, Slots)
  BY <1>2, <1>5, SumsExist
<1>7. P(g)
  BY <1>4, <1>6 DEF NatSums
<1>8. P(CHOOSE h : P(h))
  BY <1>7, Zenon
<1>9. Sums(CHOOSE h : P(h), w, Slots) /\ Sums(CHOOSE h : Sums(h, w, Slots), w, Slots)
  <2>1. Sums(CHOOSE h : Sums(h, w, Slots), w, Slots)
    BY <1>6 DEF NatSums
  <2> HIDE DEF P
  <2> QED
    BY <1>4, <1>8, <2>1
<1> HIDE DEF P
<1>10. (CHOOSE h : P(h))[Slots] = (CHOOSE h : Sums(h, w, Slots))[Slots]
  BY <1>5, <1>9, SumsAgree
<1> QED
  BY <1>1, <1>10 DEF Total, w

\* One slot changes what it reserves.
LEMMA ReservedChanges ==
  ASSUME NEW e, NEW f, WeightsNat(e.slots), WeightsNat(f.slots), NEW s \in Slots,
         \A t \in Slots \ {s} : f.slots[t] = e.slots[t]
  PROVE  /\ ReservedIn(e) \in Nat /\ ReservedIn(f) \in Nat
         /\ ReservedIn(e) + Reservation(f.slots[s]) = ReservedIn(f) + Reservation(e.slots[s])
         /\ Reservation(e.slots[s]) \in Nat /\ Reservation(f.slots[s]) \in Nat
         /\ Reservation(e.slots[s]) <= ReservedIn(e)
<1> DEFINE v == Weights(e.slots)
           w == Weights(f.slots)
           R == Slots \ {s}
<1>1. /\ \A t \in Slots : v[t] \in Nat /\ w[t] \in Nat
      /\ v[s] = Reservation(e.slots[s]) /\ w[s] = Reservation(f.slots[s])
      /\ \A t \in R : v[t] = w[t]
  BY DEF Weights, WeightsNat, Reservation
<1>2. IsFiniteSet(Slots) /\ IsFiniteSet(R)
  BY SlotsAreSlots, FS_Subset
<1>3. ReservedIn(e) = Total(v, Slots) /\ ReservedIn(f) = Total(w, Slots)
  BY ReservedIsTotal
<1> HIDE DEF v, w
<1>4. /\ Total(v, Slots) \in Nat /\ Total(v, Slots) = v[s] + Total(v, R)
      /\ Total(w, Slots) \in Nat /\ Total(w, Slots) = w[s] + Total(w, R)
  <2>1. \A x \in Slots : Total(v, Slots) = v[x] + Total(v, Slots \ {x})
    BY <1>1, <1>2, TotalAdd
  <2>2. \A x \in Slots : Total(w, Slots) = w[x] + Total(w, Slots \ {x})
    BY <1>1, <1>2, TotalAdd
  <2>3. Total(v, Slots) \in Nat /\ Total(w, Slots) \in Nat
    BY <1>1, <1>2, TotalAdd
  <2> QED
    BY <2>1, <2>2, <2>3
<1> HIDE DEF R
<1>5. Total(v, R) \in Nat /\ Total(w, R) \in Nat
  <2>1. \A x \in R : v[x] \in Nat /\ w[x] \in Nat
    BY <1>1 DEF R
  <2> QED
    BY <1>2, <2>1, TotalAdd
<1>6. Total(v, R) = Total(w, R)
  <2>1. \A x \in R : v[x] \in Nat /\ w[x] = v[x]
    BY <1>1 DEF R
  <2> QED
    BY <1>2, <2>1, TotalSame
<1>7. v[s] \in Nat /\ w[s] \in Nat
  BY <1>1
<1> QED
  BY <1>1, <1>3, <1>4, <1>5, <1>6, <1>7

\* The live slots are finitely many.
LEMMA LiveSlotsFinite ==
  ASSUME NEW e
  PROVE  /\ IsFiniteSet(LiveSlots(e)) /\ LiveSlots(e) \subseteq Slots
         /\ Cardinality(LiveSlots(e)) \in Nat
         /\ Cardinality(LiveSlots(e)) = max_sequences => LiveSlots(e) = Slots
<1>1. LiveSlots(e) \in SUBSET Slots
  BY DEF LiveSlots
<1> QED
  BY <1>1, SlotsAreSlots, FS_Subset, FS_CardinalityType

\* The parts of a ledger.
BooksOf(slots, reserved, active) ==
  [slots |-> slots, reserved_tokens |-> reserved, active_sequences |-> active]

LEMMA BooksParts ==
  ASSUME NEW sl, NEW r, NEW a, NEW e, e = BooksOf(sl, r, a), sl = [s \in Slots |-> sl[s]]
  PROVE  e.slots = sl /\ e.reserved_tokens = r /\ e.active_sequences = a /\ LedgerShape(e)
BY DEF BooksOf, LedgerShape

LEMMA BooksNat ==
  ASSUME NEW e, Books(e)
  PROVE  /\ WeightsNat(e.slots)
         /\ \A s \in Slots : SlotType(e.slots[s]) /\ e.slots[s].generation \in Nat
         /\ e.slots = [s \in Slots |-> e.slots[s]]
         /\ e = BooksOf(e.slots, e.reserved_tokens, e.active_sequences)
<1>1. WeightsNat(e.slots) /\ \A s \in Slots : SlotType(e.slots[s]) /\ e.slots[s].generation \in Nat
  BY DEF Books, WeightsNat, SlotType
<1>2. LedgerShape(e)
  BY DEF Books
<1> QED
  BY <1>1, <1>2 DEF LedgerShape, BooksOf

\* Slot s of an engine is replaced.
SetSlot(e, s, slot) == [e EXCEPT !.slots[s] = slot]

OnlySlot(e, f, s) == \A t \in Slots \ {s} : f.slots[t] = e.slots[t]

\* What a live slot may become.
Succeeds(old, slot) ==
  /\ SlotType(slot) /\ slot.lifecycle # "released"
  /\ slot.prompt_tokens = old.prompt_tokens
  /\ slot.output_token_budget = old.output_token_budget

\* A live slot moves on; what it reserves stays.
LEMMA BooksMove ==
  ASSUME NEW e, Books(e), NEW s \in LiveSlots(e), NEW slot, Succeeds(e.slots[s], slot),
         NEW f, f = SetSlot(e, s, slot)
  PROVE  /\ Books(f) /\ LiveSlots(f) = LiveSlots(e)
         /\ f.slots[s] = slot /\ OnlySlot(e, f, s)
<1>0. s \in Slots
  BY DEF LiveSlots
<1>1. /\ e = BooksOf(e.slots, e.reserved_tokens, e.active_sequences)
      /\ e.slots = [t \in Slots |-> e.slots[t]]
  BY BooksNat
<1>2. f = BooksOf([e.slots EXCEPT ![s] = slot], e.reserved_tokens, e.active_sequences)
  BY <1>1 DEF BooksOf, SetSlot
<1>3. /\ f.slots = [e.slots EXCEPT ![s] = slot]
      /\ f.reserved_tokens = e.reserved_tokens /\ f.active_sequences = e.active_sequences
      /\ LedgerShape(f)
  <2>1. PICK sl : sl = [e.slots EXCEPT ![s] = slot]
    OBVIOUS
  <2>2. sl = [t \in Slots |-> sl[t]]
    BY <1>1, <2>1
  <2> QED
    BY <1>2, <2>1, <2>2, BooksParts
<1>4. f.slots[s] = slot /\ \A t \in Slots \ {s} : f.slots[t] = e.slots[t]
  BY <1>0, <1>1, <1>3
<1>5. LiveSlots(f) = LiveSlots(e)
  BY <1>4 DEF LiveSlots, Succeeds
<1>6. \A t \in Slots : /\ SlotType(f.slots[t])
                       /\ t \notin LiveSlots(f) => f.slots[t] = Vacant(f.slots[t].generation)
  <2>1. \A t \in Slots : /\ SlotType(e.slots[t])
                         /\ t \notin LiveSlots(e) => e.slots[t] = Vacant(e.slots[t].generation)
    BY DEF Books
  <2> TAKE t \in Slots
  <2>2. CASE t = s
    BY <1>4, <1>5, <2>2 DEF Succeeds
  <2>3. CASE t # s
    BY <1>4, <1>5, <2>1, <2>3
  <2> QED
    BY <2>2, <2>3
<1>7. ReservedIn(f) = ReservedIn(e)
  <2>1. WeightsNat(e.slots) /\ WeightsNat(f.slots)
    BY <1>6, BooksNat DEF WeightsNat, SlotType
  <2>x. \A t \in Slots \ {s} : f.slots[t] = e.slots[t]
    BY <1>4
  <2>2. Reservation(f.slots[s]) = Reservation(e.slots[s])
    BY <1>4 DEF Reservation, Succeeds
  <2>3. /\ ReservedIn(e) \in Nat /\ ReservedIn(f) \in Nat
        /\ ReservedIn(e) + Reservation(f.slots[s]) = ReservedIn(f) + Reservation(e.slots[s])
        /\ Reservation(e.slots[s]) \in Nat
    BY ONLY <1>0, <2>x, <2>1, ReservedChanges
  <2> QED
    BY <2>2, <2>3
<1>8. e.active_sequences = Cardinality(LiveSlots(e)) /\ e.reserved_tokens = ReservedIn(e)
      /\ e.reserved_tokens <= token_capacity
  BY DEF Books
<1>9. Books(f)
  BY <1>3, <1>4, <1>5, <1>6, <1>7, <1>8 DEF Books
<1> QED
  BY <1>3, <1>4, <1>5, <1>9 DEF OnlySlot

\* A slot of its parts.
Cell(g, k, l, p, b, n, d) ==
  [generation |-> g, key |-> k, lifecycle |-> l, prompt_tokens |-> p, output_token_budget |-> b,
   prompt_tokens_processed |-> n, decoded_tokens |-> d]

LEMMA CellFields ==
  ASSUME NEW g, NEW k, NEW l, NEW p, NEW b, NEW n, NEW d, NEW c, c = Cell(g, k, l, p, b, n, d)
  PROVE  /\ c.generation = g /\ c.key = k /\ c.lifecycle = l /\ c.prompt_tokens = p
         /\ c.output_token_budget = b /\ c.prompt_tokens_processed = n /\ c.decoded_tokens = d
         /\ SlotShape(c)
         /\ g \in Nat /\ p \in Nat /\ b \in Nat => SlotType(c)
BY DEF Cell, SlotShape, SlotType

\* The sequence in slot s moves on to a lifecycle and two counts.
CellTo(slot, l, n, d) ==
  Cell(slot.generation, slot.key, l, slot.prompt_tokens, slot.output_token_budget, n, d)

MoveTo(e, s, l, n, d) == SetSlot(e, s, CellTo(e.slots[s], l, n, d))

LEMMA MovesTo ==
  ASSUME NEW e, Books(e), NEW s \in LiveSlots(e), NEW l, l # "released", NEW n, NEW d,
         NEW f, f = MoveTo(e, s, l, n, d)
  PROVE  /\ Books(f) /\ LiveSlots(f) = LiveSlots(e) /\ OnlySlot(e, f, s)
         /\ f.slots[s] = CellTo(e.slots[s], l, n, d)
<1>1. s \in Slots
  BY DEF LiveSlots
<1>2. SlotType(e.slots[s])
  BY <1>1, BooksNat
<1>3. PICK slot : slot = CellTo(e.slots[s], l, n, d)
  OBVIOUS
<1>4. Succeeds(e.slots[s], slot)
  <2>1. slot = Cell(e.slots[s].generation, e.slots[s].key, l, e.slots[s].prompt_tokens,
                    e.slots[s].output_token_budget, n, d)
    BY <1>3 DEF CellTo
  <2>2. /\ e.slots[s].generation \in Nat /\ e.slots[s].prompt_tokens \in Nat
        /\ e.slots[s].output_token_budget \in Nat
    BY <1>2 DEF SlotType
  <2> QED
    BY <2>1, <2>2, CellFields DEF Succeeds
<1>5. f = SetSlot(e, s, slot)
  BY <1>3 DEF MoveTo
<1>6. Books(f) /\ LiveSlots(f) = LiveSlots(e) /\ f.slots[s] = slot /\ OnlySlot(e, f, s)
  BY <1>4, <1>5, BooksMove
<1> QED
  BY <1>3, <1>6

\* The handle of the sequence in a slot.
HandleIn(e, s) == Handle(s, e.slots[s].generation, e.slots[s].key)

LEMMA HandleFinds ==
  ASSUME NEW e, NEW s \in LiveSlots(e), NEW h, h = HandleIn(e, s)
  PROVE  /\ h.slot = s /\ Finds(e, h) /\ Lifecycle(e, h) = e.slots[s].lifecycle
         /\ h.generation = e.slots[s].generation /\ h.key = e.slots[s].key
<1>1. h.slot = s /\ h.generation = e.slots[s].generation /\ h.key = e.slots[s].key
  BY DEF HandleIn, Handle
<1>2. Finds(e, h)
  BY <1>1 DEF Finds, LiveSlots
<1> QED
  BY <1>1, <1>2 DEF Lifecycle

\* What an operation answers that is applied.
Applied(answer, f) == answer.status = "applied" /\ answer.engine = f

LEMMA Operates ==
  ASSUME NEW e, NEW s \in LiveSlots(e), NEW h, h = HandleIn(e, s),
         NEW lifecycles, e.slots[s].lifecycle \in lifecycles, NEW ok, ok = TRUE, NEW changed
  PROVE  Applied(Operate(e, h, lifecycles, ok, changed), SetSlot(e, s, changed))
<1>1. h.slot = s /\ Finds(e, h)
  BY HandleFinds
<1> QED
  BY <1>1 DEF Operate, Applied, SetSlot

LEMMA StartPrefillMoves ==
  ASSUME NEW e, Books(e), NEW s \in LiveSlots(e), NEW h, h = HandleIn(e, s),
         e.slots[s].lifecycle = "admitted", NEW slot, slot = e.slots[s]
  PROVE  Applied(StartPrefill(e, h),
                 MoveTo(e, s, "prefill", slot.prompt_tokens_processed, slot.decoded_tokens))
<1>1. h.slot = s
  BY HandleFinds
<1>2. SlotShape(slot)
  BY BooksNat DEF LiveSlots, SlotType
<1>3. [slot EXCEPT !.lifecycle = "prefill"]
        = CellTo(slot, "prefill", slot.prompt_tokens_processed, slot.decoded_tokens)
  BY <1>2 DEF SlotShape, CellTo, Cell
<1>4. "admitted" \in {"admitted"}
  OBVIOUS
<1>5. Applied(Operate(e, h, {"admitted"}, TRUE, [slot EXCEPT !.lifecycle = "prefill"]),
              SetSlot(e, s, [slot EXCEPT !.lifecycle = "prefill"]))
  BY <1>4, Operates
<1> QED
  BY <1>1, <1>3, <1>5 DEF StartPrefill, MoveTo

LEMMA AdvancePrefillMoves ==
  ASSUME NEW e, Books(e), NEW s \in LiveSlots(e), NEW h, h = HandleIn(e, s),
         e.slots[s].lifecycle = "prefill", NEW slot, slot = e.slots[s],
         NEW left, left = slot.prompt_tokens - slot.prompt_tokens_processed,
         NEW t \in 1 .. left
  PROVE  Applied(AdvancePrefill(e, h, t),
                 MoveTo(e, s, IF t = left THEN "decode" ELSE "prefill",
                        slot.prompt_tokens_processed + t, slot.decoded_tokens))
<1>1. h.slot = s
  BY HandleFinds
<1>2. SlotShape(slot)
  BY BooksNat DEF LiveSlots, SlotType
<1>3. PICK to : to = [slot EXCEPT
                        !.prompt_tokens_processed = @ + t,
                        !.lifecycle = IF t = left THEN "decode" ELSE @]
  OBVIOUS
<1>4. to = CellTo(slot, IF t = left THEN "decode" ELSE "prefill",
                  slot.prompt_tokens_processed + t, slot.decoded_tokens)
  BY <1>2, <1>3, Zenon DEF SlotShape, CellTo, Cell
<1>5. PICK ok \in BOOLEAN : ok = TRUE /\ ok = (t \in 1 .. left)
  OBVIOUS
<1>6. Applied(Operate(e, h, {"prefill"}, ok, to), SetSlot(e, s, to))
  BY <1>5, Operates
<1>7. AdvancePrefill(e, h, t) = Operate(e, h, {"prefill"}, ok, to)
  <2>1. AdvancePrefill(e, h, t) = Operate(e, h, {"prefill"}, t \in 1 .. left, to)
    BY <1>1, <1>3, Zenon DEF AdvancePrefill
  <2> QED
    BY <1>5, <2>1
<1> QED
  BY <1>4, <1>6, <1>7 DEF MoveTo

LEMMA AdvanceDecodeMoves ==
  ASSUME NEW e, Books(e), NEW s \in LiveSlots(e), NEW h, h = HandleIn(e, s),
         e.slots[s].lifecycle = "decode", NEW slot, slot = e.slots[s],
         slot.decoded_tokens \in Nat, slot.decoded_tokens < slot.output_token_budget
  PROVE  Applied(AdvanceDecode(e, h, 1),
                 MoveTo(e, s, "decode", slot.prompt_tokens_processed, slot.decoded_tokens + 1))
<1>1. h.slot = s
  BY HandleFinds
<1>2. SlotType(slot)
  BY BooksNat DEF LiveSlots
<1>3. PICK to : to = [slot EXCEPT !.decoded_tokens = @ + 1]
  OBVIOUS
<1>4. to = CellTo(slot, "decode", slot.prompt_tokens_processed, slot.decoded_tokens + 1)
  BY <1>2, <1>3 DEF SlotShape, SlotType, CellTo, Cell
<1>5. PICK ok \in BOOLEAN : ok = TRUE /\ ok = (1 \in 1 .. slot.output_token_budget - slot.decoded_tokens)
  <2>1. 1 \in 1 .. slot.output_token_budget - slot.decoded_tokens
    BY <1>2 DEF SlotType
  <2> QED
    BY <2>1, Zenon
<1>6. Applied(Operate(e, h, {"decode"}, ok, to), SetSlot(e, s, to))
  BY <1>5, Operates
<1>7. AdvanceDecode(e, h, 1) = Operate(e, h, {"decode"}, ok, to)
  <2>1. AdvanceDecode(e, h, 1)
          = Operate(e, h, {"decode"}, 1 \in 1 .. slot.output_token_budget - slot.decoded_tokens, to)
    BY <1>1, <1>3 DEF AdvanceDecode
  <2> QED
    BY <1>5, <2>1
<1> QED
  BY <1>4, <1>6, <1>7 DEF MoveTo

LEMMA EndsMoves ==
  ASSUME NEW e, Books(e), NEW s \in LiveSlots(e), NEW h, h = HandleIn(e, s),
         NEW slot, slot = e.slots[s]
  PROVE  /\ slot.lifecycle = "decode" =>
              Applied(Finish(e, h), MoveTo(e, s, "terminal", slot.prompt_tokens_processed,
                                           slot.decoded_tokens))
         /\ slot.lifecycle \in {"admitted", "prefill", "decode"} =>
              Applied(Cancel(e, h), MoveTo(e, s, "terminal", slot.prompt_tokens_processed,
                                           slot.decoded_tokens))
<1>1. h.slot = s
  BY HandleFinds
<1>2. SlotShape(slot)
  BY BooksNat DEF LiveSlots, SlotType
<1>3. [slot EXCEPT !.lifecycle = "terminal"]
        = CellTo(slot, "terminal", slot.prompt_tokens_processed, slot.decoded_tokens)
  BY <1>2 DEF SlotShape, CellTo, Cell
<1>4. ASSUME NEW L, slot.lifecycle \in L
      PROVE  Applied(Operate(e, h, L, TRUE, [slot EXCEPT !.lifecycle = "terminal"]),
                     SetSlot(e, s, [slot EXCEPT !.lifecycle = "terminal"]))
  BY <1>4, Operates
<1>5. slot.lifecycle = "decode" => slot.lifecycle \in {"decode"}
  OBVIOUS
<1> QED
  BY <1>1, <1>3, <1>4, <1>5 DEF Finish, Cancel, MoveTo

\* What an empty slot is.
LEMMA VacantType ==
  ASSUME NEW g \in Nat
  PROVE  /\ SlotType(Vacant(g)) /\ Vacant(g).lifecycle = "released" /\ Vacant(g).generation = g
         /\ Reservation(Vacant(g)) = 0
BY DEF SlotType, SlotShape, Vacant, Reservation

\* A vacant slot is taken: the ledger counts it and what it reserves.
Taken(e, s, slot) ==
  BooksOf([e.slots EXCEPT ![s] = slot], e.reserved_tokens + Reservation(slot),
          e.active_sequences + 1)

LEMMA BooksAdd ==
  ASSUME NEW e, Books(e), NEW s \in Slots, s \notin LiveSlots(e),
         NEW slot, SlotType(slot), slot.lifecycle # "released",
         e.reserved_tokens + Reservation(slot) <= token_capacity,
         NEW f, f = Taken(e, s, slot)
  PROVE  /\ Books(f) /\ LiveSlots(f) = LiveSlots(e) \cup {s}
         /\ f.slots[s] = slot /\ OnlySlot(e, f, s)
<1>1. e.slots = [t \in Slots |-> e.slots[t]]
  BY BooksNat
<1>2. /\ f.slots = [e.slots EXCEPT ![s] = slot]
      /\ f.reserved_tokens = e.reserved_tokens + Reservation(slot)
      /\ f.active_sequences = e.active_sequences + 1 /\ LedgerShape(f)
  <2>1. PICK sl : sl = [e.slots EXCEPT ![s] = slot]
    OBVIOUS
  <2>2. sl = [t \in Slots |-> sl[t]]
    BY <1>1, <2>1
  <2> QED
    BY <2>1, <2>2, BooksParts DEF Taken
<1>3. f.slots[s] = slot /\ \A t \in Slots \ {s} : f.slots[t] = e.slots[t]
  BY <1>1, <1>2
<1>4. LiveSlots(f) = LiveSlots(e) \cup {s}
  BY <1>3 DEF LiveSlots
<1>5. \A t \in Slots : /\ SlotType(e.slots[t])
                       /\ t \notin LiveSlots(e) => e.slots[t] = Vacant(e.slots[t].generation)
  BY DEF Books
<1>6. \A t \in Slots : /\ SlotType(f.slots[t])
                       /\ t \notin LiveSlots(f) => f.slots[t] = Vacant(f.slots[t].generation)
  <2> TAKE t \in Slots
  <2>2. CASE t = s
    BY <1>3, <1>4, <2>2
  <2>3. CASE t # s
    BY <1>3, <1>4, <1>5, <2>3
  <2> QED
    BY <2>2, <2>3
<1>7. ReservedIn(f) = ReservedIn(e) + Reservation(slot)
  <2>1. WeightsNat(e.slots) /\ WeightsNat(f.slots)
    BY <1>6, BooksNat DEF WeightsNat, SlotType
  <2>2. Reservation(e.slots[s]) = 0
    <3>1. PICK g \in Nat : e.slots[s] = Vacant(g)
      BY <1>5, BooksNat
    <3> QED
      BY <3>1, VacantType
  <2>3. \A t \in Slots \ {s} : f.slots[t] = e.slots[t]
    BY <1>3
  <2>4. /\ ReservedIn(e) \in Nat /\ ReservedIn(f) \in Nat
        /\ ReservedIn(e) + Reservation(f.slots[s]) = ReservedIn(f) + Reservation(e.slots[s])
        /\ Reservation(f.slots[s]) \in Nat
    BY ONLY <2>1, <2>3, s \in Slots, ReservedChanges
  <2>5. Reservation(f.slots[s]) = Reservation(slot)
    BY <1>3
  <2> QED
    BY <2>2, <2>4, <2>5
<1>8. f.active_sequences = Cardinality(LiveSlots(f))
  <2>1. Cardinality(LiveSlots(e) \cup {s}) = Cardinality(LiveSlots(e)) + 1
    BY LiveSlotsFinite, FS_AddElement
  <2>2. e.active_sequences = Cardinality(LiveSlots(e))
    BY DEF Books
  <2> QED
    BY <1>2, <1>4, <2>1, <2>2
<1>9. e.reserved_tokens = ReservedIn(e)
  BY DEF Books
<1>10. f.reserved_tokens = ReservedIn(f) /\ f.reserved_tokens <= token_capacity
  BY <1>2, <1>7, <1>9
<1>11. Books(f)
  BY <1>2, <1>6, <1>8, <1>10 DEF Books
<1> QED
  BY <1>3, <1>4, <1>11 DEF OnlySlot

\* A slot is vacated: what it reserved is given back.
Vacated(e, s) ==
  BooksOf([e.slots EXCEPT ![s] = Vacant(e.slots[s].generation)],
          e.reserved_tokens - Reservation(e.slots[s]), e.active_sequences - 1)

LEMMA BooksRemove ==
  ASSUME NEW e, Books(e), NEW s \in LiveSlots(e), NEW f, f = Vacated(e, s)
  PROVE  /\ Books(f) /\ LiveSlots(f) = LiveSlots(e) \ {s} /\ OnlySlot(e, f, s)
<1>0. s \in Slots /\ e.slots[s].generation \in Nat
  BY BooksNat DEF LiveSlots
<1>1. e.slots = [t \in Slots |-> e.slots[t]]
  BY BooksNat
<1> DEFINE slot == Vacant(e.slots[s].generation)
<1>2. /\ f.slots = [e.slots EXCEPT ![s] = slot]
      /\ f.reserved_tokens = e.reserved_tokens - Reservation(e.slots[s])
      /\ f.active_sequences = e.active_sequences - 1 /\ LedgerShape(f)
  <2>1. PICK sl : sl = [e.slots EXCEPT ![s] = slot]
    OBVIOUS
  <2>2. sl = [t \in Slots |-> sl[t]]
    BY <1>1, <2>1
  <2> QED
    BY <2>1, <2>2, BooksParts DEF Vacated
<1>v. SlotType(slot) /\ slot.lifecycle = "released" /\ slot = Vacant(slot.generation)
      /\ Reservation(slot) = 0
  BY <1>0, VacantType
<1> HIDE DEF slot
<1>3. f.slots[s] = slot /\ \A t \in Slots \ {s} : f.slots[t] = e.slots[t]
  BY <1>0, <1>1, <1>2
<1>4. LiveSlots(f) = LiveSlots(e) \ {s}
  BY <1>3, <1>v DEF LiveSlots
<1>5. \A t \in Slots : /\ SlotType(e.slots[t])
                       /\ t \notin LiveSlots(e) => e.slots[t] = Vacant(e.slots[t].generation)
  BY DEF Books
<1>6. \A t \in Slots : /\ SlotType(f.slots[t])
                       /\ t \notin LiveSlots(f) => f.slots[t] = Vacant(f.slots[t].generation)
  <2> TAKE t \in Slots
  <2>2. CASE t = s
    BY <1>3, <1>v, <2>2
  <2>3. CASE t # s
    BY <1>3, <1>4, <1>5, <2>3
  <2> QED
    BY <2>2, <2>3
<1>7. /\ ReservedIn(f) = ReservedIn(e) - Reservation(e.slots[s])
      /\ ReservedIn(f) \in Nat /\ Reservation(e.slots[s]) \in Nat /\ ReservedIn(e) \in Nat
  <2>1. WeightsNat(e.slots) /\ WeightsNat(f.slots)
    BY <1>6, BooksNat DEF WeightsNat, SlotType
  <2>3. \A t \in Slots \ {s} : f.slots[t] = e.slots[t]
    BY <1>3
  <2>4. /\ ReservedIn(e) \in Nat /\ ReservedIn(f) \in Nat
        /\ ReservedIn(e) + Reservation(f.slots[s]) = ReservedIn(f) + Reservation(e.slots[s])
        /\ Reservation(e.slots[s]) \in Nat
    BY ONLY <2>1, <2>3, <1>0, ReservedChanges
  <2>5. Reservation(f.slots[s]) = 0
    BY <1>3, <1>v
  <2> QED
    BY <2>4, <2>5
<1>8. f.active_sequences = Cardinality(LiveSlots(f))
  <2>1. Cardinality(LiveSlots(e) \ {s}) = Cardinality(LiveSlots(e)) - 1
    BY LiveSlotsFinite, FS_RemoveElement
  <2>2. e.active_sequences = Cardinality(LiveSlots(e))
    BY DEF Books
  <2> QED
    BY <1>2, <1>4, <2>1, <2>2
<1>9. e.reserved_tokens = ReservedIn(e) /\ e.reserved_tokens <= token_capacity
  BY DEF Books
<1>10. f.reserved_tokens = ReservedIn(f) /\ f.reserved_tokens <= token_capacity
  BY <1>2, <1>7, <1>9, EngineAssumption
<1>11. Books(f)
  BY <1>2, <1>6, <1>8, <1>10 DEF Books
<1> QED
  BY <1>3, <1>4, <1>11 DEF OnlySlot

\* release() of a sequence that has ended.
LEMMA ReleaseVacates ==
  ASSUME NEW e, Books(e), NEW s \in LiveSlots(e), NEW h, h = HandleIn(e, s),
         e.slots[s].lifecycle = "terminal"
  PROVE  LET released == Release(e, h)
         IN  released.status = "released" /\ released.engine = Vacated(e, s)
<1>1. h.slot = s /\ Finds(e, h)
  BY HandleFinds
<1> QED
  BY <1>1 DEF Release, Vacated, BooksOf

\* The reserved tokens are a number.
LEMMA LedgerNat == ASSUME NEW e, Books(e) PROVE e.reserved_tokens \in Nat
<1>1. 0 \in Slots
  BY EngineAssumption DEF Slots
<1>2. WeightsNat(e.slots)
  BY BooksNat
<1>3. ReservedIn(e) \in Nat
  BY ONLY <1>1, <1>2, ReservedChanges
<1> QED
  BY <1>3 DEF Books

\* An engine with a sequence to spare has a first vacant slot.
LEMMA FirstIsVacant ==
  ASSUME NEW e, Books(e), e.active_sequences # max_sequences
  PROVE  FirstVacant(e) \in Slots \ LiveSlots(e)
<1> DEFINE B == {s \in Slots : e.slots[s].lifecycle = "released"}
<1>1. B # {} /\ B \in SUBSET Nat
  <2>1. LiveSlots(e) # Slots
    BY SlotsAreSlots DEF Books
  <2> QED
    BY <2>1, SlotsAreSlots DEF LiveSlots
<1>2. \E s \in B : \A t \in B : s <= t
  BY <1>1, LeastNat
<1> QED
  BY <1>2 DEF FirstVacant, LiveSlots

\* What try_admit() answers when it takes slot s.
Admitted(e, a, s, g, k, p, b) ==
  /\ a.handle = Handle(s, g, k)
  /\ a.engine = Taken(e, s, Cell(g, k, "admitted", p, b, 0, 0))
  /\ e.reserved_tokens + (p + b) <= token_capacity

\* try_admit()
LEMMA AdmitTakes ==
  ASSUME NEW e, Books(e), NEW k, NEW p \in Nat, NEW b \in Nat,
         NEW a, a = Admit(e, k, p, b), a.status = "admitted"
  PROVE  /\ p > 0 /\ b > 0 /\ ~Duplicate(e, k)
         /\ \E s \in Slots \ LiveSlots(e) : \E g \in Nat : Admitted(e, a, s, g, k, p, b)
<1>1. AdmissionStatus(e, k, p, b) = "admitted"
  BY DEF Admit
<1>2. /\ p > 0 /\ b > 0 /\ ~Duplicate(e, k) /\ e.active_sequences # max_sequences
      /\ ~(p + b > token_capacity - e.reserved_tokens)
  BY <1>1 DEF AdmissionStatus
<1>3. PICK s \in Slots \ LiveSlots(e) : s = FirstVacant(e)
  BY <1>2, FirstIsVacant
<1>4. PICK g \in Nat : g = NextGeneration(e.slots[s].generation)
  <2>1. e.slots[s].generation \in Nat
    BY BooksNat
  <2>2. NextGeneration(e.slots[s].generation) \in Nat
    BY <2>1, EngineAssumption DEF NextGeneration
  <2> QED
    BY <2>2, Zenon
<1>5. PICK slot : slot = [Vacant(g) EXCEPT !.key = k, !.lifecycle = "admitted",
                            !.prompt_tokens = p, !.output_token_budget = b]
  OBVIOUS
<1>6. slot = Cell(g, k, "admitted", p, b, 0, 0)
  BY <1>5 DEF Vacant, Cell
<1>7. a = [status |-> "admitted", handle |-> Handle(s, g, k),
           engine |-> [slots |-> [e.slots EXCEPT ![s] = slot],
                       reserved_tokens |-> e.reserved_tokens + p + b,
                       active_sequences |-> e.active_sequences + 1]]
  BY <1>1, <1>3, <1>4, <1>5 DEF Admit
<1>8. Reservation(slot) = p + b
  BY <1>6, CellFields DEF Reservation
<1>9. e.reserved_tokens \in Nat
  BY LedgerNat
<1>10. a.engine = Taken(e, s, slot)
  <2>1. e.reserved_tokens + p + b = e.reserved_tokens + Reservation(slot)
    BY <1>8, <1>9
  <2> QED
    BY <1>7, <2>1 DEF Taken, BooksOf
<1>11. a.handle = Handle(s, g, k) /\ e.reserved_tokens + (p + b) <= token_capacity
  BY <1>2, <1>7, <1>9, EngineAssumption
<1>12. Admitted(e, a, s, g, k, p, b)
  BY <1>6, <1>10, <1>11 DEF Admitted
<1> QED
  BY <1>2, <1>12

\* An engine that has opened a sequence in slot s and is about to prefill it.
OpenedAt(e, f, s, cell) ==
  /\ Books(f) /\ LiveSlots(f) = LiveSlots(e) \cup {s} /\ OnlySlot(e, f, s)
  /\ f.slots[s] = cell

LEMMA EngineOpens ==
  ASSUME NEW e, Books(e), NEW k, NEW p \in Nat, NEW b \in Nat,
         NEW a, a = Admit(e, k, p, b), a.status = "admitted",
         NEW started, started = StartPrefill(a.engine, a.handle)
  PROVE  /\ p > 0 /\ b > 0 /\ ~Duplicate(e, k) /\ started.status = "applied"
         /\ \E s \in Slots \ LiveSlots(e), g \in Nat :
              /\ a.handle = Handle(s, g, k)
              /\ OpenedAt(e, started.engine, s, Cell(g, k, "prefill", p, b, 0, 0))
<1>1. p > 0 /\ b > 0 /\ ~Duplicate(e, k)
  BY AdmitTakes
<1>y. \E s \in Slots \ LiveSlots(e) : \E g \in Nat : Admitted(e, a, s, g, k, p, b)
  BY AdmitTakes
<1>z. PICK s \in Slots \ LiveSlots(e), g \in Nat : Admitted(e, a, s, g, k, p, b)
  BY <1>y
<1>2. /\ a.handle = Handle(s, g, k)
      /\ a.engine = Taken(e, s, Cell(g, k, "admitted", p, b, 0, 0))
      /\ e.reserved_tokens + (p + b) <= token_capacity
  BY <1>z DEF Admitted
<1>3. PICK cell : cell = Cell(g, k, "admitted", p, b, 0, 0)
  OBVIOUS
<1>4. /\ SlotType(cell) /\ cell.lifecycle = "admitted" /\ cell.generation = g /\ cell.key = k
      /\ cell.prompt_tokens = p /\ cell.output_token_budget = b
      /\ cell.prompt_tokens_processed = 0 /\ cell.decoded_tokens = 0
      /\ Reservation(cell) = p + b
  BY <1>3, CellFields DEF Reservation
<1>5. PICK f : f = a.engine
  OBVIOUS
<1>6. /\ Books(f) /\ LiveSlots(f) = LiveSlots(e) \cup {s}
      /\ f.slots[s] = cell /\ OnlySlot(e, f, s)
  <2>1. f = Taken(e, s, cell) /\ e.reserved_tokens + Reservation(cell) <= token_capacity
    BY <1>2, <1>3, <1>4, <1>5
  <2>2. cell.lifecycle # "released"
    BY <1>4
  <2> QED
    BY <1>2, <1>4, <2>1, <2>2, BooksAdd
<1>7. PICK h : h = a.handle
  OBVIOUS
<1>8. h = HandleIn(f, s) /\ s \in LiveSlots(f)
  BY <1>2, <1>4, <1>6, <1>7 DEF HandleIn
<1>9. Applied(StartPrefill(f, h), MoveTo(f, s, "prefill", 0, 0))
  BY <1>4, <1>6, <1>8, StartPrefillMoves
<1>10. started.status = "applied" /\ started.engine = MoveTo(f, s, "prefill", 0, 0)
  BY <1>5, <1>7, <1>9 DEF Applied
<1>11. /\ Books(started.engine) /\ LiveSlots(started.engine) = LiveSlots(f)
       /\ OnlySlot(f, started.engine, s)
       /\ started.engine.slots[s] = CellTo(cell, "prefill", 0, 0)
  <2>1. "prefill" # "released"
    OBVIOUS
  <2>2. /\ Books(started.engine) /\ LiveSlots(started.engine) = LiveSlots(f)
        /\ OnlySlot(f, started.engine, s)
        /\ started.engine.slots[s] = CellTo(f.slots[s], "prefill", 0, 0)
    BY <1>6, <1>8, <1>10, <2>1, MovesTo
  <2> QED
    BY <1>6, <2>2
<1>12. CellTo(cell, "prefill", 0, 0) = Cell(g, k, "prefill", p, b, 0, 0)
  BY <1>4 DEF CellTo
<1>13. OpenedAt(e, started.engine, s, Cell(g, k, "prefill", p, b, 0, 0))
  BY <1>6, <1>11, <1>12 DEF OpenedAt, OnlySlot
<1> QED
  BY <1>1, <1>2, <1>10, <1>13, Zenon

\* A handle is its parts.
LEMMA HandleParts ==
  ASSUME NEW s, NEW g, NEW k, NEW h, h = Handle(s, g, k)
  PROVE  h.slot = s /\ h.generation = g /\ h.key = k
BY DEF Handle

\* The restored tokens count as prefilled.
LEMMA EngineRestores ==
  ASSUME NEW e, NEW f, NEW s \in Slots, NEW g \in Nat, NEW k, NEW p \in Nat, NEW b \in Nat,
         OpenedAt(e, f, s, Cell(g, k, "prefill", p, b, 0, 0)),
         NEW h, h = Handle(s, g, k), NEW t \in 1 .. p - 1,
         NEW a, a = AdvancePrefill(f, h, t)
  PROVE  /\ a.status = "applied"
         /\ OpenedAt(e, a.engine, s, Cell(g, k, "prefill", p, b, t, 0))
<1>1. PICK cell : cell = Cell(g, k, "prefill", p, b, 0, 0)
  OBVIOUS
<1>2. /\ cell.lifecycle = "prefill" /\ cell.generation = g /\ cell.key = k
      /\ cell.prompt_tokens = p /\ cell.output_token_budget = b
      /\ cell.prompt_tokens_processed = 0 /\ cell.decoded_tokens = 0
  BY <1>1, CellFields
<1>3. Books(f) /\ LiveSlots(f) = LiveSlots(e) \cup {s} /\ OnlySlot(e, f, s) /\ f.slots[s] = cell
  BY <1>1 DEF OpenedAt
<1>4. h = HandleIn(f, s) /\ s \in LiveSlots(f)
  BY <1>2, <1>3 DEF HandleIn
<1>5. t \in 1 .. p - 0 /\ t # p - 0 /\ 0 + t = t
  OBVIOUS
<1>6. Applied(AdvancePrefill(f, h, t),
              MoveTo(f, s, IF t = p - 0 THEN "decode" ELSE "prefill", 0 + t, 0))
  BY <1>2, <1>3, <1>4, <1>5, AdvancePrefillMoves
<1>7. a.status = "applied" /\ a.engine = MoveTo(f, s, "prefill", t, 0)
  BY <1>5, <1>6 DEF Applied
<1>8. /\ Books(a.engine) /\ LiveSlots(a.engine) = LiveSlots(f) /\ OnlySlot(f, a.engine, s)
      /\ a.engine.slots[s] = CellTo(f.slots[s], "prefill", t, 0)
  <2>1. "prefill" # "released"
    OBVIOUS
  <2> QED
    BY <1>3, <1>4, <1>7, <2>1, MovesTo
<1>9. CellTo(cell, "prefill", t, 0) = Cell(g, k, "prefill", p, b, t, 0)
  BY <1>2 DEF CellTo
<1> QED
  BY <1>3, <1>7, <1>8, <1>9 DEF OpenedAt, OnlySlot

\* A sequence that is cancelled, unless it has ended, and released.
LEMMA EngineReleases ==
  ASSUME NEW e, Books(e), NEW s \in LiveSlots(e), NEW h, h = HandleIn(e, s),
         e.slots[s].lifecycle \in {"prefill", "decode", "terminal"},
         NEW f, f = (IF e.slots[s].lifecycle # "terminal" THEN Cancel(e, h).engine ELSE e),
         NEW released, released = Release(f, h)
  PROVE  /\ released.status = "released" /\ Books(released.engine)
         /\ LiveSlots(released.engine) = LiveSlots(e) \ {s} /\ OnlySlot(e, released.engine, s)
<1>1. PICK slot : slot = e.slots[s]
  OBVIOUS
<1>2. /\ Books(f) /\ LiveSlots(f) = LiveSlots(e) /\ OnlySlot(e, f, s)
      /\ f.slots[s].lifecycle = "terminal" /\ HandleIn(f, s) = h
  <2>1. CASE slot.lifecycle = "terminal"
    BY <1>1, <2>1 DEF OnlySlot
  <2>2. CASE slot.lifecycle # "terminal"
    <3>1. slot.lifecycle \in {"admitted", "prefill", "decode"}
      BY <1>1, <2>2
    <3>2. Applied(Cancel(e, h), MoveTo(e, s, "terminal", slot.prompt_tokens_processed,
                                       slot.decoded_tokens))
      BY <1>1, <3>1, EndsMoves
    <3>3. f = MoveTo(e, s, "terminal", slot.prompt_tokens_processed, slot.decoded_tokens)
      BY <1>1, <2>2, <3>2 DEF Applied
    <3>4. "terminal" # "released"
      OBVIOUS
    <3>5. /\ Books(f) /\ LiveSlots(f) = LiveSlots(e) /\ OnlySlot(e, f, s)
          /\ f.slots[s] = CellTo(slot, "terminal", slot.prompt_tokens_processed,
                                 slot.decoded_tokens)
      BY <1>1, <3>3, <3>4, MovesTo
    <3>6. /\ f.slots[s].lifecycle = "terminal" /\ f.slots[s].generation = slot.generation
          /\ f.slots[s].key = slot.key
      BY <3>5, CellFields DEF CellTo
    <3> QED
      BY <1>1, <3>5, <3>6, Zenon DEF HandleIn
  <2> QED
    BY <2>1, <2>2
<1>3. s \in LiveSlots(f)
  BY <1>2
<1>4. released.status = "released" /\ released.engine = Vacated(f, s)
  BY <1>2, <1>3, ReleaseVacates
<1>5. /\ Books(released.engine) /\ LiveSlots(released.engine) = LiveSlots(f) \ {s}
      /\ OnlySlot(f, released.engine, s)
  BY <1>2, <1>3, <1>4, BooksRemove
<1> QED
  BY <1>2, <1>4, <1>5, Zenon DEF OnlySlot

-----------------------------------------------------------------------------
(***************************************************************************)
(* The snapshot cache.  Most of what it does to its entries is to select   *)
(* some and reorder them.                                                  *)
(***************************************************************************)

\* A part weighs no more than the whole.
LEMMA TotalPart ==
  ASSUME NEW D, IsFiniteSet(D), NEW f, \A x \in D : f[x] \in Nat, NEW E \in SUBSET D
  PROVE  Total(f, E) \in Nat /\ Total(f, E) <= Total(f, D)
<1> DEFINE F == {s \in SUBSET D : \A t \in SUBSET s : Total(f, t) <= Total(f, s)}
<1>0. \A s \in SUBSET D : IsFiniteSet(s) /\ Total(f, s) \in Nat
  <2> TAKE s \in SUBSET D
  <2>1. IsFiniteSet(s) /\ \A x \in s : f[x] \in Nat
    BY FS_Subset
  <2> QED
    BY <2>1, TotalAdd
<1>1. ASSUME NEW s \in SUBSET D, \A x \in s : s \ {x} \in F PROVE s \in F
  <2> SUFFICES ASSUME NEW t \in SUBSET s PROVE Total(f, t) <= Total(f, s)
    OBVIOUS
  <2>1. CASE t = s
    BY <1>0, <2>1
  <2>2. CASE t # s
    <3>1. PICK x \in s : x \notin t
      BY <2>2
    <3>2. Total(f, t) <= Total(f, s \ {x})
      BY <1>1, <3>1
    <3>3. IsFiniteSet(s) /\ \A y \in s : f[y] \in Nat
      BY <1>0
    <3>4. Total(f, s) = f[x] + Total(f, s \ {x})
      BY <3>3, TotalAdd
    <3>5. Total(f, t) \in Nat /\ Total(f, s \ {x}) \in Nat /\ f[x] \in Nat
      BY <1>0, <3>1
    <3> QED
      BY <3>2, <3>4, <3>5
  <2> QED
    BY <2>1, <2>2
<1> HIDE DEF F
<1>2. D \in F
  BY <1>1, SubsetInduction
<1> QED
  BY <1>0, <1>2 DEF F

Sizes(c) == [i \in DOMAIN c |-> Len(c[i].state)]

SizesNat(c) == \A i \in DOMAIN c : Len(c[i].state) \in Nat

\* The bytes a cache uses are a sum over its entries.
LEMMA BytesAreTotal ==
  ASSUME NEW c, IsFiniteSet(DOMAIN c), SizesNat(c)
  PROVE  BytesUsed(c) = Total(Sizes(c), DOMAIN c) /\ BytesUsed(c) \in Nat
<1> DEFINE w == Sizes(c)
           P(h) == h = [s \in SUBSET (DOMAIN c) |->
                          IF s = {} THEN 0
                          ELSE Len(c[CHOOSE x \in s : TRUE].state)
                               + h[s \ {CHOOSE x \in s : TRUE}]]
<1>0. PICK D : D = DOMAIN c
  OBVIOUS
<1>1. BytesUsed(c) = (CHOOSE h : P(h))[DOMAIN c]
  BY DEF BytesUsed, MapThenSumSet, MapThenFoldSet
<1>2. \A x \in D : w[x] = Len(c[x].state) /\ w[x] \in Nat
  BY <1>0 DEF Sizes, SizesNat
<1> HIDE DEF w
<1>3. ASSUME NEW s \in SUBSET D, s # {}
      PROVE  w[CHOOSE x \in s : TRUE] = Len(c[CHOOSE x \in s : TRUE].state)
  <2>1. PICK d \in D : d = (CHOOSE x \in s : TRUE)
    BY <1>3, Chosen
  <2> QED
    BY <1>2, <2>1
<1>4. ASSUME NEW h PROVE P(h) <=> Sums(h, w, D)
  BY <1>0, <1>3 DEF Sums, SumStep
<1>5. IsFiniteSet(D)
  BY <1>0
<1>6. PICK g : NatSums(g, w, D)
  BY <1>2, <1>5, SumsExist
<1>7. P(g)
  <2>1. Sums(g, w, D)
    BY <1>6 DEF NatSums
  <2> HIDE DEF P
  <2> QED
    BY <1>4, <2>1
<1>8. P(CHOOSE h : P(h))
  BY <1>7, Zenon
<1>9. Sums(CHOOSE h : P(h), w, D) /\ Sums(CHOOSE h : Sums(h, w, D), w, D)
  <2>1. Sums(CHOOSE h : Sums(h, w, D), w, D)
    BY <1>6 DEF NatSums
  <2> HIDE DEF P
  <2> QED
    BY <1>4, <1>8, <2>1
<1> HIDE DEF P
<1>10. (CHOOSE h : P(h))[D] = (CHOOSE h : Sums(h, w, D))[D]
  BY <1>5, <1>9, SumsAgree
<1>11. Total(w, D) \in Nat
  BY <1>2, <1>5, TotalAdd
<1> QED
  BY <1>0, <1>1, <1>10, <1>11 DEF Total, w

\* A cache is a sequence of entries.
Sequence(c) == c = [i \in 1 .. Len(c) |-> c[i]] /\ Len(c) \in Nat

Entries(c) == {c[i] : i \in 1 .. Len(c)}

LEMMA CacheParts ==
  ASSUME NEW c, CacheOk(c)
  PROVE  /\ Sequence(c) /\ DOMAIN c = 1 .. Len(c) /\ c \in Seq(Entries(c))
         /\ IsFiniteSet(DOMAIN c) /\ SizesNat(c) /\ Len(c) \in Nat
         /\ \A i \in DOMAIN c : EntryOk(c[i])
<1>1. Sequence(c) /\ Len(c) \in Nat /\ \A i \in DOMAIN c : EntryOk(c[i])
  BY DEF CacheOk, Sequence
<1>2. DOMAIN c = 1 .. Len(c)
  BY <1>1 DEF Sequence
<1>3. [i \in 1 .. Len(c) |-> c[i]] \in Seq(Entries(c))
  BY <1>1, IsASeq DEF Entries
<1>4. IsFiniteSet(DOMAIN c)
  BY <1>1, <1>2, FS_Interval
<1>5. SizesNat(c)
  BY <1>1 DEF SizesNat, EntryOk
<1> QED
  BY <1>1, <1>2, <1>3, <1>4, <1>5 DEF Sequence

\* The limits of the cache are numbers.
Limits == byte_budget \in Nat /\ max_entries \in Nat

\* The entries of d are entries of c, each taken once.
Selection(d, c, to) ==
  /\ \A i \in 1 .. Len(d) : to[i] \in DOMAIN c /\ d[i] = c[to[i]]
  /\ \A i, j \in 1 .. Len(d) : to[i] = to[j] => i = j

LEMMA Selected ==
  ASSUME Limits, NEW c, CacheOk(c), NEW d, Sequence(d), Len(d) <= Len(c),
         NEW to, Selection(d, c, to)
  PROVE  CacheOk(d) /\ BytesUsed(d) <= BytesUsed(c)
<1>1. DOMAIN d = 1 .. Len(d) /\ Len(d) \in Nat
  BY DEF Sequence
<1>2. IsFiniteSet(DOMAIN c) /\ SizesNat(c) /\ Len(c) \in Nat
      /\ \A i \in DOMAIN c : EntryOk(c[i])
  BY CacheParts
<1>3. PICK D : D = 1 .. Len(d) /\ D = DOMAIN d /\ IsFiniteSet(D)
  BY <1>1, FS_Interval
<1>4. \A i \in D : to[i] \in DOMAIN c /\ d[i] = c[to[i]]
  BY <1>3 DEF Selection
<1>5. \A i, j \in D : to[i] = to[j] => i = j
  BY <1>3 DEF Selection
<1>6. SizesNat(d) /\ \A i \in D : EntryOk(d[i])
  BY <1>2, <1>3, <1>4 DEF SizesNat
<1>7. PICK f, g : f = Sizes(d) /\ g = Sizes(c)
  OBVIOUS
<1>8. /\ \A i \in D : f[i] \in Nat /\ g[to[i]] = f[i]
      /\ \A i \in DOMAIN c : g[i] \in Nat
  BY <1>2, <1>3, <1>4, <1>6, <1>7 DEF Sizes, SizesNat
<1>9. PICK E : E = {to[x] : x \in D}
  OBVIOUS
<1>10. E \in SUBSET DOMAIN c
  BY <1>4, <1>9
<1>11. IsFiniteSet(E)
  BY <1>2, <1>10, FS_Subset
<1>12. Total(g, E) = Total(f, D)
  <2>1. IsFiniteSet({to[x] : x \in D})
    BY <1>9, <1>11
  <2>2. (\A x \in D : f[x] \in Nat) /\ (\A x \in D : g[to[x]] = f[x])
    BY <1>8
  <2>3. IsFiniteSet(D)
    BY <1>3
  <2>4. Total(g, {to[x] : x \in D}) = Total(f, D)
    BY ONLY <1>5, <2>1, <2>2, <2>3, TotalMoved
  <2> QED
    BY <1>9, <2>4
<1>13. Total(g, E) <= Total(g, DOMAIN c)
  BY <1>2, <1>8, <1>10, TotalPart
<1>14. /\ BytesUsed(d) = Total(f, D) /\ BytesUsed(d) \in Nat
       /\ BytesUsed(c) = Total(g, DOMAIN c) /\ BytesUsed(c) \in Nat
  BY <1>2, <1>3, <1>6, <1>7, BytesAreTotal
<1>15. BytesUsed(d) <= BytesUsed(c)
  BY <1>12, <1>13, <1>14
<1>16. \A i, j \in DOMAIN d : i # j => Distinct(d[i], d[j])
  <2> SUFFICES ASSUME NEW i \in D, NEW j \in D, i # j PROVE Distinct(d[i], d[j])
    BY <1>3
  <2>1. to[i] # to[j] /\ to[i] \in DOMAIN c /\ to[j] \in DOMAIN c
    BY <1>4, <1>5
  <2>2. Distinct(c[to[i]], c[to[j]])
    BY <2>1 DEF CacheOk
  <2> QED
    BY <1>4, <2>2
<1>17. BytesUsed(c) <= byte_budget /\ Len(c) <= max_entries
  BY DEF CacheOk
<1>18. BytesUsed(d) <= byte_budget /\ Len(d) <= max_entries
  BY <1>1, <1>2, <1>14, <1>15, <1>17 DEF Limits
<1> QED
  BY <1>1, <1>3, <1>6, <1>15, <1>16, <1>18 DEF CacheOk, Sequence

LEMMA IsSequence ==
  ASSUME NEW X, NEW d \in Seq(X)
  PROVE  Sequence(d) /\ DOMAIN d = 1 .. Len(d)
<1>1. Len(d) \in Nat /\ d \in [1 .. Len(d) -> X] /\ DOMAIN d = 1 .. Len(d)
  BY LenProperties
<1> QED
  BY <1>1, Zenon DEF Sequence

\* prune() and the evictions: some of the oldest go.
LEMMA SuffixOk ==
  ASSUME Limits, NEW c, CacheOk(c), NEW n \in 0 .. Len(c),
         NEW d, d = SubSeq(c, n + 1, Len(c))
  PROVE  /\ CacheOk(d) /\ BytesUsed(d) <= BytesUsed(c) /\ Len(d) = Len(c) - n
         /\ \A i \in DOMAIN d : i + n \in DOMAIN c /\ d[i] = c[i + n]
<1>1. c \in Seq(Entries(c)) /\ DOMAIN c = 1 .. Len(c) /\ Len(c) \in Nat
  BY CacheParts
<1>2. d \in Seq(Entries(c)) /\ Len(d) = Len(c) - n /\ \A i \in 1 .. Len(d) : d[i] = c[i + n]
  <2>1. n + 1 \in Int /\ Len(c) \in Int /\ \A i \in n + 1 .. Len(c) : c[i] \in Entries(c)
    BY <1>1 DEF Entries
  <2>2. PICK m : m = n + 1
    OBVIOUS
  <2>3. /\ SubSeq(c, m, Len(c)) \in Seq(Entries(c))
        /\ Len(SubSeq(c, m, Len(c))) = (IF m <= Len(c) THEN Len(c) - m + 1 ELSE 0)
        /\ \A i \in 1 .. Len(c) - m + 1 : SubSeq(c, m, Len(c))[i] = c[m + i - 1]
    BY <2>1, <2>2, SubSeqProperties
  <2>4. PICK L \in Nat : L = Len(c)
    BY <1>1, Zenon
  <2>5. d = SubSeq(c, m, L)
    BY <2>2, <2>4
  <2>6. /\ d \in Seq(Entries(c)) /\ Len(d) = (IF m <= L THEN L - m + 1 ELSE 0)
        /\ \A i \in 1 .. L - m + 1 : d[i] = c[m + i - 1]
    BY ONLY <2>3, <2>4, <2>5
  <2>7. Len(d) = L - n /\ L - m + 1 = L - n
    <3>1. n \in 0 .. L /\ m = n + 1
      BY <2>2, <2>4
    <3> QED
      BY ONLY <2>4, <2>6, <3>1
  <2>8. ASSUME NEW i \in 1 .. L - n PROVE d[i] = c[i + n]
    <3>1. m + i - 1 = i + n /\ d[i] = c[m + i - 1]
      <4>1. n \in 0 .. L /\ m = n + 1
        BY <2>2, <2>4
      <4>2. i \in 1 .. L - m + 1
        BY <2>7
      <4> QED
        BY ONLY <2>4, <2>6, <4>1, <4>2, i \in 1 .. L - n
    <3> QED
      BY ONLY <3>1
  <2> QED
    BY ONLY <2>4, <2>6, <2>7, <2>8
<1>3. Sequence(d) /\ DOMAIN d = 1 .. Len(d)
  BY <1>2, IsSequence
<1>n. n \in 0 .. Len(c)
  OBVIOUS
<1>4. PICK to : to = [i \in 1 .. Len(d) |-> i + n]
  OBVIOUS
<1>5. \A i \in 1 .. Len(d) : to[i] \in DOMAIN c /\ d[i] = c[to[i]] /\ to[i] = i + n
  BY ONLY <1>1, <1>2, <1>4, <1>n
<1>6. Selection(d, c, to)
  BY ONLY <1>1, <1>2, <1>5, <1>n DEF Selection
<1>7. Len(d) <= Len(c)
  BY ONLY <1>1, <1>2, <1>n
<1> QED
  BY <1>2, <1>3, <1>5, <1>6, <1>7, Selected

\* An entry that is used becomes the youngest.
LEMMA TouchOk ==
  ASSUME Limits, NEW c, CacheOk(c), NEW k \in DOMAIN c, NEW d, d = Touch(c, k)
  PROVE  CacheOk(d)
<1>1. c \in Seq(Entries(c)) /\ DOMAIN c = 1 .. Len(c) /\ Len(c) \in Nat
  BY CacheParts
<1> DEFINE a == SubSeq(c, 1, k - 1)
           b == SubSeq(c, k + 1, Len(c))
           X == Entries(c)
<1>2. \A i \in 1 .. Len(c) : c[i] \in X
  BY DEF Entries
<1> HIDE DEF X
<1>3. a \in Seq(X) /\ Len(a) = k - 1 /\ \A i \in 1 .. k - 1 : a[i] = c[i]
  BY <1>1, <1>2, SubSeqProperties
<1>4. b \in Seq(X) /\ Len(b) = Len(c) - k /\ \A i \in 1 .. Len(c) - k : b[i] = c[k + i]
  <2>1. PICK m \in Int : m = k + 1
    BY <1>1
  <2>2. /\ SubSeq(c, m, Len(c)) \in Seq(X)
        /\ Len(SubSeq(c, m, Len(c))) = (IF m <= Len(c) THEN Len(c) - m + 1 ELSE 0)
        /\ \A i \in 1 .. Len(c) - m + 1 : SubSeq(c, m, Len(c))[i] = c[m + i - 1]
    BY <1>1, <1>2, <2>1, SubSeqProperties
  <2> QED
    BY <1>1, <2>1, <2>2
<1>5. d = Append(a \o b, c[k])
  BY DEF Touch, RemoveAt
<1> HIDE DEF a, b
<1>6. /\ a \o b \in Seq(X) /\ Len(a \o b) = Len(c) - 1
      /\ \A i \in 1 .. Len(c) - 1 : (a \o b)[i] = IF i < k THEN c[i] ELSE c[i + 1]
  <2>1. /\ a \o b \in Seq(X) /\ Len(a \o b) = Len(a) + Len(b)
        /\ \A i \in 1 .. Len(a) + Len(b) :
             (a \o b)[i] = IF i <= Len(a) THEN a[i] ELSE b[i - Len(a)]
    BY <1>3, <1>4, ConcatProperties, Zenon
  <2>2. Len(a) + Len(b) = Len(c) - 1
    BY <1>1, <1>3, <1>4
  <2>3. ASSUME NEW i \in 1 .. Len(c) - 1 PROVE (a \o b)[i] = IF i < k THEN c[i] ELSE c[i + 1]
    <3>1. CASE i < k
      BY <1>1, <1>3, <2>1, <2>2, <3>1
    <3>2. CASE ~(i < k)
      <4>1. (a \o b)[i] = b[i - (k - 1)] /\ i - (k - 1) \in 1 .. Len(c) - k
        BY <1>1, <1>3, <2>1, <2>2, <3>2
      <4>2. b[i - (k - 1)] = c[k + (i - (k - 1))] /\ k + (i - (k - 1)) = i + 1
        BY <1>1, <1>4, <4>1
      <4> QED
        BY <3>2, <4>1, <4>2
    <3> QED
      BY <3>1, <3>2
  <2> QED
    BY <2>1, <2>2, <2>3
<1>7. PICK ab : ab = a \o b
  OBVIOUS
<1>8. /\ d \in Seq(X) /\ Len(d) = Len(c) /\ d[Len(c)] = c[k]
      /\ \A i \in 1 .. Len(c) - 1 : d[i] = IF i < k THEN c[i] ELSE c[i + 1]
  <2>1. ab \in Seq(X) /\ Len(ab) = Len(c) - 1 /\ c[k] \in X /\ d = Append(ab, c[k])
    BY <1>1, <1>2, <1>5, <1>6, <1>7, Zenon
  <2>2. /\ Append(ab, c[k]) \in Seq(X) /\ Len(Append(ab, c[k])) = Len(ab) + 1
        /\ \A i \in 1 .. Len(ab) : Append(ab, c[k])[i] = ab[i]
        /\ Append(ab, c[k])[Len(ab) + 1] = c[k]
    BY <2>1, AppendProperties
  <2> QED
    BY <1>1, <1>6, <1>7, <2>1, <2>2
<1>9. Sequence(d)
  BY <1>8, IsSequence
<1>10. PICK to : to = [i \in 1 .. Len(d) |-> IF i = Len(c) THEN k ELSE IF i < k THEN i ELSE i + 1]
  OBVIOUS
<1>y. PICK L \in Nat : L = Len(c) /\ L = Len(d) /\ k \in 1 .. L
  BY <1>1, <1>8, Zenon
<1>11. ASSUME NEW i \in 1 .. L PROVE to[i] \in DOMAIN c /\ d[i] = c[to[i]]
  <2>1. CASE i = L
    BY ONLY <1>1, <1>8, <1>10, <1>y, <2>1, i \in 1 .. L, Zenon
  <2>2. CASE i # L
    <3>1. i \in 1 .. Len(c) - 1 /\ i \in 1 .. Len(d) /\ i # Len(c)
      BY ONLY <1>1, <1>y, <2>2, i \in 1 .. L
    <3>2. d[i] = (IF i < k THEN c[i] ELSE c[i + 1]) /\ to[i] = (IF i < k THEN i ELSE i + 1)
      BY ONLY <1>8, <1>10, <3>1
    <3>3. i \in DOMAIN c /\ i + 1 \in DOMAIN c
      <4>1. i \in 1 .. L /\ i + 1 \in 1 .. L
        BY ONLY L \in Nat, i \in 1 .. L, <1>y, <2>2
      <4> QED
        BY <1>1, <1>y, <4>1
    <3> QED
      BY ONLY <3>2, <3>3
  <2> QED
    BY <2>1, <2>2
<1>12. \A i, j \in 1 .. L : to[i] = to[j] => i = j
  BY ONLY <1>1, <1>10, <1>y
<1>13. Selection(d, c, to) /\ Len(d) <= Len(c)
  BY <1>1, <1>8, <1>11, <1>12, <1>y DEF Selection
<1> QED
  BY <1>9, <1>13, Selected

LEMMA DistinctBoth == ASSUME NEW a, NEW b, Distinct(a, b) PROVE Distinct(b, a)
BY DEF Distinct

\* A new entry is added, its bytes are counted.
LEMMA AppendOk ==
  ASSUME Limits, NEW c, CacheOk(c), NEW entry, EntryOk(entry),
         \A i \in DOMAIN c : Distinct(c[i], entry),
         Fits(c, Len(entry.state)), NEW d, d = Append(c, entry)
  PROVE  CacheOk(d)
<1>1. /\ c \in Seq(Entries(c)) /\ DOMAIN c = 1 .. Len(c) /\ Len(c) \in Nat
      /\ IsFiniteSet(DOMAIN c) /\ SizesNat(c) /\ \A i \in DOMAIN c : EntryOk(c[i])
  BY CacheParts
<1>2. PICK X : X = Entries(c) \cup {entry}
  OBVIOUS
<1>3. c \in Seq(X)
  BY <1>1, <1>2, SeqMonotonic
<1>4. /\ d \in Seq(X) /\ Len(d) = Len(c) + 1 /\ d[Len(c) + 1] = entry
      /\ \A i \in 1 .. Len(c) : d[i] = c[i]
  <2>1. entry \in X
    BY <1>2
  <2> QED
    BY <1>3, <2>1, AppendProperties
<1>5. Sequence(d) /\ DOMAIN d = 1 .. Len(d)
  BY <1>4, IsSequence
<1>6. PICK D : D = 1 .. Len(d) /\ D = DOMAIN d /\ IsFiniteSet(D)
  BY <1>1, <1>4, <1>5, FS_Interval
<1>7. \A i \in D : EntryOk(d[i])
  BY <1>1, <1>4, <1>6
<1>8. SizesNat(d) /\ Len(entry.state) \in Nat
  BY <1>6, <1>7 DEF SizesNat, EntryOk
<1>9. PICK f, g : f = Sizes(d) /\ g = Sizes(c)
  OBVIOUS
<1>10. \A i \in D : f[i] \in Nat
  BY <1>6, <1>8, <1>9 DEF Sizes, SizesNat
<1>11. PICK n : n = Len(c) + 1
  OBVIOUS
<1>12. n \in D /\ D \ {n} = 1 .. Len(c) /\ f[n] = Len(entry.state)
  BY <1>1, <1>4, <1>6, <1>9, <1>11 DEF Sizes
<1>13. Total(f, D) = f[n] + Total(f, D \ {n})
  BY <1>6, <1>10, <1>12, TotalAdd, SMTT(30)
<1>14. PICK C : C = 1 .. Len(c) /\ IsFiniteSet(C) /\ C = DOMAIN c
  BY <1>1
<1>15. Total(f, C) = Total(g, C)
  <2>1. \A i \in C : g[i] \in Nat /\ f[i] = g[i]
    BY <1>1, <1>4, <1>5, <1>9, <1>14 DEF Sizes, SizesNat
  <2> QED
    BY <1>14, <2>1, TotalSame
<1>16. /\ BytesUsed(d) = Total(f, D) /\ BytesUsed(d) \in Nat
       /\ BytesUsed(c) = Total(g, C) /\ BytesUsed(c) \in Nat
  BY <1>1, <1>6, <1>8, <1>9, <1>14, BytesAreTotal
<1>17. BytesUsed(d) = Len(entry.state) + BytesUsed(c)
  BY <1>12, <1>13, <1>14, <1>15, <1>16
<1>18. BytesUsed(d) <= byte_budget /\ Len(d) <= max_entries
  BY <1>1, <1>4, <1>8, <1>16, <1>17 DEF Fits, Limits
<1>19. \A i, j \in DOMAIN d : i # j => Distinct(d[i], d[j])
  <2> SUFFICES ASSUME NEW i \in D, NEW j \in D, i # j PROVE Distinct(d[i], d[j])
    BY <1>6
  <2>1. \A k \in D : (k = n /\ d[k] = entry) \/ (k \in DOMAIN c /\ d[k] = c[k])
    BY <1>4, <1>11, <1>12, <1>14
  <2>2. CASE i = n
    BY <1>14, <2>1, <2>2, <1>12, DistinctBoth
  <2>3. CASE j = n
    BY <1>14, <2>1, <2>3, <1>12
  <2>4. CASE i # n /\ j # n
    BY <2>1, <2>4 DEF CacheOk
  <2> QED
    BY <2>2, <2>3, <2>4
<1> QED
  BY <1>5, <1>6, <1>7, <1>18, <1>19 DEF CacheOk, Sequence

-----------------------------------------------------------------------------
\* Least and greatest elements.
LEMMA MinIn ==
  ASSUME NEW S, S # {}, S \in SUBSET Nat
  PROVE  Min(S) \in S /\ \A x \in S : Min(S) <= x
<1>1. \E x \in S : \A y \in S : x <= y
  BY LeastNat
<1> QED
  BY <1>1, Zenon DEF Min

LEMMA MaxIn ==
  ASSUME NEW S, S # {}, S \in SUBSET Nat, NEW b \in Nat, \A x \in S : x <= b
  PROVE  Max(S) \in S /\ \A x \in S : x <= Max(S)
<1> DEFINE B == {b - x : x \in S}
<1>1. B # {} /\ B \in SUBSET Nat
  <2>1. \A x \in S : x \in Nat /\ b - x \in Nat
    OBVIOUS
  <2> QED
    BY <2>1
<1>2. PICK m \in B : \A n \in B : m <= n
  BY <1>1, LeastNat
<1>3. PICK x \in S : m = b - x
  BY <1>2
<1>4. ASSUME NEW y \in S PROVE x >= y /\ y <= x
  <2>1. b - y \in B /\ y \in Nat /\ x \in Nat
    OBVIOUS
  <2>2. b - x <= b - y
    BY <1>2, <1>3, <2>1
  <2> QED
    BY ONLY <2>1, <2>2, b \in Nat
<1>5. \E z \in S : \A y \in S : z >= y
  BY <1>4
<1>6. Max(S) \in S /\ \A y \in S : Max(S) >= y
  BY <1>5 DEF Max
<1> QED
  BY <1>6

\* A number for each element of a finite set has a bound.
LEMMA Bounded ==
  ASSUME NEW D, IsFiniteSet(D), NEW f, \A x \in D : f[x] \in Nat
  PROVE  \E b \in Nat : \A x \in D : f[x] <= b
<1> DEFINE F == {s \in SUBSET D : \E b \in Nat : \A x \in s : f[x] <= b}
<1>1. ASSUME NEW s \in SUBSET D, \A x \in s : s \ {x} \in F PROVE s \in F
  <2>1. CASE s = {}
    BY <2>1
  <2>2. CASE s # {}
    <3>1. PICK x \in s : TRUE
      BY <2>2
    <3>2. PICK b \in Nat : \A y \in s \ {x} : f[y] <= b
      BY <1>1, <3>1
    <3>3. f[x] \in Nat
      BY <3>1
    <3>4. PICK m \in Nat : m = b + f[x]
      BY <3>3
    <3>5. \A y \in s : f[y] <= m
      <4> TAKE y \in s
      <4>1. f[y] \in Nat
        OBVIOUS
      <4>2. CASE y = x
        BY <3>3, <3>4, <4>2
      <4>3. CASE y # x
        BY <3>2, <3>3, <3>4, <4>1, <4>3
      <4> QED
        BY <4>2, <4>3
    <3> QED
      BY <3>5
  <2> QED
    BY <2>1, <2>2
<1> HIDE DEF F
<1>2. D \in F
  BY <1>1, SubsetInduction
<1> QED
  BY <1>2 DEF F

-----------------------------------------------------------------------------
\* What restore() and restore_session() may answer.
Answers(c, i, prompt) ==
  \/ i = Miss
  \/ /\ i \in DOMAIN c /\ IsPrefix(c[i].tokens, prompt)
     /\ Len(c[i].tokens) \in 1 .. Len(prompt) - 1

LEMMA BestPrefixAnswers ==
  ASSUME NEW c, CacheOk(c), NEW identity, NEW prompt, prompt \in Seq(Tokens),
         NEW i, i = BestPrefix(c, identity, prompt)
  PROVE  Answers(c, i, prompt)
<1> DEFINE found == PrefixMatches(c, identity, prompt)
<1>0. /\ DOMAIN c = 1 .. Len(c) /\ Len(c) \in Nat /\ \A k \in DOMAIN c : EntryOk(c[k])
      /\ Len(prompt) \in Nat
  BY CacheParts
<1>1. \A k \in found : /\ k \in DOMAIN c /\ IsPrefix(c[k].tokens, prompt)
                       /\ Len(c[k].tokens) \in 1 .. Len(prompt) - 1
  <2> SUFFICES ASSUME NEW k \in found
               PROVE  /\ k \in DOMAIN c /\ IsPrefix(c[k].tokens, prompt)
                      /\ Len(c[k].tokens) \in 1 .. Len(prompt) - 1
    OBVIOUS
  <2>1. /\ k \in DOMAIN c /\ IsPrefix(c[k].tokens, prompt)
        /\ Len(c[k].tokens) <= Len(prompt) - 1
    BY DEF PrefixMatches
  <2>2. Len(c[k].tokens) \in Nat \ {0}
    BY <1>0, <2>1, EmptySeq DEF EntryOk
  <2> QED
    BY <1>0, <2>1, <2>2
<1>2. CASE Len(prompt) <= 1 \/ found = {}
  BY <1>2 DEF BestPrefix, Answers
<1>3. CASE ~(Len(prompt) <= 1 \/ found = {})
  <2>1. i = CHOOSE k \in found : \A j \in found :
                \/ Len(c[j].tokens) < Len(c[k].tokens)
                \/ Len(c[j].tokens) = Len(c[k].tokens) /\ j <= k
    BY <1>3 DEF BestPrefix
  <2> HIDE DEF found
  <2>2. PICK L \in Nat : L = Len(prompt)
    BY <1>0
  <2> DEFINE G == {k \in found : \A j \in found : Len(c[j].tokens) <= Len(c[k].tokens)}
             A == {Len(c[k].tokens) : k \in found}
  <2>3. A # {} /\ A \in SUBSET Nat /\ \A x \in A : x <= L
    <3>1. \A k \in found : Len(c[k].tokens) \in Nat /\ Len(c[k].tokens) <= L
      BY <1>1, <2>2
    <3>2. found # {}
      BY <1>3
    <3> QED
      BY <3>1, <3>2
  <2>4. Max(A) \in A /\ \A x \in A : x <= Max(A)
    <3> HIDE DEF A
    <3> QED
      BY <2>3, MaxIn
  <2>5. PICK g \in found : Len(c[g].tokens) = Max(A)
    BY <2>4
  <2>6. g \in G
    BY <2>4, <2>5
  <2>7. G # {} /\ G \in SUBSET Nat /\ \A x \in G : x <= Len(c)
    <3>1. \A k \in found : k \in Nat /\ k <= Len(c)
      BY <1>0, <1>1
    <3> QED
      BY <2>6, <3>1
  <2>8. Max(G) \in G /\ \A x \in G : x <= Max(G)
    <3> HIDE DEF G
    <3> QED
      BY <1>0, <2>7, MaxIn
  <2>9. PICK k \in found : k = Max(G)
    BY <2>8
  <2>10. \A j \in found : \/ Len(c[j].tokens) < Len(c[k].tokens)
                          \/ Len(c[j].tokens) = Len(c[k].tokens) /\ j <= k
    <3> SUFFICES ASSUME NEW j \in found, ~(Len(c[j].tokens) < Len(c[k].tokens))
                 PROVE  Len(c[j].tokens) = Len(c[k].tokens) /\ j <= k
      OBVIOUS
    <3>1. Len(c[j].tokens) <= Len(c[k].tokens) /\ Len(c[j].tokens) \in Nat /\ Len(c[k].tokens) \in Nat
      BY <1>1, <2>8, <2>9
    <3>2. Len(c[j].tokens) = Len(c[k].tokens)
      BY <3>1
    <3>3. j \in G
      BY <2>8, <2>9, <3>2
    <3> QED
      BY <2>8, <2>9, <3>2, <3>3
  <2>11. i \in found
    BY <2>1, <2>10
  <2> QED
    BY <1>1, <2>11 DEF Answers
<1> QED
  BY <1>2, <1>3

LEMMA SessionEntryAnswers ==
  ASSUME NEW c, CacheOk(c), NEW identity, NEW session, NEW generation,
         NEW prompt, prompt \in Seq(Tokens),
         NEW i, i = SessionEntry(c, identity, session, generation, prompt)
  PROVE  Answers(c, i, prompt)
<1> DEFINE found == {k \in DOMAIN c :
            /\ c[k].kind = "session" /\ c[k].identity = identity
            /\ c[k].session = session /\ c[k].generation = generation}
<1>0. /\ DOMAIN c = 1 .. Len(c) /\ Len(c) \in Nat /\ \A k \in DOMAIN c : EntryOk(c[k])
      /\ Len(prompt) \in Nat
  BY CacheParts
<1>1. i = IF \/ Len(prompt) <= 1 \/ found = {}
             \/ Len(c[Min(found)].tokens) > Len(prompt) - 1
             \/ ~IsPrefix(c[Min(found)].tokens, prompt)
          THEN Miss ELSE Min(found)
  BY DEF SessionEntry
<1>2. found \in SUBSET DOMAIN c
  OBVIOUS
<1> HIDE DEF found
<1>3. CASE i = Miss
  BY <1>3 DEF Answers
<1>4. CASE i # Miss
  <2>1. /\ found # {} /\ i = Min(found) /\ ~(Len(c[i].tokens) > Len(prompt) - 1)
        /\ IsPrefix(c[i].tokens, prompt)
    BY <1>1, <1>4
  <2>2. i \in DOMAIN c
    <3>1. found \in SUBSET Nat
      BY <1>0, <1>2
    <3> QED
      BY <1>2, <2>1, <3>1, MinIn
  <2>3. Len(c[i].tokens) \in Nat \ {0}
    BY <1>0, <2>2, EmptySeq DEF EntryOk
  <2> QED
    BY <1>0, <2>1, <2>2, <2>3 DEF Answers
<1> QED
  BY <1>3, <1>4

-----------------------------------------------------------------------------
\* The evictions before a snapshot is copied: some of the oldest go, and then
\* it fits if it ever can.
LEMMA EvictedOk ==
  ASSUME Limits, NEW c, CacheOk(c), NEW size \in Nat, NEW d, d = Evicted(c, size)
  PROVE  /\ CacheOk(d) /\ \A i \in DOMAIN d : \E k \in DOMAIN c : d[i] = c[k]
         /\ size <= byte_budget /\ max_entries # 0 => Fits(d, size)
<1> DEFINE enough == {k \in 0 .. Len(c) : k = Len(c) \/ Fits(SubSeq(c, k + 1, Len(c)), size)}
<1>0. Len(c) \in Nat
  BY CacheParts
<1>1. Len(c) \in enough /\ enough \in SUBSET Nat
  BY <1>0
<1>2. PICK n : n = Min(enough)
  OBVIOUS
<1>3. n \in enough /\ d = SubSeq(c, n + 1, Len(c))
  <2>1. d = SubSeq(c, Min(enough) + 1, Len(c))
    BY DEF Evicted
  <2> HIDE DEF enough
  <2>2. Min(enough) \in enough
    BY <1>1, MinIn
  <2> QED
    BY <1>2, <2>1, <2>2
<1>4. n \in 0 .. Len(c) /\ (n = Len(c) \/ Fits(d, size))
  BY <1>3
<1> HIDE DEF enough
<1>5. /\ CacheOk(d) /\ Len(d) = Len(c) - n
      /\ \A i \in DOMAIN d : i + n \in DOMAIN c /\ d[i] = c[i + n]
  BY <1>3, <1>4, SuffixOk, Zenon
<1>6. CASE n = Len(c)
  <2>1. Len(d) = 0
    BY <1>0, <1>5, <1>6
  <2>2. /\ DOMAIN d = 1 .. Len(d) /\ IsFiniteSet(DOMAIN d) /\ SizesNat(d)
    BY <1>5, CacheParts
  <2>3. DOMAIN d = {}
    BY <2>1, <2>2
  <2>4. BytesUsed(d) = Total(Sizes(d), DOMAIN d)
    BY <2>2, BytesAreTotal
  <2>5. BytesUsed(d) = 0
    BY <2>3, <2>4, TotalNone
  <2>6. size <= byte_budget /\ max_entries # 0 => Fits(d, size)
    BY <2>1, <2>5 DEF Fits, Limits
  <2> QED
    BY <1>5, <2>6
<1>7. CASE Fits(d, size)
  BY <1>5, <1>7
<1> QED
  BY <1>4, <1>6, <1>7, Zenon

\* capture()
LEMMA CaptureOk ==
  ASSUME Limits, NEW c, CacheOk(c), NEW entry, EntryOk(entry),
         \A i \in DOMAIN c : Distinct(c[i], entry), NEW copied, NEW r, r = Capture(c, entry, copied)
  PROVE  CacheOk(r.cache)
<1>1. PICK size \in Nat : size = Len(entry.state)
  BY DEF EntryOk
<1>2. PICK room : room = Evicted(c, size)
  OBVIOUS
<1>3. r = IF size = 0 \/ size > byte_budget THEN [ok |-> FALSE, cache |-> c]
          ELSE IF max_entries = 0 \/ ~copied THEN [ok |-> FALSE, cache |-> room]
          ELSE [ok |-> TRUE, cache |-> Append(room, entry)]
  BY <1>1, <1>2 DEF Capture
<1>4. /\ CacheOk(room) /\ \A i \in DOMAIN room : \E k \in DOMAIN c : room[i] = c[k]
      /\ size <= byte_budget /\ max_entries # 0 => Fits(room, size)
  BY <1>2, EvictedOk
<1>5. CASE size = 0 \/ size > byte_budget \/ max_entries = 0 \/ ~copied
  <2>1. r.cache = c \/ r.cache = room
    BY <1>3, <1>5
  <2> QED
    BY <1>4, <2>1
<1>6. CASE ~(size = 0 \/ size > byte_budget \/ max_entries = 0 \/ ~copied)
  <2>1. r.cache = Append(room, entry)
    BY <1>3, <1>6
  <2>2. Fits(room, Len(entry.state))
    BY <1>1, <1>4, <1>6 DEF Limits
  <2>3. \A i \in DOMAIN room : Distinct(room[i], entry)
    BY <1>4
  <2> QED
    BY <1>4, <2>1, <2>2, <2>3, AppendOk
<1> QED
  BY <1>5, <1>6

LEMMA EntryFields ==
  ASSUME NEW kind, NEW identity, NEW session, NEW generation, NEW parent, NEW key, NEW tokens,
         NEW state, NEW entry,
         entry = Entry(kind, identity, session, generation, parent, key, tokens, state)
  PROVE  /\ entry.kind = kind /\ entry.identity = identity /\ entry.session = session
         /\ entry.generation = generation /\ entry.commit_key = key
         /\ entry.tokens = tokens /\ entry.state = state
BY DEF Entry

\* store()
LEMMA StoreOk ==
  ASSUME Limits, NEW c, CacheOk(c), NEW identity, NEW tokens \in Seq(Tokens), tokens # <<>>,
         NEW copied, NEW d, d = Store(c, identity, tokens, tokens, copied)
  PROVE  CacheOk(d)
<1> DEFINE same == {i \in DOMAIN c :
            /\ c[i].kind = "prefix" /\ c[i].identity = identity /\ c[i].tokens = tokens}
<1>0. DOMAIN c = 1 .. Len(c) /\ Len(c) \in Nat
  BY CacheParts
<1>1. PICK entry : entry = Entry("prefix", identity, "none", NoGeneration, NoGeneration, "none",
                                 tokens, tokens)
  OBVIOUS
<1>2. d = IF same # {} THEN Touch(c, Min(same)) ELSE Capture(c, entry, copied).cache
  BY <1>1 DEF Store
<1>3. CASE same # {}
  <2>1. same \in SUBSET Nat /\ same \in SUBSET DOMAIN c
    BY <1>0
  <2>2. d = Touch(c, Min(same))
    BY <1>2, <1>3
  <2> HIDE DEF same
  <2>3. Min(same) \in DOMAIN c
    BY <1>3, <2>1, MinIn
  <2> QED
    BY <2>2, <2>3, TouchOk
<1>4. CASE same = {}
  <2>1. /\ entry.kind = "prefix" /\ entry.identity = identity
        /\ entry.tokens = tokens /\ entry.state = tokens
    BY <1>1, EntryFields
  <2>2. EntryOk(entry)
    BY <2>1 DEF EntryOk
  <2>3. \A i \in DOMAIN c : Distinct(c[i], entry)
    BY <1>4, <2>1 DEF Distinct
  <2>4. PICK r : r = Capture(c, entry, copied)
    OBVIOUS
  <2>5. d = r.cache
    BY <1>2, <1>4, <2>4
  <2> QED
    BY <2>2, <2>3, <2>4, <2>5, CaptureOk
<1> QED
  BY <1>3, <1>4

\* store_session()
LEMMA StoreSessionOk ==
  ASSUME Limits, NEW c, CacheOk(c), NEW identity, NEW session, NEW parent, NEW key,
         NEW tokens \in Seq(Tokens), tokens # <<>>, NEW copied,
         NEW r, r = StoreSession(c, identity, session, parent, key, tokens, tokens, copied)
  PROVE  CacheOk(r.cache) /\ r.generation \in Nat
<1> DEFINE own == SessionEntries(c, identity, session)
           same == {i \in own : c[i].commit_key = key}
           after == {1} \cup {c[i].generation + 1 : i \in own}
<1>0. /\ DOMAIN c = 1 .. Len(c) /\ Len(c) \in Nat /\ IsFiniteSet(DOMAIN c)
      /\ \A i \in DOMAIN c : EntryOk(c[i])
  BY CacheParts
<1>1. \A i \in own : /\ i \in DOMAIN c /\ c[i].generation \in Nat
                     /\ c[i].kind = "session" /\ c[i].identity = identity /\ c[i].session = session
  BY <1>0 DEF SessionEntries, EntryOk
<1>2. \A i \in DOMAIN c : i \in own \/ c[i].kind # "session" \/ c[i].identity # identity
                                    \/ c[i].session # session
  BY DEF SessionEntries
<1>3. PICK next : next = Max(after)
  OBVIOUS
<1>4. PICK entry : entry = Entry("session", identity, session, next, parent, key, tokens, tokens)
  OBVIOUS
<1>5. PICK captured : captured = Capture(c, entry, copied)
  OBVIOUS
<1>6. r = IF same # {}
          THEN IF c[Min(same)].parent # parent \/ c[Min(same)].tokens # tokens
               THEN [generation |-> NoGeneration, cache |-> c]
               ELSE [generation |-> c[Min(same)].generation, cache |-> Touch(c, Min(same))]
          ELSE IF own # {} /\ parent = NoGeneration
               THEN [generation |-> NoGeneration, cache |-> c]
          ELSE [generation |-> IF captured.ok THEN next ELSE NoGeneration,
                cache |-> captured.cache]
  BY <1>3, <1>4, <1>5 DEF StoreSession
<1>7. same \in SUBSET own
  OBVIOUS
<1>8. next \in Nat \ {0} /\ \A i \in own : c[i].generation < next
  <2>1. PICK g : g = [i \in own |-> c[i].generation + 1]
    OBVIOUS
  <2>2. \A i \in own : g[i] \in Nat /\ g[i] = c[i].generation + 1
    BY <1>1, <2>1
  <2>3. IsFiniteSet(own)
    <3>1. own \in SUBSET DOMAIN c
      BY <1>1
    <3> HIDE DEF own
    <3> QED
      BY <1>0, <3>1, FS_Subset
  <2> HIDE DEF own
  <2>4. PICK b \in Nat : \A i \in own : g[i] <= b
    BY <2>2, <2>3, Bounded
  <2>5. after # {} /\ after \in SUBSET Nat /\ b + 1 \in Nat /\ \A x \in after : x <= b + 1
    BY <1>1, <2>2, <2>4
  <2>6. 1 \in after /\ \A i \in own : c[i].generation + 1 \in after
    OBVIOUS
  <2> HIDE DEF after
  <2>7. next \in after /\ \A x \in after : x <= next
    BY <1>3, <2>5, MaxIn
  <2>8. next \in Nat /\ 1 <= next /\ \A i \in own : c[i].generation + 1 <= next
    BY <2>5, <2>6, <2>7
  <2> QED
    BY <1>1, <2>8
<1> HIDE DEF own, after
<1>9. CASE same # {}
  <2>1. Min(same) \in same
    <3>1. same \in SUBSET Nat
      BY <1>0, <1>1, <1>7
    <3> HIDE DEF same
    <3> QED
      BY <1>9, <3>1, MinIn
  <2>2. PICK i \in DOMAIN c : i = Min(same) /\ c[i].generation \in Nat
    BY <1>1, <1>7, <2>1
  <2>3. CacheOk(Touch(c, i))
    BY TouchOk
  <2>4. \/ r = [generation |-> NoGeneration, cache |-> c]
        \/ r = [generation |-> c[i].generation, cache |-> Touch(c, i)]
    BY <1>6, <1>9, <2>2
  <2>5. NoGeneration \in Nat
    BY DEF NoGeneration
  <2> QED
    BY <2>2, <2>3, <2>4, <2>5
<1>10. CASE same = {}
  <2>1. /\ entry.kind = "session" /\ entry.identity = identity /\ entry.session = session
        /\ entry.generation = next /\ entry.commit_key = key
        /\ entry.tokens = tokens /\ entry.state = tokens
    BY <1>4, EntryFields
  <2>2. EntryOk(entry)
    BY <1>8, <2>1 DEF EntryOk
  <2>3. ASSUME NEW i \in DOMAIN c PROVE Distinct(c[i], entry)
    <3>1. CASE i \in own
      <4>1. c[i].commit_key # key /\ c[i].generation # next
        BY <1>1, <1>8, <1>10, <3>1
      <4> QED
        BY <1>1, <2>1, <3>1, <4>1 DEF Distinct
    <3>2. CASE i \notin own
      BY <1>2, <2>1, <3>2 DEF Distinct
    <3> QED
      BY <3>1, <3>2
  <2>4. CacheOk(captured.cache)
    BY <1>5, <2>2, <2>3, CaptureOk
  <2>5. NoGeneration \in Nat
    BY DEF NoGeneration
  <2>6. \/ r = [generation |-> NoGeneration, cache |-> c]
        \/ r = [generation |-> IF captured.ok THEN next ELSE NoGeneration,
                cache |-> captured.cache]
    BY <1>6, <1>10
  <2> QED
    BY <1>8, <2>4, <2>5, <2>6
<1> QED
  BY <1>9, <1>10

\* An empty cache.
LEMMA ClearedOk == ASSUME Limits PROVE CacheOk(<<>>)
<1>1. PICK d : d = <<>>
  OBVIOUS
<1>2. d \in Seq({}) /\ Len(d) = 0
  BY <1>1, EmptySeq
<1>3. Sequence(d) /\ DOMAIN d = 1 .. Len(d)
  BY <1>2, IsSequence
<1>4. DOMAIN d = {}
  BY <1>2, <1>3
<1>5. IsFiniteSet(DOMAIN d) /\ SizesNat(d)
  BY <1>4, FS_EmptySet DEF SizesNat
<1>6. BytesUsed(d) = 0
  BY <1>4, <1>5, BytesAreTotal, TotalNone
<1>7. CacheOk(d)
  BY <1>2, <1>3, <1>4, <1>6 DEF CacheOk, Sequence, Limits
<1> QED
  BY <1>1, <1>7

-----------------------------------------------------------------------------
(***************************************************************************)
(* Tokens: what is fed is a prefix of what a sequence has.                 *)
(***************************************************************************)

\* The first n of t.
LEMMA FrontIs ==
  ASSUME NEW S, NEW t \in Seq(S), NEW n \in 0 .. Len(t)
  PROVE  /\ SubSeq(t, 1, n) \in Seq(S) /\ Len(SubSeq(t, 1, n)) = n
         /\ \A i \in 1 .. n : SubSeq(t, 1, n)[i] = t[i]
<1>1. \A i \in 1 .. n : t[i] \in S
  BY LenProperties
<1>2. n \in Nat
  BY LenProperties
<1> QED
  BY <1>1, <1>2, SubSeqProperties

LEMMA FrontOfConcat ==
  ASSUME NEW S, NEW t \in Seq(S), NEW u \in Seq(S), NEW n \in 0 .. Len(t)
  PROVE  SubSeq(t \o u, 1, n) = SubSeq(t, 1, n)
<1>1. Len(t) \in Nat /\ Len(u) \in Nat
  BY LenProperties
<1>2. PICK w : w = t \o u
  OBVIOUS
<1>3. /\ w \in Seq(S) /\ Len(w) = Len(t) + Len(u)
      /\ \A i \in 1 .. Len(t) + Len(u) : w[i] = IF i <= Len(t) THEN t[i] ELSE u[i - Len(t)]
  BY <1>2, ConcatProperties
<1>4. n \in 0 .. Len(w)
  BY <1>1, <1>3
<1>5. PICK a, b : a = SubSeq(w, 1, n) /\ b = SubSeq(t, 1, n)
  OBVIOUS
<1>6. a \in Seq(S) /\ Len(a) = n /\ \A i \in 1 .. n : a[i] = w[i]
  BY <1>3, <1>4, <1>5, FrontIs
<1>7. b \in Seq(S) /\ Len(b) = n /\ \A i \in 1 .. n : b[i] = t[i]
  BY <1>5, FrontIs
<1>8. \A i \in 1 .. n : w[i] = t[i]
  BY <1>1, <1>3
<1>9. a = b
  BY <1>6, <1>7, <1>8, SeqEqual
<1> QED
  BY <1>2, <1>5, <1>9

LEMMA FrontAppend ==
  ASSUME NEW S, NEW t \in Seq(S), NEW n \in 0 .. Len(t) - 1
  PROVE  Append(SubSeq(t, 1, n), t[n + 1]) = SubSeq(t, 1, n + 1)
<1>1. Len(t) \in Nat /\ \A i \in 1 .. Len(t) : t[i] \in S
  BY LenProperties
<1>2. n \in 0 .. Len(t) /\ n + 1 \in 0 .. Len(t) /\ n + 1 \in 1 .. Len(t) /\ n \in Nat
  BY <1>1
<1>3. PICK a, b, m : a = SubSeq(t, 1, n) /\ b = SubSeq(t, 1, m) /\ m = n + 1
  OBVIOUS
<1>4. a \in Seq(S) /\ Len(a) = n /\ \A i \in 1 .. n : a[i] = t[i]
  BY <1>2, <1>3, FrontIs
<1>5. b \in Seq(S) /\ Len(b) = m /\ \A i \in 1 .. m : b[i] = t[i]
  BY <1>2, <1>3, FrontIs
<1>6. PICK c : c = Append(a, t[m])
  OBVIOUS
<1>7. c \in Seq(S) /\ Len(c) = m /\ (\A i \in 1 .. n : c[i] = a[i]) /\ c[m] = t[m]
  <2>1. t[m] \in S
    BY <1>1, <1>2, <1>3
  <2> QED
    BY <1>3, <1>4, <1>6, <2>1, AppendProperties
<1>8. \A i \in 1 .. m : c[i] = b[i]
  BY <1>2, <1>3, <1>4, <1>5, <1>7
<1>9. c = b
  BY <1>5, <1>7, <1>8, SeqEqual
<1> QED
  BY <1>3, <1>6, <1>9

LEMMA FrontMore ==
  ASSUME NEW S, NEW t \in Seq(S), NEW n \in 0 .. Len(t), NEW m \in n .. Len(t)
  PROVE  SubSeq(t, 1, n) \o SubSeq(t, n + 1, m) = SubSeq(t, 1, m)
<1>1. Len(t) \in Nat
  BY LenProperties
<1>2. 1 \in 1 .. Len(t) + 1 /\ n \in 1 - 1 .. Len(t) /\ m \in n .. Len(t)
  BY <1>1
<1> QED
  BY <1>2, ConcatAdjacentSubSeq

\* One more token.
LEMMA OneMore ==
  ASSUME NEW S, NEW t \in Seq(S), NEW u \in Seq(S), NEW x \in S
  PROVE  /\ t \o u \in Seq(S) /\ Len(t \o u) = Len(t) + Len(u)
         /\ Append(u, x) \in Seq(S) /\ Len(Append(u, x)) = Len(u) + 1
         /\ t \o Append(u, x) \in Seq(S) /\ Len(t \o Append(u, x)) = Len(t) + Len(u) + 1
         /\ Last(t \o Append(u, x)) = x
         /\ t \o Append(u, x) = Append(t \o u, x)
         /\ \A n \in 0 .. Len(t \o u) : SubSeq(t \o Append(u, x), 1, n) = SubSeq(t \o u, 1, n)
         /\ Len(t) \in Nat /\ Len(u) \in Nat
<1>1. /\ t \o u \in Seq(S) /\ Len(t \o u) = Len(t) + Len(u)
      /\ Append(u, x) \in Seq(S) /\ Len(Append(u, x)) = Len(u) + 1
      /\ Len(t) \in Nat /\ Len(u) \in Nat
  BY ConcatProperties, AppendProperties, LenProperties
<1>2. <<x>> \in Seq(S)
  OBVIOUS
<1>3. Append(u, x) = u \o <<x>>
  BY AppendIsConcat
<1>4. t \o (u \o <<x>>) = (t \o u) \o <<x>>
  BY <1>2, ConcatAssociative
<1>5. Append(t \o u, x) = (t \o u) \o <<x>>
  BY <1>1, AppendIsConcat
<1>6. PICK w : w = t \o u
  OBVIOUS
<1>7. t \o Append(u, x) = Append(w, x) /\ Append(w, x) = w \o <<x>>
  BY <1>3, <1>4, <1>5, <1>6
<1>8. Append(w, x) \in Seq(S) /\ Len(Append(w, x)) = Len(w) + 1 /\ Append(w, x)[Len(w) + 1] = x
  BY <1>1, <1>6, AppendProperties
<1>9. Last(Append(w, x)) = x
  BY <1>8 DEF Last
<1>10. \A n \in 0 .. Len(w) : SubSeq(w \o <<x>>, 1, n) = SubSeq(w, 1, n)
  BY <1>1, <1>2, <1>6, FrontOfConcat
<1> QED
  BY <1>1, <1>6, <1>7, <1>8, <1>9, <1>10

-----------------------------------------------------------------------------
(***************************************************************************)
(* A sampled token: what the phase controller, the accumulator and the     *)
(* state of the sequence make of it.                                       *)
(***************************************************************************)

Ctl(p, s, r, f, t) == [phase |-> p, sampled |-> s, reasoning |-> r, final |-> f, tail |-> t]

LEMMA CtlParts ==
  ASSUME NEW p, NEW s, NEW r, NEW f, NEW t, NEW c, c = Ctl(p, s, r, f, t)
  PROVE  /\ c.phase = p /\ c.sampled = s /\ c.reasoning = r /\ c.final = f /\ c.tail = t
         /\ ControllerShape(c)
BY Zenon DEF Ctl, ControllerShape

LEMMA Enters ==
  ASSUME NEW p, NEW s, NEW r, NEW f, NEW t, NEW c, c = Ctl(p, s, r, f, t), NEW q, NEW action
  PROVE  /\ Enter(c, q, action).controller = Ctl(q, s, r, f, t)
         /\ Enter(c, q, action).action = action
BY DEF Ctl, Enter

SpeakingPhases == {"expect_reasoning_start", "reasoning", "final"}

\* A controller that has not ended and does not refuse a token counts it.
LEMMA Consumed ==
  ASSUME NEW c, ControllerShape(c), c.reasoning \in Nat, c.final \in Nat,
         c.phase \in SpeakingPhases, NEW x, NEW proven,
         NEW step, step = Consume(c, x, proven), step.action # "failed",
         NEW d, d = step.controller
  PROVE  /\ ControllerShape(d) /\ d.reasoning \in Nat /\ d.final \in Nat
         /\ \/ /\ step.action = "completed" /\ d.phase = "done" /\ c.phase = "final" /\ x = EOG
               /\ d.reasoning + d.final = c.reasoning + c.final
            \/ /\ step.action # "completed" /\ d.phase \in SpeakingPhases /\ x # EOG
               /\ d.reasoning + d.final = c.reasoning + c.final + 1
<1>1. PICK p, s, r, f, t : /\ p = c.phase /\ s = c.sampled /\ r = c.reasoning
                           /\ f = c.final /\ t = c.tail
  OBVIOUS
<1>2. c = Ctl(p, s, r, f, t) /\ r \in Nat /\ f \in Nat /\ p \in SpeakingPhases
  BY <1>1 DEF ControllerShape, Ctl
<1>3. PICK r1, f1, s1 : /\ r1 = (IF p # "final" THEN r + 1 ELSE r)
                        /\ f1 = (IF p = "final" /\ x # EOG THEN f + 1 ELSE f)
                        /\ s1 = s + 1
  OBVIOUS
<1>4. PICK counted : counted = Counted(c, x = EOG)
  OBVIOUS
<1>5. counted = Ctl(p, s1, r1, f1, t)
  <2>1. counted = [c EXCEPT !.sampled = s1, !.reasoning = r1, !.final = f1]
    BY <1>1, <1>3, <1>4 DEF Counted
  <2> QED
    BY <1>2, <2>1 DEF Ctl
<1>6. PICK after : after = Remember(t, x)
  OBVIOUS
<1>7. PICK remembered : remembered = [counted EXCEPT !.tail = Remember(@, x)]
  OBVIOUS
<1>8. remembered = Ctl(p, s1, r1, f1, after)
  <2>1. counted.tail = t
    BY <1>5, CtlParts
  <2>2. remembered = [counted EXCEPT !.tail = after]
    BY <1>6, <1>7, <2>1
  <2> QED
    BY <1>5, <2>2 DEF Ctl
<1>9. remembered.phase = p
  BY <1>8, CtlParts
<1>10. step = IF c.phase \in {"done", "error"} THEN Failed(c, "token received after terminal state")
              ELSE IF Overrun(counted, x = EOG) # "none"
                   THEN Failed(counted, Overrun(counted, x = EOG))
              ELSE IF x = EOG THEN AtEog(remembered, proven)
              ELSE AtMarker(remembered)
  BY <1>4, <1>7 DEF Consume
<1>11. \A e, reason : Failed(e, reason).action = "failed"
  BY DEF Failed
<1>12. step = IF x = EOG THEN AtEog(remembered, proven) ELSE AtMarker(remembered)
  <2>1. c.phase \notin {"done", "error"}
    BY DEF SpeakingPhases
  <2>2. CASE Overrun(counted, x = EOG) # "none"
    <3>1. step = Failed(counted, Overrun(counted, x = EOG))
      BY <1>10, <2>1, <2>2
    <3> QED
      BY <1>11, <3>1
  <2>3. CASE Overrun(counted, x = EOG) = "none"
    BY <1>10, <2>1, <2>3
  <2> QED
    BY <2>2, <2>3
<1>13. CASE x = EOG
  <2>1. step = AtEog(remembered, proven)
    BY <1>12, <1>13
  <2>2. p = "final" /\ step = Enter(remembered, "done", "completed")
    BY <1>9, <1>11, <2>1 DEF AtEog
  <2>3. d = Ctl("done", s1, r1, f1, after) /\ step.action = "completed"
    BY <1>8, <2>2, Enters
  <2>4. r1 = r /\ f1 = f
    BY <1>3, <1>13, <2>2
  <2>5. ControllerShape(d) /\ d.reasoning = r /\ d.final = f /\ d.phase = "done"
    BY <2>3, <2>4, CtlParts
  <2> QED
    BY <1>1, <1>2, <1>13, <2>2, <2>3, <2>5
<1>14. CASE x # EOG
  <2> DEFINE start == IsSuffix(StartMarker, remembered.tail)
             end == IsSuffix(EndMarker, remembered.tail)
  <2>1. step = AtMarker(remembered)
    BY <1>12, <1>14
  <2>2. PICK q, does : /\ q \in SpeakingPhases /\ does # "completed"
                      /\ step = Enter(remembered, q, does)
    <3> HIDE DEF start, end
    <3>1. AtMarker(remembered) =
            CASE p = "expect_reasoning_start" /\ end ->
                Failed(remembered, "reasoning_end_before_start")
            [] p = "expect_reasoning_start" /\ ~end /\ start ->
                Enter(remembered, "reasoning", "reasoning_started")
            [] p = "reasoning" /\ start -> Failed(remembered, "duplicate_reasoning_start")
            [] p = "reasoning" /\ ~start /\ end ->
                Enter(remembered, "final", "activate_final_grammar")
            [] p = "final" /\ (start \/ end) ->
                Failed(remembered, "reasoning_marker_after_final")
            [] OTHER -> Enter(remembered, p, "none")
      BY <1>9 DEF AtMarker, start, end
    <3>2. CASE p = "expect_reasoning_start"
      <4>1. CASE end
        <5>1. step = Failed(remembered, "reasoning_end_before_start")
          BY <2>1, <3>1, <3>2, <4>1
        <5> QED
          BY <1>11, <5>1
      <4>2. CASE ~end /\ start
        <5>1. step = Enter(remembered, "reasoning", "reasoning_started")
          BY <2>1, <3>1, <3>2, <4>2
        <5> QED
          BY <5>1 DEF SpeakingPhases
      <4>3. CASE ~end /\ ~start
        <5>1. step = Enter(remembered, p, "none")
          BY <2>1, <3>1, <3>2, <4>3
        <5> QED
          BY <1>2, <5>1
      <4> QED
        BY <4>1, <4>2, <4>3
    <3>3. CASE p = "reasoning"
      <4>1. CASE start
        <5>1. step = Failed(remembered, "duplicate_reasoning_start")
          BY <2>1, <3>1, <3>3, <4>1
        <5> QED
          BY <1>11, <5>1
      <4>2. CASE ~start /\ end
        <5>1. step = Enter(remembered, "final", "activate_final_grammar")
          BY <2>1, <3>1, <3>3, <4>2
        <5> QED
          BY <5>1 DEF SpeakingPhases
      <4>3. CASE ~end /\ ~start
        <5>1. step = Enter(remembered, p, "none")
          BY <2>1, <3>1, <3>3, <4>3
        <5> QED
          BY <1>2, <5>1
      <4> QED
        BY <4>1, <4>2, <4>3
    <3>4. CASE p = "final"
      <4>1. CASE start \/ end
        <5>1. step = Failed(remembered, "reasoning_marker_after_final")
          BY <2>1, <3>1, <3>4, <4>1
        <5> QED
          BY <1>11, <5>1
      <4>2. CASE ~end /\ ~start
        <5>1. step = Enter(remembered, p, "none")
          BY <2>1, <3>1, <3>4, <4>2
        <5> QED
          BY <1>2, <5>1
      <4> QED
        BY <4>1, <4>2
    <3> QED
      BY <1>2, <3>2, <3>3, <3>4 DEF SpeakingPhases
  <2>3. d = Ctl(q, s1, r1, f1, after) /\ step.action # "completed"
    BY <1>8, <2>2, Enters
  <2>4. ControllerShape(d) /\ d.reasoning = r1 /\ d.final = f1 /\ d.phase = q
    BY <2>3, CtlParts
  <2>5. r1 \in Nat /\ f1 \in Nat /\ r1 + f1 = r + f + 1
    BY <1>2, <1>3, <1>14
  <2> QED
    BY <1>1, <1>14, <2>2, <2>3, <2>4, <2>5
<1> QED
  BY <1>13, <1>14

LEMMA AccumulatorParts ==
  ASSUME NEW v, NEW p, NEW u, u = [valid |-> v, pending |-> p], NEW q, NEW w
  PROVE  /\ u.valid = v /\ u.pending = p
         /\ [u EXCEPT !.pending = q] = [valid |-> v, pending |-> q]
         /\ [u EXCEPT !.valid = w].valid = w
OBVIOUS

Keeping(u, p) == [u EXCEPT !.pending = p]

Spoiled(u) == [u EXCEPT !.valid = FALSE]

LEMMA AccumulatorKeeps ==
  ASSUME NEW p, NEW u, u = Accumulator(p)
  PROVE  \A q : Keeping(u, q) = Accumulator(q)
<1>1. PICK v : v = TRUE
  BY Zenon
<1>2. u = [valid |-> v, pending |-> p] /\ \A q : Accumulator(q) = [valid |-> v, pending |-> q]
  BY <1>1, Zenon DEF Accumulator
<1>3. \A q : [u EXCEPT !.pending = q] = [valid |-> v, pending |-> q]
  BY ONLY <1>2, AccumulatorParts
<1> QED
  BY <1>1, <1>2, <1>3, Zenon DEF Keeping

LEMMA AccumulatorChanges ==
  ASSUME NEW p, NEW u, u = Accumulator(p)
  PROVE  u.pending = p /\ u.valid = TRUE /\ Spoiled(u).valid = FALSE
<1>1. PICK v, w : v = TRUE /\ w = FALSE
  BY Zenon
<1>2. u = [valid |-> v, pending |-> p]
  BY <1>1, Zenon DEF Accumulator
<1>3. u.valid = v /\ u.pending = p
  BY ONLY <1>2, AccumulatorParts
<1>4. [u EXCEPT !.valid = w].valid = w
  BY ONLY <1>2, AccumulatorParts
<1> QED
  BY <1>1, <1>2, <1>3, <1>4, Zenon DEF Spoiled

\* The accumulator gives a character away when it is complete.
LEMMA Appended ==
  ASSUME NEW p \in Seq(Tokens), NEW x \in Tokens, NEW u, u = Accumulator(p),
         NEW a, a = Utf8Append(u, x), a.utf8.valid
  PROVE  \E q \in Seq(Tokens) : /\ a.utf8 = Accumulator(q) /\ a.completed \in Seq(Tokens)
                                /\ a.completed \o q = Append(p, x)
<1>1. PICK b, kind : b = Append(p, x) /\ kind = TokenBytes[x]
  OBVIOUS
<1>2. b \in Seq(Tokens) /\ b \o <<>> = b /\ <<>> \o b = b /\ <<>> \in Seq(Tokens)
  BY <1>1, AppendProperties, ConcatEmptySeq, EmptySeq
<1>3. u.valid = TRUE /\ u.pending = p
  BY AccumulatorChanges
<1> DEFINE bad == kind = "bad" \/ (kind = "whole" /\ p # <<>>)
           half == kind = "half" /\ p = <<>>
<1>4. a = CASE bad -> [utf8 |-> Spoiled(u), completed |-> <<>>]
            [] half -> [utf8 |-> Keeping(u, b), completed |-> <<>>]
            [] OTHER -> [utf8 |-> Keeping(u, <<>>), completed |-> b]
  BY <1>1, <1>3 DEF Utf8Append, Spoiled, Keeping
<1>5. ~(bad /\ half)
  OBVIOUS
<1> HIDE DEF bad, half
<1>6. /\ Keeping(u, b) = Accumulator(b) /\ Keeping(u, <<>>) = Accumulator(<<>>)
  BY AccumulatorKeeps
<1>6a. ~Spoiled(u).valid
  BY AccumulatorChanges
<1>7. CASE bad
  <2>1. a.utf8 = Spoiled(u)
    BY <1>4, <1>5, <1>7
  <2> QED
    BY <1>6a, <2>1
<1>8. CASE ~bad /\ half
  <2>1. a.utf8 = Keeping(u, b) /\ a.completed = <<>>
    BY <1>4, <1>8
  <2> QED
    BY <1>1, <1>2, <1>6, <2>1
<1>9. CASE ~bad /\ ~half
  <2>1. a.utf8 = Keeping(u, <<>>) /\ a.completed = b
    BY <1>4, <1>9
  <2> QED
    BY <1>1, <1>2, <1>6, <2>1
<1> QED
  BY <1>7, <1>8, <1>9

-----------------------------------------------------------------------------
\* The parts of the state of a sequence.
State(i, r, pa, lo, ph, n, ca, pe, co, fp, cm, u, fb, sa, te, fa) ==
  [internal |-> i, request |-> r, parent |-> pa, logical |-> lo, physical |-> ph, n_past |-> n,
   cached |-> ca, pending |-> pe, phase |-> co, final_phase |-> fp, committed |-> cm, utf8 |-> u,
   final_bytes |-> fb, sampled |-> sa, terminal |-> te, failed |-> fa]

LEMMA StateParts ==
  ASSUME NEW i, NEW r, NEW pa, NEW lo, NEW ph, NEW n, NEW ca, NEW pe, NEW co, NEW fp, NEW cm,
         NEW u, NEW fb, NEW sa, NEW te, NEW fa, NEW st,
         st = State(i, r, pa, lo, ph, n, ca, pe, co, fp, cm, u, fb, sa, te, fa)
  PROVE  /\ st.internal = i /\ st.request = r /\ st.parent = pa /\ st.logical = lo
         /\ st.physical = ph /\ st.n_past = n /\ st.cached = ca /\ st.pending = pe
         /\ st.phase = co /\ st.final_phase = fp /\ st.committed = cm /\ st.utf8 = u
         /\ st.final_bytes = fb /\ st.sampled = sa /\ st.terminal = te /\ st.failed = fa
         /\ StateShape(st)
BY Zenon DEF State, StateShape

LEMMA StateIs ==
  ASSUME NEW st, StateShape(st)
  PROVE  st = State(st.internal, st.request, st.parent, st.logical, st.physical, st.n_past,
                    st.cached, st.pending, st.phase, st.final_phase, st.committed, st.utf8,
                    st.final_bytes, st.sampled, st.terminal, st.failed)
BY DEF State, StateShape

\* The state a sequence is in after a token, with what the token made of it.
Speaks(st, n, sa, co, u, fb, fp, fa, te, pe) ==
  [st EXCEPT !.n_past = n, !.sampled = sa, !.phase = co, !.utf8 = u, !.final_bytes = fb,
             !.final_phase = fp, !.failed = fa, !.terminal = te, !.pending = pe]

LEMMA SpeaksMakes ==
  ASSUME NEW st, StateShape(st), NEW n, NEW sa, NEW co, NEW u, NEW fb, NEW fp, NEW fa, NEW te,
         NEW pe, NEW to, to = Speaks(st, n, sa, co, u, fb, fp, fa, te, pe)
  PROVE  to = State(st.internal, st.request, st.parent, st.logical, st.physical, n,
                    st.cached, pe, co, fp, st.committed, u, fb, sa, te, fa)
<1>1. PICK i, r, pa, lo, ph, n0, ca, pe0, co0, fp0, cm, u0, fb0, sa0, te0, fa0 :
        st = State(i, r, pa, lo, ph, n0, ca, pe0, co0, fp0, cm, u0, fb0, sa0, te0, fa0)
  BY StateIs
<1>2. to = State(i, r, pa, lo, ph, n, ca, pe, co, fp, cm, u, fb, sa, te, fa)
  BY ONLY to = Speaks(st, n, sa, co, u, fb, fp, fa, te, pe), <1>1, Zenon DEF Speaks, State
<1>3. /\ st.internal = i /\ st.request = r /\ st.parent = pa /\ st.logical = lo
      /\ st.physical = ph /\ st.cached = ca /\ st.committed = cm
  BY ONLY <1>1, StateParts
<1> QED
  BY <1>2, <1>3, Zenon

-----------------------------------------------------------------------------
\* What a token is to a sequence.
IntoFinal(st, x) == st.phase.phase = "final" /\ x # EOG

TokenResult(st, x) == Consume(st.phase, x, GrammarAcceptanceProven(x = EOG, st.final_phase))

TokenPiece(st, x) ==
  IF IntoFinal(st, x) THEN Utf8Append(st.utf8, x) ELSE [utf8 |-> st.utf8, completed |-> <<>>]

TokenCompletes(st, x) == TokenResult(st, x).action = "completed"

TokenFails(st, x, d) ==
  \/ ~TokenPiece(st, x).utf8.valid
  \/ TokenResult(st, x).action = "failed"
  \/ ~TokenCompletes(st, x) /\ d = total_budget
  \/ TokenCompletes(st, x) /\ ~Utf8Finish(TokenPiece(st, x).utf8)

TokenEnds(st, x, d) == TokenFails(st, x, d) \/ TokenCompletes(st, x)

TokenFinal(st, x) == st.final_phase \/ TokenResult(st, x).action = "activate_final_grammar"

TokenBytesOf(st, x) == IF IntoFinal(st, x) THEN Append(st.final_bytes, x) ELSE st.final_bytes

LEMMA SampledIs ==
  ASSUME NEW st, NEW x, NEW d
  PROVE  Sampled(st, x, d) =
           [state |-> Speaks(st, st.n_past + 1, Append(st.sampled, x), TokenResult(st, x).controller,
                             TokenPiece(st, x).utf8, TokenBytesOf(st, x), TokenFinal(st, x),
                             TokenFails(st, x, d), TokenEnds(st, x, d),
                             IF TokenEnds(st, x, d) THEN st.pending ELSE x),
            text |-> TokenPiece(st, x).completed]
BY DEF Sampled, Speaks, IntoFinal, TokenResult, TokenPiece, TokenCompletes, TokenFails, TokenEnds,
       TokenFinal, TokenBytesOf

-----------------------------------------------------------------------------
\* What the accumulator gives away is tokens, whole or not.
LEMMA PieceText ==
  ASSUME NEW p \in Seq(Tokens), NEW u, u = Accumulator(p), NEW x \in Tokens
  PROVE  Utf8Append(u, x).completed \in Seq(Tokens)
<1>1. u.pending = p
  BY AccumulatorChanges
<1>2. Append(p, x) \in Seq(Tokens) /\ <<>> \in Seq(Tokens)
  BY AppendProperties, EmptySeq
<1>3. Utf8Append(u, x).completed \in {<<>>, Append(p, x)}
  BY <1>1 DEF Utf8Append
<1> QED
  BY <1>2, <1>3, Zenon

\* A sequence that goes on to sample a token.
Sampling(st, x) ==
  /\ StateShape(st) /\ Progress(st) /\ Spoken(st) /\ ~st.terminal
  /\ st.logical = Len(Prompt(st)) /\ Prompt(st) \in Seq(Tokens) /\ x \in Tokens

\* The token is counted, and the text, the pending bytes and the final bytes agree.
SampledOk(st, n, text, x) ==
  /\ n.internal = st.internal /\ n.request = st.request /\ n.logical = st.logical
  /\ n.physical = st.physical /\ n.cached = st.cached /\ n.committed = st.committed
  /\ n.sampled = Append(st.sampled, x) /\ n.n_past = st.n_past + 1
  /\ StateShape(n) /\ Progress(n) /\ Spoken(n) /\ text \in Seq(Tokens)

Continues(st, n, text) ==
  ~n.failed => \A a \in Seq(Tokens) : a \o st.utf8.pending = st.final_bytes
                                        => (a \o text) \o n.utf8.pending = n.final_bytes

LEMMA SamplingParts ==
  ASSUME NEW st, NEW x, Sampling(st, x)
  PROVE  /\ ~st.failed /\ st.utf8 = Accumulator(st.utf8.pending)
         /\ st.utf8.pending \in Seq(Tokens) /\ st.final_bytes \in Seq(Tokens)
         /\ ControllerShape(st.phase) /\ st.phase.reasoning \in Nat /\ st.phase.final \in Nat
         /\ st.phase.phase \in SpeakingPhases
         /\ st.phase.reasoning + st.phase.final = Len(st.sampled)
         /\ Len(st.sampled) < total_budget
         /\ st.sampled \in Seq(Tokens) /\ Len(st.sampled) \in Nat
BY LenProperties DEF Sampling, Spoken, Progress, SpeakingPhases

PieceOk(st, x, piece) ==
  /\ piece.completed \in Seq(Tokens)
  /\ piece.utf8.valid =>
       \E q \in Seq(Tokens) :
          /\ piece.utf8 = Accumulator(q)
          /\ piece.completed \o q = (IF IntoFinal(st, x) THEN Append(st.utf8.pending, x)
                                     ELSE st.utf8.pending)

\* The bytes of a token that is not refused are given away or kept.
LEMMA PieceParts ==
  ASSUME NEW st, NEW x, Sampling(st, x), NEW piece, piece = TokenPiece(st, x)
  PROVE  PieceOk(st, x, piece)
<1>1. PICK u, p : u = st.utf8 /\ p = st.utf8.pending /\ p \in Seq(Tokens) /\ u = Accumulator(p)
  BY SamplingParts
<1>2. x \in Tokens
  BY DEF Sampling
<1>3. CASE IntoFinal(st, x)
  <2>1. piece = Utf8Append(u, x)
    BY <1>1, <1>3 DEF TokenPiece
  <2>2. piece.completed \in Seq(Tokens)
    BY <1>1, <1>2, <2>1, PieceText
  <2>3. ASSUME piece.utf8.valid
        PROVE  \E q \in Seq(Tokens) : /\ piece.utf8 = Accumulator(q)
                                      /\ piece.completed \o q = Append(p, x)
    <3>1. PICK a : a = piece
      OBVIOUS
    <3>2. a = Utf8Append(u, x) /\ a.utf8.valid /\ p \in Seq(Tokens) /\ u = Accumulator(p)
      BY <1>1, <2>1, <2>3, <3>1, Zenon
    <3>3. \E q \in Seq(Tokens) : /\ a.utf8 = Accumulator(q) /\ a.completed \in Seq(Tokens)
                                 /\ a.completed \o q = Append(p, x)
      BY ONLY <1>2, <3>2, Appended
    <3> QED
      BY <3>1, <3>3
  <2> QED
    BY <1>1, <1>3, <2>2, <2>3, Zenon DEF PieceOk
<1>4. CASE ~IntoFinal(st, x)
  <2>1. piece = [utf8 |-> st.utf8, completed |-> <<>>]
    BY <1>4 DEF TokenPiece
  <2>2. piece.utf8 = u /\ piece.completed = <<>>
    BY <1>1, <2>1
  <2>3. <<>> \in Seq(Tokens) /\ <<>> \o p = p
    BY <1>1, EmptySeq, ConcatEmptySeq
  <2> QED
    BY <1>1, <1>4, <2>2, <2>3 DEF PieceOk
<1> QED
  BY <1>3, <1>4

\* What is told of a token that does not fail the sequence.
LEMMA TokenCounts ==
  ASSUME total_budget \in Nat, NEW st, NEW x, Sampling(st, x),
         NEW d, d = Len(st.sampled) + 1, ~TokenFails(st, x, d),
         NEW co, co = TokenResult(st, x).controller, NEW u, u = TokenPiece(st, x).utf8
  PROVE  /\ ControllerShape(co) /\ co.reasoning \in Nat /\ co.final \in Nat
         /\ TokenCompletes(st, x) =>
              /\ co.phase = "done" /\ u.pending = <<>> /\ x = EOG
              /\ co.reasoning + co.final = Len(st.sampled) /\ d <= total_budget
         /\ ~TokenCompletes(st, x) =>
              /\ co.phase \in SpeakingPhases /\ x # EOG
              /\ co.reasoning + co.final = d /\ d < total_budget
<1>1. PICK c, step, proven : /\ c = st.phase /\ step = TokenResult(st, x)
                             /\ proven = GrammarAcceptanceProven(x = EOG, st.final_phase)
  OBVIOUS
<1>2. step = Consume(c, x, proven) /\ step.action # "failed"
  BY <1>1 DEF TokenResult, TokenFails
<1>3. /\ ControllerShape(c) /\ c.reasoning \in Nat /\ c.final \in Nat /\ c.phase \in SpeakingPhases
      /\ c.reasoning + c.final = Len(st.sampled) /\ Len(st.sampled) < total_budget
      /\ Len(st.sampled) \in Nat
  BY <1>1, SamplingParts
<1>4. /\ ControllerShape(co) /\ co.reasoning \in Nat /\ co.final \in Nat
      /\ \/ /\ step.action = "completed" /\ co.phase = "done" /\ c.phase = "final" /\ x = EOG
            /\ co.reasoning + co.final = c.reasoning + c.final
         \/ /\ step.action # "completed" /\ co.phase \in SpeakingPhases /\ x # EOG
            /\ co.reasoning + co.final = c.reasoning + c.final + 1
  <2>1. co = step.controller
    BY <1>1
  <2> HIDE DEF SpeakingPhases
  <2> QED
    BY ONLY <1>2, <1>3, <2>1, Consumed
<1>5. TokenCompletes(st, x) <=> step.action = "completed"
  BY <1>1 DEF TokenCompletes
<1>6. TokenCompletes(st, x) => u.pending = <<>>
  BY DEF TokenFails, Utf8Finish
<1>7. ~TokenCompletes(st, x) => d # total_budget
  BY DEF TokenFails
<1> QED
  BY <1>3, <1>4, <1>5, <1>6, <1>7

-----------------------------------------------------------------------------
\* The parts of the state after a token.
LEMMA SampledParts ==
  ASSUME NEW st, NEW x, Sampling(st, x), NEW d, NEW next, next = Sampled(st, x, d), NEW n, n = next.state
  PROVE  /\ n.internal = st.internal /\ n.request = st.request /\ n.logical = st.logical
         /\ n.physical = st.physical /\ n.cached = st.cached /\ n.committed = st.committed
         /\ n.sampled = Append(st.sampled, x) /\ n.n_past = st.n_past + 1 /\ StateShape(n)
         /\ n.phase = TokenResult(st, x).controller /\ n.utf8 = TokenPiece(st, x).utf8
         /\ n.final_bytes = TokenBytesOf(st, x)
         /\ n.failed = TokenFails(st, x, d) /\ n.terminal = TokenEnds(st, x, d)
         /\ n.pending = (IF TokenEnds(st, x, d) THEN st.pending ELSE x)
         /\ next.text = TokenPiece(st, x).completed
<1>1. PICK np, sa, co, u, fb, fp, fa, te, pe, te0 :
        /\ np = st.n_past + 1 /\ sa = Append(st.sampled, x) /\ co = TokenResult(st, x).controller
        /\ u = TokenPiece(st, x).utf8 /\ fb = TokenBytesOf(st, x) /\ fp = TokenFinal(st, x)
        /\ fa = TokenFails(st, x, d) /\ te = TokenEnds(st, x, d)
        /\ pe = (IF TokenEnds(st, x, d) THEN st.pending ELSE x)
        /\ te0 = TokenPiece(st, x).completed
  BY Zenon
<1>2. next = [state |-> Speaks(st, np, sa, co, u, fb, fp, fa, te, pe), text |-> te0]
  BY <1>1, SampledIs, Zenon
<1>3. n = Speaks(st, np, sa, co, u, fb, fp, fa, te, pe) /\ next.text = te0
  BY ONLY <1>2, n = next.state
<1>4. n = State(st.internal, st.request, st.parent, st.logical, st.physical, np,
                st.cached, pe, co, fp, st.committed, u, fb, sa, te, fa)
  <2>1. StateShape(st)
    BY DEF Sampling
  <2> QED
    BY ONLY <1>3, <2>1, SpeaksMakes
<1>5. PICK i, r, pa, lo, ph, ca, cm :
        /\ i = st.internal /\ r = st.request /\ pa = st.parent /\ lo = st.logical
        /\ ph = st.physical /\ ca = st.cached /\ cm = st.committed
  OBVIOUS
<1>6. n = State(i, r, pa, lo, ph, np, ca, pe, co, fp, cm, u, fb, sa, te, fa)
  BY <1>4, <1>5, Zenon
<1>7. /\ n.internal = i /\ n.request = r /\ n.logical = lo
      /\ n.physical = ph /\ n.cached = ca /\ n.committed = cm
      /\ n.sampled = sa /\ n.n_past = np /\ StateShape(n)
      /\ n.phase = co /\ n.utf8 = u /\ n.final_bytes = fb
      /\ n.failed = fa /\ n.terminal = te /\ n.pending = pe
  BY ONLY <1>6, StateParts
<1> QED
  BY <1>1, <1>3, <1>5, <1>7, Zenon

LEMMA SampledState ==
  ASSUME total_budget \in Nat, NEW st, NEW x, Sampling(st, x),
         NEW d, d = Len(st.sampled) + 1, NEW next, next = Sampled(st, x, d), NEW n, n = next.state,
         NEW text, text = next.text
  PROVE  SampledOk(st, n, text, x) /\ Continues(st, n, text)
<1>1. /\ n.internal = st.internal /\ n.request = st.request /\ n.logical = st.logical
      /\ n.physical = st.physical /\ n.cached = st.cached /\ n.committed = st.committed
      /\ n.sampled = Append(st.sampled, x) /\ n.n_past = st.n_past + 1 /\ StateShape(n)
      /\ n.phase = TokenResult(st, x).controller /\ n.utf8 = TokenPiece(st, x).utf8
      /\ n.final_bytes = TokenBytesOf(st, x)
      /\ n.failed = TokenFails(st, x, d) /\ n.terminal = TokenEnds(st, x, d)
      /\ n.pending = (IF TokenEnds(st, x, d) THEN st.pending ELSE x)
      /\ text = TokenPiece(st, x).completed
  BY ONLY Sampling(st, x), next = Sampled(st, x, d), n = next.state, text = next.text, SampledParts
<1>2. /\ ~st.failed /\ st.utf8 = Accumulator(st.utf8.pending)
      /\ st.utf8.pending \in Seq(Tokens) /\ st.final_bytes \in Seq(Tokens)
      /\ ControllerShape(st.phase) /\ st.phase.reasoning \in Nat /\ st.phase.final \in Nat
      /\ st.phase.phase \in SpeakingPhases
      /\ st.phase.reasoning + st.phase.final = Len(st.sampled)
      /\ Len(st.sampled) < total_budget
      /\ st.sampled \in Seq(Tokens) /\ Len(st.sampled) \in Nat
  BY SamplingParts
<1>3. x \in Tokens /\ Prompt(st) \in Seq(Tokens) /\ st.logical = Len(Prompt(st)) /\ Progress(st)
      /\ ~st.terminal
  BY DEF Sampling
<1>4. Prompt(n) = Prompt(st) /\ TokensOf(n) = Prompt(st) \o Append(st.sampled, x)
  BY <1>1, Zenon DEF Prompt, TokensOf
<1>5. /\ Append(st.sampled, x) \in Seq(Tokens) /\ Len(Append(st.sampled, x)) = d
      /\ Last(TokensOf(n)) = x
  <2>1. PICK pr, sa, more, all : /\ pr = Prompt(st) /\ sa = st.sampled
                                 /\ more = Append(st.sampled, x) /\ all = TokensOf(n)
    OBVIOUS
  <2>2. pr \in Seq(Tokens) /\ sa \in Seq(Tokens) /\ x \in Tokens /\ more = Append(sa, x)
        /\ all = pr \o Append(sa, x)
    BY <1>2, <1>3, <1>4, <2>1
  <2>3. more \in Seq(Tokens) /\ Len(more) = Len(sa) + 1 /\ Last(all) = x
    BY ONLY <2>2, OneMore
  <2> QED
    BY <2>1, <2>3
<1>6. Progress(n)
  <2>1. ~n.terminal => n.pending = x
    BY <1>1, Zenon
  <2>2. /\ n.request \in Requests /\ n.logical \in 0 .. Len(Prompt(n)) /\ Len(Prompt(n)) > 0
        /\ n.physical = (IF n.logical = Len(Prompt(n)) THEN n.logical - 1 ELSE n.logical)
        /\ n.cached \in 0 .. n.physical /\ n.logical = Len(Prompt(n))
    BY <1>1, <1>3, <1>4, Zenon DEF Progress
  <2>3. n.n_past = n.physical + Len(n.sampled) /\ n.sampled \in Seq(Tokens)
    <3>1. st.n_past = st.physical + Len(st.sampled) /\ st.physical \in Int
      <4>1. Len(Prompt(st)) \in Nat
        BY <1>3, LenProperties
      <4> QED
        BY <1>3, <4>1 DEF Progress
    <3>0. Len(st.sampled) \in Nat
      BY <1>2
    <3>2. n.sampled \in Seq(Tokens) /\ Len(n.sampled) = Len(st.sampled) + 1
      BY <1>1, <1>5
    <3>3. n.n_past = st.n_past + 1 /\ n.physical = st.physical
      BY <1>1
    <3> QED
      BY ONLY <3>0, <3>1, <3>2, <3>3
  <2>4. Len(Prompt(n)) \in Nat
    BY <1>3, <1>4, LenProperties
  <2> QED
    BY <1>5, <2>1, <2>2, <2>3, <2>4 DEF Progress
<1>7. /\ text \in Seq(Tokens)
      /\ n.utf8.valid => \E q \in Seq(Tokens) :
            /\ n.utf8 = Accumulator(q)
            /\ text \o q = (IF IntoFinal(st, x) THEN Append(st.utf8.pending, x) ELSE st.utf8.pending)
  <2>1. PICK piece : piece = TokenPiece(st, x)
    OBVIOUS
  <2>2. n.utf8 = piece.utf8 /\ text = piece.completed
    BY <1>1, <2>1, Zenon
  <2>3. PieceOk(st, x, piece)
    BY ONLY Sampling(st, x), <2>1, PieceParts
  <2> QED
    BY ONLY <2>2, <2>3 DEF PieceOk
<1>8. n.final_bytes \in Seq(Tokens)
  BY <1>1, <1>2, <1>3, AppendProperties, Zenon DEF TokenBytesOf
<1>9. ASSUME ~TokenFails(st, x, d)
      PROVE  /\ ControllerShape(n.phase) /\ n.phase.reasoning \in Nat /\ n.phase.final \in Nat
             /\ TokenCompletes(st, x) =>
                  /\ n.phase.phase = "done" /\ n.utf8.pending = <<>> /\ x = EOG
                  /\ n.phase.reasoning + n.phase.final = Len(st.sampled) /\ d <= total_budget
             /\ ~TokenCompletes(st, x) =>
                  /\ n.phase.phase \in SpeakingPhases /\ x # EOG
                  /\ n.phase.reasoning + n.phase.final = d /\ d < total_budget
  BY <1>1, <1>9, TokenCounts
<1>10. /\ n.terminal \in BOOLEAN /\ n.failed \in BOOLEAN /\ (n.failed => n.terminal)
       /\ (n.failed <=> TokenFails(st, x, d))
       /\ (n.terminal <=> TokenFails(st, x, d) \/ TokenCompletes(st, x))
  BY <1>1, Zenon DEF TokenEnds, TokenFails
<1>11. ASSUME ~n.failed PROVE n.utf8.valid
  BY <1>1, <1>10, <1>11 DEF TokenFails
<1>12. ASSUME ~n.failed
       PROVE  n.utf8 = Accumulator(n.utf8.pending) /\ n.utf8.pending \in Seq(Tokens)
  <2>1. PICK q \in Seq(Tokens) : n.utf8 = Accumulator(q)
    BY <1>7, <1>11, <1>12
  <2>2. n.utf8.pending = q
    BY <2>1, AccumulatorChanges
  <2> QED
    BY <2>1, <2>2
<1>13. Spoken(n)
  BY <1>1, <1>5, <1>8, <1>9, <1>10, <1>12 DEF Spoken, SpeakingPhases
<1>14. Continues(st, n, text)
  <2> SUFFICES ASSUME ~n.failed, NEW a \in Seq(Tokens), a \o st.utf8.pending = st.final_bytes
               PROVE  (a \o text) \o n.utf8.pending = n.final_bytes
    BY Zenon DEF Continues
  <2>1. PICK q \in Seq(Tokens) :
          /\ n.utf8 = Accumulator(q)
          /\ text \o q = (IF IntoFinal(st, x) THEN Append(st.utf8.pending, x) ELSE st.utf8.pending)
    BY <1>7, <1>11, Zenon
  <2>2. n.utf8.pending = q
    BY <2>1, AccumulatorChanges, Zenon
  <2>3. (a \o text) \o q = a \o (text \o q)
    <3>1. a \in Seq(Tokens) /\ text \in Seq(Tokens) /\ q \in Seq(Tokens)
      BY <1>7
    <3> QED
      BY ONLY <3>1, ConcatAssociative
  <2>4. CASE IntoFinal(st, x)
    <3>1. a \o Append(st.utf8.pending, x) = Append(a \o st.utf8.pending, x)
      <4>1. PICK p : p = st.utf8.pending
        OBVIOUS
      <4>2. a \in Seq(Tokens) /\ p \in Seq(Tokens) /\ x \in Tokens
        BY <1>2, <1>3, <4>1
      <4>3. a \o Append(p, x) = Append(a \o p, x)
        BY ONLY <4>2, OneMore
      <4> QED
        BY <4>1, <4>3
    <3>2. n.final_bytes = Append(st.final_bytes, x)
      BY <1>1, <2>4 DEF TokenBytesOf
    <3> QED
      BY <2>1, <2>2, <2>3, <2>4, <3>1, <3>2, Zenon
  <2>5. CASE ~IntoFinal(st, x)
    <3>1. n.final_bytes = st.final_bytes
      BY <1>1, <2>5 DEF TokenBytesOf
    <3> QED
      BY <2>1, <2>2, <2>3, <2>5, <3>1, Zenon
  <2> QED
    BY <2>4, <2>5, Zenon
<1> QED
  BY <1>1, <1>6, <1>7, <1>13, <1>14, Zenon DEF SampledOk

-----------------------------------------------------------------------------
(***************************************************************************)
(* A new ledger, and finite sets as sequences.                             *)
(***************************************************************************)

LEMMA TotalZero ==
  ASSUME NEW D, IsFiniteSet(D), NEW f, \A x \in D : f[x] = 0
  PROVE  Total(f, D) = 0
<1> DEFINE F == {s \in SUBSET D : Total(f, s) = 0}
<1>1. ASSUME NEW s \in SUBSET D, \A x \in s : s \ {x} \in F
      PROVE  s \in F
  <2>1. IsFiniteSet(s)
    BY FS_Subset
  <2>2. CASE s = {}
    BY <2>2, TotalNone
  <2>3. CASE s # {}
    <3>1. PICK x : x \in s
      BY <2>3
    <3>2. \A y \in s : f[y] \in Nat
      OBVIOUS
    <3>3. Total(f, s) = f[x] + Total(f, s \ {x})
      BY ONLY <2>1, <3>1, <3>2, TotalAdd
    <3>4. Total(f, s \ {x}) = 0
      BY <1>1, <3>1
    <3> QED
      BY <3>1, <3>3, <3>4
  <2> QED
    BY <2>2, <2>3
<1> HIDE DEF F
<1>2. D \in F
  BY <1>1, SubsetInduction
<1> QED
  BY <1>2, Zenon DEF F

LEMMA BooksNew == Books(NewEngine) /\ LiveSlots(NewEngine) = {}
<1>1. PICK e, sl : /\ e = NewEngine /\ sl = [s \in Slots |-> Vacant(0)]
  OBVIOUS
<1>2. /\ e = BooksOf(sl, 0, 0) /\ sl = [s \in Slots |-> sl[s]]
      /\ \A s \in Slots : sl[s] = Vacant(0)
  BY <1>1 DEF NewEngine, BooksOf
<1>3. /\ e.slots = sl /\ e.reserved_tokens = 0 /\ e.active_sequences = 0 /\ LedgerShape(e)
  BY ONLY <1>2, BooksParts
<1>4. \A s \in Slots : /\ SlotType(e.slots[s]) /\ e.slots[s].lifecycle = "released"
                       /\ e.slots[s] = Vacant(e.slots[s].generation)
                       /\ Reservation(e.slots[s]) = 0
  BY <1>2, <1>3, VacantType
<1>5. LiveSlots(e) = {}
  BY <1>4 DEF LiveSlots
<1>6. WeightsNat(e.slots)
  BY <1>4 DEF WeightsNat, SlotType
<1>7. ReservedIn(e) = 0
  <2>1. IsFiniteSet(Slots)
    BY SlotsAreSlots
  <2>2. PICK w : w = Weights(e.slots)
    OBVIOUS
  <2>3. \A s \in Slots : w[s] = 0
    BY <1>4, <2>2 DEF Weights, Reservation
  <2>4. Total(w, Slots) = 0
    BY ONLY <2>1, <2>3, TotalZero
  <2>5. ReservedIn(e) = Total(w, Slots)
    BY <1>6, <2>2, ReservedIsTotal
  <2> QED
    BY <2>4, <2>5
<1>8. Cardinality(LiveSlots(e)) = 0
  BY <1>5, FS_EmptySet
<1>9. 0 <= token_capacity
  BY EngineAssumption
<1>10. Books(e)
  BY <1>3, <1>4, <1>5, <1>7, <1>8, <1>9 DEF Books
<1> QED
  BY <1>1, <1>5, <1>10

LEMMA FiniteImage ==
  ASSUME NEW D, IsFiniteSet(D), NEW f
  PROVE  IsFiniteSet({f[x] : x \in D})
<1> DEFINE T == {f[x] : x \in D}
           g == [x \in D |-> f[x]]
<1>1. g \in Surjection(D, T)
  BY DEF Surjection
<1> HIDE DEF T, g
<1>2. IsFiniteSet(T)
  BY <1>1, FS_Surjection
<1> QED
  BY <1>2 DEF T

LEMMA SetToSeqIs ==
  ASSUME NEW S, IsFiniteSet(S), NEW q, q = SetToSeq(S)
  PROVE  q \in Seq(S) /\ \A i, j \in DOMAIN q : q[i] = q[j] => i = j
<1>1. PICK n \in Nat : n = Cardinality(S) /\ ExistsBijection(1 .. n, S)
  BY FS_CardinalityType
<1>2. \E f \in [1 .. n -> S] : \A i, j \in DOMAIN f : f[i] = f[j] => i = j
  BY <1>1 DEF ExistsBijection, Bijection, Injection, IsInjective
<1>3. q = CHOOSE f \in [1 .. n -> S] : \A i, j \in DOMAIN f : f[i] = f[j] => i = j
  BY <1>1 DEF SetToSeq, IsInjective
<1>4. q \in [1 .. n -> S] /\ \A i, j \in DOMAIN q : q[i] = q[j] => i = j
  BY <1>2, <1>3
<1> QED
  BY <1>4, SeqDef

-----------------------------------------------------------------------------
(***************************************************************************)
(* The invariant by its parts.                                             *)
(***************************************************************************)

MemoryOk(e, m) == m = [s \in Slots |-> m[s]] /\ \A s \in Slots \ LiveSlots(e) : m[s] = <<>>

InvOf(e, sts, m, c, k, hd) ==
  /\ Books(e) /\ SlotsAgree(e, sts, hd) /\ CommandOk(k, sts, hd) /\ MemoryOk(e, m)
  /\ \A h \in DOMAIN hd : HandleOk(h, sts, m, k, hd)
  /\ CacheOk(c)

LEMMA RuntimeInvIs == RuntimeInv <=> ~invalid /\ InvOf(engine, states, kv, cache, cmd, held)
BY Zenon DEF RuntimeInv, InvOf, MemoryOk

\* A handle the client holds is that of a live slot, and of one only.
LEMMA HandleSlot ==
  ASSUME NEW e, NEW sts, NEW hd, SlotsAgree(e, sts, hd), NEW h \in DOMAIN hd
  PROVE  /\ h.slot \in LiveSlots(e) /\ h.slot \in Slots /\ sts[h.slot].internal = h
         /\ h = HandleIn(e, h.slot) /\ sts[h.slot] # NoState /\ StateShape(sts[h.slot])
         /\ Fills(e.slots[h.slot], sts[h.slot], h.slot)
         /\ Progress(sts[h.slot]) /\ Spoken(sts[h.slot])
<1>1. PICK s \in LiveSlots(e) : h = sts[s].internal
  BY DEF SlotsAgree
<1>2. s \in Slots
  BY DEF LiveSlots
<1>3. /\ sts[s] # NoState /\ StateShape(sts[s]) /\ Fills(e.slots[s], sts[s], s)
      /\ Progress(sts[s]) /\ Spoken(sts[s])
  BY <1>2 DEF SlotsAgree
<1>4. h = Handle(s, e.slots[s].generation, e.slots[s].key)
  BY <1>1, <1>3 DEF Fills
<1>5. h.slot = s
  BY <1>4, HandleParts
<1> QED
  BY <1>1, <1>2, <1>3, <1>4, <1>5 DEF HandleIn

LEMMA SlotHandle ==
  ASSUME NEW e, NEW sts, NEW hd, SlotsAgree(e, sts, hd), NEW s \in LiveSlots(e)
  PROVE  sts[s].internal \in DOMAIN hd /\ sts[s].internal.slot = s /\ s \in Slots
<1>1. s \in Slots
  BY DEF LiveSlots
<1>2. Fills(e.slots[s], sts[s], s) /\ sts[s].internal \in DOMAIN hd
  BY <1>1 DEF SlotsAgree
<1>3. sts[s].internal = Handle(s, e.slots[s].generation, e.slots[s].key)
  BY <1>2 DEF Fills
<1>4. sts[s].internal.slot = s
  BY <1>3, HandleParts
<1> QED
  BY <1>1, <1>2, <1>4

LEMMA SameSlot ==
  ASSUME NEW e, NEW sts, NEW hd, SlotsAgree(e, sts, hd), NEW h \in DOMAIN hd, NEW g \in DOMAIN hd,
         h.slot = g.slot
  PROVE  h = g
BY HandleSlot

LEMMA HandlesFinite ==
  ASSUME NEW e, NEW sts, NEW hd, SlotsAgree(e, sts, hd)
  PROVE  IsFiniteSet(DOMAIN hd)
<1> DEFINE f == [s \in LiveSlots(e) |-> sts[s].internal]
<1>1. DOMAIN hd = {f[s] : s \in LiveSlots(e)}
  BY DEF SlotsAgree
<1>2. IsFiniteSet(LiveSlots(e))
  BY LiveSlotsFinite
<1> HIDE DEF f
<1>3. IsFiniteSet({f[s] : s \in LiveSlots(e)})
  BY <1>2, FiniteImage
<1> QED
  BY <1>1, <1>3

-----------------------------------------------------------------------------
\* What makes a handle be as it should, by its parts.
Resting(note, st) ==
  /\ note.mode = "prefill" => st.logical < Len(Prompt(st))
  /\ note.mode = "decode" => ~st.terminal

Alive(note, st, memory, ahead, text) == Remembers(st, memory, ahead) /\ Told(note, st, text)

LEMMA HandleOkIs ==
  ASSUME NEW h, NEW sts, NEW m, NEW c, NEW hd
  PROVE  HandleOk(h, sts, m, c, hd) <=>
           /\ NoteShape(hd[h])
           /\ \/ hd[h].mode = "doomed" /\ h \notin Stepped(c)
              \/ /\ Alive(hd[h], sts[h.slot], m[h.slot], Ahead(c, h), TextOf(c, h))
                 /\ h \notin Stepped(c) => Resting(hd[h], sts[h.slot])
BY Zenon DEF HandleOk, Alive, Resting

LEMMA HandleKept ==
  ASSUME NEW h, NEW sts, NEW m, NEW c, NEW hd, HandleOk(h, sts, m, c, hd),
         NEW sts1, NEW m1, NEW c1, NEW hd1,
         sts1[h.slot] = sts[h.slot], m1[h.slot] = m[h.slot], hd1[h] = hd[h],
         Ahead(c1, h) = Ahead(c, h), TextOf(c1, h) = TextOf(c, h),
         h \in Stepped(c1) <=> h \in Stepped(c)
  PROVE  HandleOk(h, sts1, m1, c1, hd1)
BY HandleOkIs

\* Commands by their kind.
PrefillCommand(steps, work) == [type |-> "prefill", steps |-> steps, work |-> work]

DecodeCommand(steps, budget, round, taken, text) ==
  [type |-> "decode", steps |-> steps, budget |-> budget, round |-> round, taken |-> taken,
   text |-> text]

LEMMA IdleParts ==
  /\ Idle.type = "idle" /\ Stepped(Idle) = {} /\ Pending(Idle) = {}
  /\ \A h : Ahead(Idle, h) = 0 /\ TextOf(Idle, h) = <<>>
<1>1. Idle.type = "idle"
  BY DEF Idle
<1>2. Stepped(Idle) = {} /\ Pending(Idle) = {}
  BY <1>1 DEF Stepped, Pending
<1> QED
  BY <1>1, <1>2 DEF Ahead, TextOf

LEMMA PrefillParts ==
  ASSUME NEW steps, NEW work, NEW c, c = PrefillCommand(steps, work)
  PROVE  /\ c.type = "prefill" /\ c.steps = steps /\ c.work = work /\ c # Idle
         /\ Stepped(c) = Range(steps) /\ Pending(c) = {work[i].handle : i \in DOMAIN work}
         /\ \A h : TextOf(c, h) = <<>>
<1>1. c.type = "prefill" /\ c.steps = steps /\ c.work = work
  BY DEF PrefillCommand
<1>2. c # Idle
  BY <1>1, IdleParts
<1> QED
  BY <1>1, <1>2 DEF Stepped, Pending, TextOf

LEMMA DecodeParts ==
  ASSUME NEW steps, NEW budget, NEW round, NEW taken, NEW text, NEW c,
         c = DecodeCommand(steps, budget, round, taken, text)
  PROVE  /\ c.type = "decode" /\ c.steps = steps /\ c.budget = budget /\ c.round = round
         /\ c.taken = taken /\ c.text = text /\ c # Idle
         /\ Stepped(c) = Range(steps) /\ Pending(c) = Range(round)
         /\ \A h : /\ TextOf(c, h) = (IF h \in Range(steps) THEN text[h] ELSE <<>>)
                   /\ Ahead(c, h) = (IF h \in Range(round) THEN 1 ELSE 0)
<1>1. /\ c.type = "decode" /\ c.steps = steps /\ c.budget = budget /\ c.round = round
      /\ c.taken = taken /\ c.text = text
  BY DEF DecodeCommand
<1>2. c # Idle
  BY <1>1, IdleParts
<1>3. Stepped(c) = Range(steps) /\ Pending(c) = Range(round)
  BY <1>1, <1>2 DEF Stepped, Pending
<1> QED
  BY <1>1, <1>2, <1>3 DEF TextOf, Ahead

\* What the handles of a prefill and of a decode command are.
PrefillOk(steps, work, sts, hd) ==
  /\ steps \in Seq(DOMAIN hd) /\ Range(steps) # {}
  /\ \A h \in Range(steps) : hd[h].mode = "prefill" /\ ~sts[h.slot].terminal
  /\ work \in Seq([handle : Range(steps), logical : Nat, physical : Nat]) /\ work # <<>>
  /\ \A i, j \in DOMAIN work : work[i].handle = work[j].handle => i = j
  /\ \A i \in DOMAIN work : ItemOk(work[i], sts[work[i].handle.slot])

DecodeOk(steps, round, taken, text, sts, hd) ==
  /\ steps \in Seq(DOMAIN hd)
  /\ \A h \in Range(steps) : hd[h].mode = "decode"
  /\ round \in Seq(Range(steps))
  /\ \A i, j \in DOMAIN round : round[i] = round[j] => i = j
  /\ \A h \in Range(round) : ~sts[h.slot].terminal
  /\ text \in [Range(steps) -> Seq(Tokens)]
  /\ taken \in [Range(steps) -> Nat]

LEMMA CommandIs ==
  ASSUME NEW c, NEW sts, NEW hd
  PROVE  CommandOk(c, sts, hd) <=>
           \/ c = Idle
           \/ c = PrefillCommand(c.steps, c.work) /\ PrefillOk(c.steps, c.work, sts, hd)
           \/ /\ c = DecodeCommand(c.steps, c.budget, c.round, c.taken, c.text)
              /\ DecodeOk(c.steps, c.round, c.taken, c.text, sts, hd)
<1> DEFINE A == /\ c.type = "prefill"
                /\ c = PrefillCommand(c.steps, c.work) /\ PrefillOk(c.steps, c.work, sts, hd)
           B == /\ c.type = "decode"
                /\ c = DecodeCommand(c.steps, c.budget, c.round, c.taken, c.text)
                /\ DecodeOk(c.steps, c.round, c.taken, c.text, sts, hd)
<1>1. CommandOk(c, sts, hd) <=> c = Idle \/ A \/ B
  BY DEF CommandOk, PrefillCommand, DecodeCommand, PrefillOk, DecodeOk
<1>2. c = PrefillCommand(c.steps, c.work) => c.type = "prefill"
  BY PrefillParts
<1>3. c = DecodeCommand(c.steps, c.budget, c.round, c.taken, c.text) => c.type = "decode"
  BY DecodeParts
<1> QED
  BY <1>1, <1>2, <1>3

-----------------------------------------------------------------------------
LEMMA RangeIs ==
  ASSUME NEW S, NEW q \in Seq(S)
  PROVE  /\ Range(q) \subseteq S /\ \A i \in DOMAIN q : q[i] \in Range(q)
         /\ \A x \in Range(q) : \E i \in DOMAIN q : x = q[i]
         /\ IsFiniteSet(Range(q)) /\ DOMAIN q = 1 .. Len(q) /\ Len(q) \in Nat
<1>1. DOMAIN q = 1 .. Len(q) /\ Len(q) \in Nat /\ \A i \in DOMAIN q : q[i] \in S
  BY LenProperties, ElementOfSeq
<1>2. Range(q) = {q[i] : i \in DOMAIN q}
  BY DEF Range
<1>3. IsFiniteSet(DOMAIN q)
  <2>1. 1 \in Int /\ Len(q) \in Int
    BY <1>1
  <2> QED
    BY <1>1, <2>1, FS_Interval
<1>4. IsFiniteSet(Range(q))
  BY <1>2, <1>3, FiniteImage
<1> QED
  BY <1>1, <1>2, <1>4, Zenon

\* A command steps handles the client holds, and deals with those it steps.
LEMMA PendingSteps ==
  ASSUME NEW c, NEW sts, NEW hd, CommandOk(c, sts, hd)
  PROVE  /\ Pending(c) \subseteq Stepped(c) /\ Stepped(c) \subseteq DOMAIN hd
         /\ \A h \in Stepped(c) : hd[h].mode # "doomed"
<1>1. CASE c = Idle
  BY <1>1, IdleParts
<1>2. CASE c = PrefillCommand(c.steps, c.work) /\ PrefillOk(c.steps, c.work, sts, hd)
  <2>1. PICK steps, work : c = PrefillCommand(steps, work) /\ PrefillOk(steps, work, sts, hd)
    BY <1>2
  <2>2. /\ Stepped(c) = Range(steps) /\ Pending(c) = {work[i].handle : i \in DOMAIN work}
    BY <2>1, PrefillParts
  <2>3. steps \in Seq(DOMAIN hd) /\ \A h \in Range(steps) : hd[h].mode = "prefill"
    BY <2>1 DEF PrefillOk
  <2>4. \A i \in DOMAIN work : work[i].handle \in Range(steps)
    <3>1. work \in Seq([handle : Range(steps), logical : Nat, physical : Nat])
      BY <2>1 DEF PrefillOk
    <3>2. \A i \in DOMAIN work : work[i] \in [handle : Range(steps), logical : Nat, physical : Nat]
      BY <3>1, LenProperties, ElementOfSeq
    <3> QED
      BY <3>2
  <2> QED
    BY <2>2, <2>3, <2>4, RangeIs
<1>3. CASE /\ c = DecodeCommand(c.steps, c.budget, c.round, c.taken, c.text)
           /\ DecodeOk(c.steps, c.round, c.taken, c.text, sts, hd)
  <2>1. PICK steps, budget, round, taken, text :
          c = DecodeCommand(steps, budget, round, taken, text) /\ DecodeOk(steps, round, taken, text, sts, hd)
    BY <1>3
  <2>2. Stepped(c) = Range(steps) /\ Pending(c) = Range(round)
    BY <2>1, DecodeParts
  <2>3. /\ steps \in Seq(DOMAIN hd) /\ round \in Seq(Range(steps))
        /\ \A h \in Range(steps) : hd[h].mode = "decode"
    BY <2>1 DEF DecodeOk
  <2> QED
    BY <2>2, <2>3, RangeIs
<1> QED
  BY <1>1, <1>2, <1>3, CommandIs

\* A handle no command steps is as between commands.
LEMMA Quiet ==
  ASSUME NEW c, NEW sts, NEW hd, CommandOk(c, sts, hd), NEW h, h \notin Stepped(c)
  PROVE  Ahead(c, h) = 0 /\ TextOf(c, h) = <<>>
<1>1. h \notin Pending(c)
  BY PendingSteps
<1>2. c.type = "decode" => c # Idle
  BY IdleParts
<1>3. TextOf(c, h) = <<>>
  BY <1>2 DEF TextOf, Stepped
<1> QED
  BY <1>1, <1>3 DEF Ahead

DoomedIn(hd, S) == [k \in DOMAIN hd |-> IF k \in S THEN [hd[k] EXCEPT !.mode = "doomed"] ELSE hd[k]]

LEMMA DoomedIs ==
  ASSUME NEW hd, NEW S, NEW hd1, hd1 = DoomedIn(hd, S), \A h \in DOMAIN hd : NoteShape(hd[h])
  PROVE  /\ DOMAIN hd1 = DOMAIN hd
         /\ \A h \in DOMAIN hd : h \notin S => hd1[h] = hd[h]
         /\ \A h \in DOMAIN hd : h \in S => NoteShape(hd1[h]) /\ hd1[h].mode = "doomed"
<1>1. DOMAIN hd1 = DOMAIN hd /\ \A h \in DOMAIN hd : h \notin S => hd1[h] = hd[h]
  BY DEF DoomedIn
<1>2. ASSUME NEW h \in DOMAIN hd, h \in S PROVE NoteShape(hd1[h]) /\ hd1[h].mode = "doomed"
  <2>1. PICK note : note = hd[h]
    OBVIOUS
  <2>2. PICK a, b, d : note = [mode |-> a, text |-> b, final_text |-> d]
    BY <2>1 DEF NoteShape
  <2>3. hd1[h] = [note EXCEPT !.mode = "doomed"]
    BY <1>2, <2>1 DEF DoomedIn
  <2>4. hd1[h] = [mode |-> "doomed", text |-> b, final_text |-> d]
    BY ONLY <2>2, <2>3
  <2> QED
    BY ONLY <2>4 DEF NoteShape
<1> QED
  BY <1>1, <1>2

\* After an error the sequences of its command are only there to be released.
LEMMA ErrorOk ==
  ASSUME NEW e, NEW sts, NEW m, NEW c, NEW k, NEW hd, NEW S,
         Books(e), SlotsAgree(e, sts, hd), MemoryOk(e, m), CacheOk(c),
         \A h \in DOMAIN hd : NoteShape(hd[h]),
         \A h \in DOMAIN hd : h \notin S =>
            /\ HandleOk(h, sts, m, k, hd) /\ h \notin Stepped(k) /\ Ahead(k, h) = 0 /\ TextOf(k, h) = <<>>,
         NEW hd1, hd1 = DoomedIn(hd, S)
  PROVE  InvOf(e, sts, m, c, Idle, hd1)
<1>1. /\ DOMAIN hd1 = DOMAIN hd
      /\ \A h \in DOMAIN hd : h \notin S => hd1[h] = hd[h]
      /\ \A h \in DOMAIN hd : h \in S => NoteShape(hd1[h]) /\ hd1[h].mode = "doomed"
  BY DoomedIs
<1>2. SlotsAgree(e, sts, hd1)
  BY <1>1 DEF SlotsAgree
<1>3. ASSUME NEW h \in DOMAIN hd1 PROVE HandleOk(h, sts, m, Idle, hd1)
  <2>1. CASE h \in S
    BY <1>1, <1>3, <2>1, HandleOkIs, IdleParts
  <2>2. CASE h \notin S
    <3>1. HandleOk(h, sts, m, k, hd) /\ h \notin Stepped(k) /\ Ahead(k, h) = 0 /\ TextOf(k, h) = <<>>
      BY <1>1, <1>3, <2>2
    <3>2. hd1[h] = hd[h]
      BY <1>1, <1>3, <2>2
    <3> QED
      BY <3>1, <3>2, IdleParts, HandleKept
  <2> QED
    BY <2>1, <2>2
<1>4. CommandOk(Idle, sts, hd1)
  BY DEF CommandOk
<1> QED
  BY <1>2, <1>3, <1>4 DEF InvOf

-----------------------------------------------------------------------------
LEMMA ErrorKeeps ==
  ASSUME NEW e, NEW sts, NEW m, NEW c, NEW k, NEW hd, InvOf(e, sts, m, c, k, hd),
         NEW S, Stepped(k) \subseteq S, NEW hd1, hd1 = DoomedIn(hd, S)
  PROVE  InvOf(e, sts, m, c, Idle, hd1)
<1>1. Books(e) /\ SlotsAgree(e, sts, hd) /\ MemoryOk(e, m) /\ CacheOk(c) /\ CommandOk(k, sts, hd)
  BY DEF InvOf
<1>2. \A h \in DOMAIN hd : NoteShape(hd[h])
  BY HandleOkIs DEF InvOf
<1>3. \A h \in DOMAIN hd : h \notin S =>
         /\ HandleOk(h, sts, m, k, hd) /\ h \notin Stepped(k) /\ Ahead(k, h) = 0 /\ TextOf(k, h) = <<>>
  BY <1>1, Quiet DEF InvOf
<1> QED
  BY <1>1, <1>2, <1>3, ErrorOk, Zenon

\* What the configuration says.
LEMMA Config ==
  ASSUME RuntimeConfig
  PROVE  /\ Limits /\ total_budget \in Nat /\ NoKey \notin Requests
         /\ PREFIX_CACHE_CHECKPOINT_TOKENS \in Nat \ {0}
         /\ \A r \in Requests : /\ PromptOf[r] \in Seq(Tokens) /\ Len(PromptOf[r]) \in Nat
                                /\ InSession(r) => /\ PrefixOf[r] \in 1 .. Len(PromptOf[r]) - 1
                                                   /\ ScopeOf[r] # "none"
         /\ SampledTokens \subseteq Tokens
<1>1. \A r \in Requests : PromptOf[r] \in Seq(Tokens)
  BY DEF RuntimeConfig
<1>2. \A r \in Requests : Len(PromptOf[r]) \in Nat
  BY <1>1, LenProperties
<1> QED
  BY <1>1, <1>2 DEF RuntimeConfig, Limits, InSession, Tokens

LEMMA InitOk ==
  ASSUME RuntimeConfig, Init
  PROVE  ~invalid /\ InvOf(engine, states, kv, cache, cmd, held)
<1>1. PICK e, sts, m, hd : /\ e = NewEngine /\ sts = [s \in Slots |-> NoState]
                           /\ m = [s \in Slots |-> <<>>] /\ hd = << >>
  OBVIOUS
<1>2. Books(e) /\ LiveSlots(e) = {}
  BY <1>1, BooksNew
<1>3. DOMAIN hd = {}
  BY <1>1
<1>4. SlotsAgree(e, sts, hd)
  BY <1>1, <1>2, <1>3 DEF SlotsAgree
<1>5. CommandOk(Idle, sts, hd)
  BY DEF CommandOk
<1>6. MemoryOk(e, m)
  BY <1>1 DEF MemoryOk
<1>7. CacheOk(<<>>)
  BY Config, ClearedOk
<1>8. InvOf(e, sts, m, <<>>, Idle, hd)
  BY <1>2, <1>3, <1>4, <1>5, <1>6, <1>7 DEF InvOf
<1>9. /\ engine = e /\ states = sts /\ kv = m /\ cache = <<>> /\ cmd = Idle /\ invalid = FALSE
      /\ held = hd
  BY <1>1 DEF Init
<1> QED
  BY <1>8, <1>9

\* A command that changes nothing but the cache.
LEMMA OnlyCache ==
  ASSUME NEW e, NEW sts, NEW m, NEW c, NEW k, NEW hd, InvOf(e, sts, m, c, k, hd),
         NEW c1, CacheOk(c1)
  PROVE  InvOf(e, sts, m, c1, k, hd)
BY DEF InvOf

LEMMA CacheClearOk ==
  ASSUME RuntimeConfig, ~invalid, InvOf(engine, states, kv, cache, cmd, held), CacheClear
  PROVE  ~invalid' /\ InvOf(engine', states', kv', cache', cmd', held')
<1>1. /\ cache' = <<>> /\ engine' = engine /\ states' = states /\ kv' = kv /\ cmd' = cmd
      /\ invalid' = invalid /\ held' = held
  BY DEF CacheClear, Cleared
<1>2. CacheOk(<<>>)
  BY Config, ClearedOk
<1>3. InvOf(engine, states, kv, <<>>, cmd, held)
  BY <1>2, OnlyCache
<1> QED
  BY <1>1, <1>3

\* What is left when entries have reached their TTL.
LEMMA PrunedOk ==
  ASSUME Limits, NEW c, CacheOk(c), NEW n \in 0 .. Len(c), NEW d, d = Pruned(c, n)
  PROVE  CacheOk(d)
BY SuffixOk DEF Pruned

LEMMA OpenRefusedOk ==
  ASSUME RuntimeConfig, ~invalid, InvOf(engine, states, kv, cache, cmd, held), NEW r, NEW parent,
         NEW c, CacheOk(c), OpenRefused(r, parent, c), cmd' = cmd
  PROVE  ~invalid' /\ InvOf(engine', states', kv', cache', cmd', held')
<1>1. /\ cache' \in {c, cache} /\ engine' = engine /\ states' = states /\ kv' = kv
      /\ invalid' = invalid /\ held' = held
  BY DEF OpenRefused
<1>2. PICK c1 : c1 = cache'
  OBVIOUS
<1>3. CacheOk(c1)
  BY <1>1, <1>2 DEF InvOf
<1>4. InvOf(engine, states, kv, c1, cmd, held)
  BY <1>3, OnlyCache
<1> QED
  BY <1>1, <1>2, <1>4

-----------------------------------------------------------------------------
(***************************************************************************)
(* open_sequence                                                           *)
(***************************************************************************)

LEMMA SlotsSame ==
  ASSUME NEW e, NEW sts, NEW m, NEW c, NEW k, NEW hd, InvOf(e, sts, m, c, k, hd),
         NEW f, Books(f), LiveSlots(f) = LiveSlots(e),
         \A t \in LiveSlots(e) : f.slots[t] = e.slots[t], NEW c1, CacheOk(c1)
  PROVE  InvOf(f, sts, m, c1, k, hd)
<1>1. SlotsAgree(f, sts, hd)
  BY DEF InvOf, SlotsAgree
<1> QED
  BY <1>1, Zenon DEF InvOf, MemoryOk

\* A sequence whose parent generation is gone leaves the ledger as it was.
LEMMA OpenWithoutParentOk ==
  ASSUME RuntimeConfig, ~invalid, InvOf(engine, states, kv, cache, cmd, held),
         NEW r \in Requests, NEW parent, NEW restored,
         NEW c, CacheOk(c), OpenWithoutParent(r, parent, c, restored), cmd' = cmd
  PROVE  ~invalid' /\ InvOf(engine', states', kv', cache', cmd', held')
<1>1. PICK e, a, started, cancelled, released :
        /\ e = engine /\ a = Admission(r) /\ started = StartPrefill(a.engine, a.handle)
        /\ cancelled = Cancel(started.engine, a.handle)
        /\ released = Release(cancelled.engine, a.handle)
  OBVIOUS
<1>2. /\ a.status = "admitted" /\ engine' = released.engine /\ cache' = c
      /\ states' = states /\ kv' = kv /\ invalid' = invalid /\ held' = held
  BY <1>1 DEF OpenWithoutParent
<1>3. PICK p \in Nat, b \in Nat : /\ p = Len(PromptOf[r]) /\ b = total_budget
                                  /\ a = Admit(e, r, p, b)
  BY <1>1, Config DEF Admission
<1>4. Books(e)
  BY <1>1 DEF InvOf
<1>5. PICK f : f = started.engine
  OBVIOUS
<1>6. PICK s \in Slots \ LiveSlots(e), g \in Nat :
        a.handle = Handle(s, g, r) /\ OpenedAt(e, f, s, Cell(g, r, "prefill", p, b, 0, 0))
  <2>1. \E s \in Slots \ LiveSlots(e), g \in Nat :
          /\ a.handle = Handle(s, g, r)
          /\ OpenedAt(e, started.engine, s, Cell(g, r, "prefill", p, b, 0, 0))
    BY ONLY <1>1, <1>2, <1>3, <1>4, EngineOpens, ZenonT(60)
  <2> QED
    BY <1>5, <2>1
<1>7. PICK cell, h : cell = Cell(g, r, "prefill", p, b, 0, 0) /\ h = a.handle
  OBVIOUS
<1>8. cell.generation = g /\ cell.key = r /\ cell.lifecycle = "prefill"
  BY <1>7, CellFields
<1>9. /\ Books(f) /\ LiveSlots(f) = LiveSlots(e) \cup {s} /\ OnlySlot(e, f, s) /\ f.slots[s] = cell
  BY <1>6, <1>7 DEF OpenedAt
<1>10. s \in LiveSlots(f) /\ h = HandleIn(f, s) /\ f.slots[s].lifecycle = "prefill"
  BY <1>6, <1>7, <1>8, <1>9 DEF HandleIn
<1>11. cancelled.engine = IF f.slots[s].lifecycle # "terminal" THEN Cancel(f, h).engine ELSE f
  BY <1>1, <1>5, <1>7, <1>10, Zenon
<1>12. PICK d : d = cancelled.engine
  OBVIOUS
<1>13. released = Release(d, h)
  BY <1>1, <1>7, <1>12
<1>14. /\ Books(released.engine) /\ LiveSlots(released.engine) = LiveSlots(f) \ {s}
       /\ OnlySlot(f, released.engine, s)
  <2>1. f.slots[s].lifecycle \in {"prefill", "decode", "terminal"}
    BY <1>10
  <2>2. d = IF f.slots[s].lifecycle # "terminal" THEN Cancel(f, h).engine ELSE f
    BY <1>11, <1>12
  <2> QED
    BY ONLY <1>9, <1>10, <1>13, <2>1, <2>2, EngineReleases
<1>15. PICK e1 : e1 = released.engine
  OBVIOUS
<1>16. Books(e1) /\ LiveSlots(e1) = LiveSlots(e) /\ \A t \in LiveSlots(e) : e1.slots[t] = e.slots[t]
  BY <1>6, <1>9, <1>14, <1>15 DEF OnlySlot, LiveSlots
<1>17. InvOf(e1, states, kv, c, cmd, held)
  BY <1>1, <1>16, SlotsSame
<1> QED
  BY <1>2, <1>15, <1>17

-----------------------------------------------------------------------------
\* What a request is restored from is a part of its prompt.
LEMMA RestorableAnswers ==
  ASSUME RuntimeConfig, NEW r \in Requests, NEW parent, NEW c, CacheOk(c),
         NEW i, i = Restorable(r, parent, c) \/ i = Miss
  PROVE  Answers(c, i, PromptOf[r])
<1>1. PICK prompt : prompt = PromptOf[r] /\ prompt \in Seq(Tokens)
  BY Config
<1>2. \/ i = Miss \/ i = BestPrefix(c, ScopeOf[r], prompt)
      \/ i = SessionEntry(c, ScopeOf[r], SessionOf[r], parent, prompt)
  BY <1>1 DEF Restorable
<1>3. CASE i = Miss
  BY <1>3 DEF Answers
<1>4. CASE i = BestPrefix(c, ScopeOf[r], prompt)
  BY <1>1, <1>4, BestPrefixAnswers
<1>5. CASE i = SessionEntry(c, ScopeOf[r], SessionOf[r], parent, prompt)
  BY <1>1, <1>5, SessionEntryAnswers
<1> QED
  BY <1>2, <1>3, <1>4, <1>5, Zenon

\* The state of a sequence that has just been opened.
LEMMA OpenedState ==
  ASSUME RuntimeConfig, NEW r \in Requests, NEW h, NEW parent, NEW n \in 0 .. Len(PromptOf[r]) - 1,
         total_budget > 0, NEW st, st = NativeSequenceState(h, r, parent, n)
  PROVE  /\ StateShape(st) /\ Progress(st) /\ Spoken(st)
         /\ st.internal = h /\ st.request = r /\ st.logical = n /\ ~st.terminal
         /\ Prompt(st) = PromptOf[r] /\ st.logical < Len(Prompt(st)) /\ Len(st.sampled) = 0
         /\ Remembers(st, SubSeq(PromptOf[r], 1, n), 0)
         /\ ~st.failed /\ st.utf8.pending = <<>> /\ st.final_bytes = <<>>
<1>1. /\ PromptOf[r] \in Seq(Tokens) /\ Len(PromptOf[r]) \in Nat /\ total_budget \in Nat
      /\ InSession(r) => PrefixOf[r] \in 1 .. Len(PromptOf[r]) - 1
  BY Config
<1>2. PICK no, la, co, u : /\ no = FALSE /\ la = Last(PromptOf[r]) /\ co = NewController /\ u = NewUtf8
  BY Zenon
<1>3. st = State(h, r, parent, n, n, n, n, la, co, no, NoGeneration, u, <<>>, <<>>, no, no)
  BY <1>2, Zenon DEF NativeSequenceState, State
<1>4. PICK nil, zero : nil = <<>> /\ zero = NoGeneration
  OBVIOUS
<1>5. st = State(h, r, parent, n, n, n, n, la, co, no, zero, u, nil, nil, no, no)
  BY <1>3, <1>4, Zenon
<1>6. /\ st.internal = h /\ st.request = r /\ st.logical = n /\ st.physical = n /\ st.n_past = n
      /\ st.cached = n /\ st.pending = la /\ st.phase = co /\ st.committed = zero /\ st.utf8 = u
      /\ st.final_bytes = nil /\ st.sampled = nil /\ st.terminal = no /\ st.failed = no
      /\ StateShape(st)
  BY ONLY <1>5, StateParts
<1>7. ~st.terminal /\ ~st.failed /\ st.terminal \in BOOLEAN /\ st.failed \in BOOLEAN
  BY <1>2, <1>6, Zenon
<1>8. nil \in Seq(Tokens) /\ Len(nil) = 0 /\ PromptOf[r] \o nil = PromptOf[r]
  BY <1>1, <1>4, EmptySeq, ConcatEmptySeq
<1>9. Prompt(st) = PromptOf[r] /\ TokensOf(st) = PromptOf[r]
  BY <1>6, <1>8 DEF Prompt, TokensOf
<1>10. Progress(st)
  BY <1>1, <1>2, <1>6, <1>7, <1>8, <1>9 DEF Progress
<1>11. st.utf8 = Accumulator(nil) /\ st.utf8.pending = nil
  <2>1. u = Accumulator(nil)
    BY <1>2, <1>4, Zenon DEF NewUtf8, Accumulator
  <2>2. u.pending = nil
    BY ONLY <2>1, AccumulatorChanges
  <2>3. st.utf8 = u
    BY <1>6
  <2> QED
    BY <2>1, <2>2, <2>3, Zenon
<1>12. /\ co.phase = "expect_reasoning_start" /\ co.reasoning = 0 /\ co.final = 0 /\ ControllerShape(co)
  BY <1>2 DEF NewController, ControllerShape
<1>13. Spoken(st)
  <2>1. st.utf8 = Accumulator(st.utf8.pending) /\ st.utf8.pending \in Seq(Tokens)
    BY <1>8, <1>11
  <2>2. /\ ControllerShape(st.phase) /\ st.phase.reasoning \in Nat /\ st.phase.final \in Nat
        /\ st.phase.phase \in {"expect_reasoning_start", "reasoning", "final"}
        /\ st.phase.reasoning + st.phase.final = Len(st.sampled)
        /\ Len(st.sampled) < total_budget /\ st.final_bytes \in Seq(Tokens)
    BY <1>1, <1>6, <1>8, <1>12
  <2> QED
    BY <1>7, <2>1, <2>2 DEF Spoken
<1>14. CommitsInTime(st)
  BY <1>1, <1>4, <1>6 DEF CommitsInTime, NoGeneration
<1>15. Remembers(st, SubSeq(PromptOf[r], 1, n), 0)
  BY <1>6, <1>9, <1>14 DEF Remembers
<1> QED
  BY <1>1, <1>4, <1>6, <1>7, <1>8, <1>9, <1>10, <1>11, <1>13, <1>15

\* What the client is told of a sequence that has just been opened.
LEMMA OpenedHandle ==
  ASSUME NEW st, st.logical < Len(Prompt(st)), ~st.terminal, ~st.failed,
         st.utf8.pending = <<>>, st.final_bytes = <<>>, NEW memory, Remembers(st, memory, 0),
         NEW note, note = [mode |-> "prefill", text |-> <<>>, final_text |-> <<>>]
  PROVE  NoteShape(note) /\ Alive(note, st, memory, 0, <<>>) /\ Resting(note, st)
<1>1. note.mode = "prefill" /\ note.text = <<>> /\ NoteShape(note)
  BY DEF NoteShape
<1>2. <<>> \in Seq(Tokens) /\ (<<>> \o <<>>) \o <<>> = <<>>
  BY EmptySeq, ConcatEmptySeq
<1>3. (note.text \o <<>>) \o st.utf8.pending = st.final_bytes
  BY <1>1, <1>2
<1>4. Told(note, st, <<>>)
  BY <1>1, <1>2, <1>3 DEF Told
<1> QED
  BY <1>1, <1>4 DEF Alive, Resting

-----------------------------------------------------------------------------
SequenceIn(slot, st, s) ==
  st # NoState /\ StateShape(st) /\ Fills(slot, st, s) /\ Progress(st) /\ Spoken(st)

\* A live sequence is added to the slots.
OpenedSlots(e, f, sts, sts1, hd, hd1, s, n, h) ==
  /\ SlotsAgree(f, sts1, hd1) /\ sts1[s] = n /\ h \notin DOMAIN hd
  /\ \A g \in DOMAIN hd : sts1[g.slot] = sts[g.slot] /\ g.slot \in LiveSlots(e)

LEMMA SlotsOpen ==
  ASSUME NEW e, NEW sts, NEW hd, SlotsAgree(e, sts, hd), NEW s \in Slots \ LiveSlots(e),
         NEW f, LiveSlots(f) = LiveSlots(e) \cup {s}, OnlySlot(e, f, s),
         NEW h, h.slot = s,
         NEW n, SequenceIn(f.slots[s], n, s),
         n.internal = h, NEW sts1, sts1 = [sts EXCEPT ![s] = n],
         NEW hd1, DOMAIN hd1 = DOMAIN hd \cup {h}
  PROVE  OpenedSlots(e, f, sts, sts1, hd, hd1, s, n, h)
<1>1. /\ sts = [t \in Slots |-> sts[t]] /\ sts1 = [t \in Slots |-> sts1[t]]
      /\ sts1[s] = n /\ \A t \in Slots \ {s} : sts1[t] = sts[t]
  BY DEF SlotsAgree
<1>2. ASSUME NEW t \in Slots
      PROVE  IF t \in LiveSlots(f)
             THEN /\ sts1[t] # NoState /\ StateShape(sts1[t]) /\ Fills(f.slots[t], sts1[t], t)
                  /\ Progress(sts1[t]) /\ Spoken(sts1[t])
             ELSE sts1[t] = NoState
  <2>1. CASE t = s
    BY <1>1, <2>1 DEF SequenceIn
  <2>2. CASE t # s
    <3>1. f.slots[t] = e.slots[t] /\ sts1[t] = sts[t]
      BY <1>1, <2>2 DEF OnlySlot
    <3> QED
      BY <2>2, <3>1 DEF SlotsAgree
  <2> QED
    BY <2>1, <2>2
<1>3. DOMAIN hd1 = {sts1[t].internal : t \in LiveSlots(f)}
  <2>1. \A t \in LiveSlots(e) : sts1[t].internal = sts[t].internal
    BY <1>1 DEF LiveSlots
  <2>2. DOMAIN hd = {sts[t].internal : t \in LiveSlots(e)}
    BY DEF SlotsAgree
  <2>3. sts1[s].internal = h
    BY <1>1
  <2> QED
    BY <2>1, <2>2, <2>3
<1>4. \A g \in DOMAIN hd : sts1[g.slot] = sts[g.slot] /\ g.slot \in LiveSlots(e)
  <2> TAKE g \in DOMAIN hd
  <2>1. g.slot \in Slots /\ g.slot \in LiveSlots(e)
    BY HandleSlot
  <2> QED
    BY <1>1, <2>1
<1>5. h \notin DOMAIN hd
  BY HandleSlot
<1>6. SlotsAgree(f, sts1, hd1)
  BY <1>1, <1>2, <1>3 DEF SlotsAgree
<1> QED
  BY <1>1, <1>4, <1>5, <1>6 DEF OpenedSlots

\* What the slot and the memory of an opened sequence are.
Opened(e, f, a, s, g, r, n) ==
  /\ a.handle = Handle(s, g, r)
  /\ OpenedAt(e, f, s, Cell(g, r, "prefill", Len(PromptOf[r]), total_budget, n, 0))

RestoredTokens(c, i) == IF i = Miss THEN 0 ELSE Len(c[i].tokens)

Restoring(started, h, i, n) ==
  IF i = Miss THEN started ELSE AdvancePrefill(started.engine, h, n)

AdmitsAs(e, a, advanced, r, n) ==
  /\ advanced.status = "applied" /\ total_budget > 0
  /\ n \in 0 .. Len(PromptOf[r]) - 1
  /\ \E s \in Slots \ LiveSlots(e), g \in Nat : Opened(e, advanced.engine, a, s, g, r, n)

LEMMA EngineAdmits ==
  ASSUME RuntimeConfig, NEW r \in Requests, NEW e, Books(e),
         NEW a, a = Admit(e, r, Len(PromptOf[r]), total_budget), a.status = "admitted",
         NEW c, CacheOk(c), NEW i, Answers(c, i, PromptOf[r]),
         NEW n, n = RestoredTokens(c, i),
         NEW started, started = StartPrefill(a.engine, a.handle),
         NEW advanced, advanced = Restoring(started, a.handle, i, n)
  PROVE  AdmitsAs(e, a, advanced, r, n)
<1>1. PICK p \in Nat, b \in Nat : p = Len(PromptOf[r]) /\ b = total_budget
  BY Config
<1>2. a = Admit(e, r, p, b)
  BY <1>1
<1>3. /\ p > 0 /\ b > 0 /\ started.status = "applied"
      /\ \E s \in Slots \ LiveSlots(e), g \in Nat :
           /\ a.handle = Handle(s, g, r)
           /\ OpenedAt(e, started.engine, s, Cell(g, r, "prefill", p, b, 0, 0))
  <2>1. p \in Nat /\ b \in Nat /\ Books(e) /\ a.status = "admitted"
    OBVIOUS
  <2>2. started = StartPrefill(a.engine, a.handle)
    OBVIOUS
  <2>3. \E s \in Slots \ LiveSlots(e), g \in Nat :
           /\ p > 0 /\ b > 0 /\ started.status = "applied"
           /\ a.handle = Handle(s, g, r)
           /\ OpenedAt(e, started.engine, s, Cell(g, r, "prefill", p, b, 0, 0))
    BY ONLY <1>2, <2>1, <2>2, EngineOpens, ZenonT(60)
  <2> QED
    BY <2>3
<1>4. PICK s \in Slots \ LiveSlots(e), g \in Nat :
           /\ a.handle = Handle(s, g, r)
           /\ OpenedAt(e, started.engine, s, Cell(g, r, "prefill", p, b, 0, 0))
  BY <1>3
<1>5. CASE i = Miss
  <2>1. advanced = started /\ n = 0
    BY <1>5 DEF Restoring, RestoredTokens
  <2> QED
    BY <1>1, <1>3, <1>4, <2>1 DEF Opened, AdmitsAs
<1>6. CASE i # Miss
  <2>1. n \in 1 .. p - 1
    BY <1>1, <1>6 DEF Answers, RestoredTokens
  <2>2. PICK f, h : f = started.engine /\ h = a.handle
    OBVIOUS
  <2>3. advanced = AdvancePrefill(f, h, n)
    BY <1>6, <2>2 DEF Restoring
  <2>4. h = Handle(s, g, r) /\ OpenedAt(e, f, s, Cell(g, r, "prefill", p, b, 0, 0))
    BY <1>4, <2>2
  <2>5. /\ advanced.status = "applied"
        /\ OpenedAt(e, advanced.engine, s, Cell(g, r, "prefill", p, b, n, 0))
    <3>1. s \in Slots /\ g \in Nat /\ p \in Nat /\ b \in Nat
      BY <1>1
    <3> QED
      BY ONLY <3>1, <2>1, <2>3, <2>4, EngineRestores
  <2> QED
    BY <1>1, <1>3, <1>4, <2>1, <2>5 DEF Opened, AdmitsAs
<1> QED
  BY <1>5, <1>6

-----------------------------------------------------------------------------
LEMMA PrefixIs ==
  ASSUME NEW S, NEW t \in Seq(S), NEW q \in Seq(S), IsPrefix(q, t)
  PROVE  q = SubSeq(t, 1, Len(q)) /\ Len(q) \in 0 .. Len(t)
<1>1. PICK n \in Nat : n = Len(q)
  BY LenProperties
<1>2. n <= Len(t) /\ SubSeq(q, 1, n) = SubSeq(t, 1, n) /\ Len(t) \in Nat
  BY <1>1, LenProperties DEF IsPrefix
<1>3. n \in 0 .. Len(q)
  BY <1>1
<1>4. /\ SubSeq(q, 1, n) \in Seq(S) /\ Len(SubSeq(q, 1, n)) = n
      /\ \A i \in 1 .. n : SubSeq(q, 1, n)[i] = q[i]
  BY ONLY <1>3, q \in Seq(S), FrontIs
<1>5. SubSeq(q, 1, n) = q
  BY <1>1, <1>4, SeqEqual
<1> QED
  BY <1>1, <1>2, <1>5

\* The memory a sequence is opened over is that of the tokens restored.
OpenedMemory(m, s, c, i) == IF i = Miss THEN m ELSE [m EXCEPT ![s] = c[i].state]

LEMMA MemoryOpens ==
  ASSUME RuntimeConfig, NEW r \in Requests, NEW e, NEW m, MemoryOk(e, m),
         NEW s \in Slots \ LiveSlots(e), NEW f, LiveSlots(f) = LiveSlots(e) \cup {s},
         NEW c, CacheOk(c), NEW i, Answers(c, i, PromptOf[r]),
         NEW n, n = (IF i = Miss THEN 0 ELSE Len(c[i].tokens)),
         NEW m1, m1 = OpenedMemory(m, s, c, i)
  PROVE  /\ MemoryOk(f, m1) /\ m1[s] = SubSeq(PromptOf[r], 1, n)
         /\ \A t \in Slots \ {s} : m1[t] = m[t]
<1>1. PICK prompt : prompt = PromptOf[r] /\ prompt \in Seq(Tokens)
  BY Config
<1>2. /\ m1 = [t \in Slots |-> m1[t]] /\ \A t \in Slots \ {s} : m1[t] = m[t]
  BY DEF MemoryOk, OpenedMemory
<1>3. MemoryOk(f, m1)
  BY <1>2 DEF MemoryOk
<1>4. CASE i = Miss
  <2>1. n = 0 /\ m1[s] = <<>>
    BY <1>4 DEF MemoryOk, OpenedMemory
  <2>2. SubSeq(prompt, 1, 0) = <<>>
    <3>1. 0 \in 0 .. Len(prompt)
      BY <1>1, LenProperties
    <3>2. SubSeq(prompt, 1, 0) \in Seq(Tokens) /\ Len(SubSeq(prompt, 1, 0)) = 0
      BY ONLY <1>1, <3>1, FrontIs
    <3> QED
      BY <3>2, EmptySeq
  <2> QED
    BY <1>1, <1>2, <1>3, <2>1, <2>2
<1>5. CASE i # Miss
  <2>1. PICK entry : entry = c[i]
    OBVIOUS
  <2>2. i \in DOMAIN c /\ IsPrefix(entry.tokens, prompt) /\ n = Len(entry.tokens)
    BY <1>1, <1>5, <2>1 DEF Answers
  <2>3. entry.tokens \in Seq(Tokens) /\ entry.state = entry.tokens
    BY <2>1, <2>2 DEF CacheOk, EntryOk
  <2>4. entry.tokens = SubSeq(prompt, 1, n)
    BY <1>1, <2>2, <2>3, PrefixIs
  <2>5. m1[s] = entry.state
    BY <1>5, <2>1 DEF MemoryOk, OpenedMemory
  <2> QED
    BY <1>1, <1>2, <1>3, <2>3, <2>4, <2>5
<1> QED
  BY <1>4, <1>5

\* The slot of an opened sequence is occupied by it.
LEMMA OpenedOccupies ==
  ASSUME NEW s, NEW g, NEW r, NEW p, NEW n, n # p, NEW cell, cell = Cell(g, r, "prefill", p, total_budget, n, 0),
         NEW st, st.internal = Handle(s, g, r), st.request = r, st.logical = n, ~st.terminal,
         Len(Prompt(st)) = p, Len(st.sampled) = 0
  PROVE  Fills(cell, st, s)
<1>1. /\ cell.generation = g /\ cell.key = r /\ cell.lifecycle = "prefill" /\ cell.prompt_tokens = p
      /\ cell.output_token_budget = total_budget /\ cell.prompt_tokens_processed = n
      /\ cell.decoded_tokens = 0
  BY CellFields
<1> QED
  BY <1>1 DEF Fills

-----------------------------------------------------------------------------
\* A sequence is opened over the tokens it was restored from.
LEMMA OpenAdmittedOk ==
  ASSUME RuntimeConfig, ~invalid, InvOf(engine, states, kv, cache, cmd, held), cmd = Idle,
         NEW r \in Requests, NEW parent, NEW restored,
         NEW c, CacheOk(c), OpenAdmitted(r, parent, c, restored), cmd' = cmd
  PROVE  ~invalid' /\ InvOf(engine', states', kv', cache', cmd', held')
<1>1. PICK e, sts, m, hd, a, h, i, n, started, advanced :
        /\ e = engine /\ sts = states /\ m = kv /\ hd = held /\ a = Admission(r) /\ h = a.handle
        /\ i = (IF restored THEN Restorable(r, parent, c) ELSE Miss)
        /\ n = (IF i = Miss THEN 0 ELSE Len(c[i].tokens))
        /\ started = StartPrefill(a.engine, h)
        /\ advanced = (IF i = Miss THEN started ELSE AdvancePrefill(started.engine, h, n))
  OBVIOUS
<1>2. PICK st, note, nowhere : /\ st = NativeSequenceState(h, r, parent, n)
                      /\ note = [mode |-> "prefill", text |-> <<>>, final_text |-> <<>>]
                      /\ nowhere = NoState
  OBVIOUS
<1>3. PICK f, sts1, m1, c1, hd1 :
        /\ f = advanced.engine /\ sts1 = [sts EXCEPT ![h.slot] = st]
        /\ m1 = OpenedMemory(m, h.slot, c, i) /\ c1 = (IF i = Miss THEN c ELSE Touch(c, i))
        /\ hd1 = [k \in DOMAIN hd \cup {h} |-> IF k = h THEN note ELSE hd[k]]
  OBVIOUS
<1>4. /\ a.status = "admitted" /\ engine' = f /\ invalid' = (invalid \/ advanced.status # "applied")
      /\ states' = sts1 /\ kv' = m1 /\ cache' = c1 /\ held' = hd1
  BY <1>1, <1>2, <1>3, Zenon DEF OpenAdmitted, OpenedMemory
<1>5. Books(e) /\ SlotsAgree(e, sts, hd) /\ MemoryOk(e, m) /\ \A g \in DOMAIN hd : HandleOk(g, sts, m, Idle, hd)
  BY <1>1 DEF InvOf
<1>6. Answers(c, i, PromptOf[r])
  BY <1>1, RestorableAnswers
<1>7. /\ advanced.status = "applied" /\ total_budget > 0 /\ n \in 0 .. Len(PromptOf[r]) - 1
      /\ \E s \in Slots \ LiveSlots(e), g \in Nat : Opened(e, advanced.engine, a, s, g, r, n)
  <2>1. a = Admit(e, r, Len(PromptOf[r]), total_budget)
    BY <1>1 DEF Admission
  <2>2. started = StartPrefill(a.engine, a.handle)
    BY <1>1
  <2>3. advanced = Restoring(started, a.handle, i, n)
    BY <1>1 DEF Restoring
  <2>4. n = RestoredTokens(c, i)
    BY <1>1 DEF RestoredTokens
  <2>5. RuntimeConfig /\ r \in Requests /\ CacheOk(c) /\ Books(e) /\ a.status = "admitted"
    BY <1>4, <1>5
  <2> QED
    <3>1. AdmitsAs(e, a, advanced, r, n)
      BY ONLY <1>6, <2>1, <2>2, <2>3, <2>4, <2>5, EngineAdmits
    <3> QED
      BY <3>1 DEF AdmitsAs
<1>8. PICK s \in Slots \ LiveSlots(e), g \in Nat : Opened(e, f, a, s, g, r, n)
  BY <1>3, <1>7
<1>9. PICK cell : cell = Cell(g, r, "prefill", Len(PromptOf[r]), total_budget, n, 0)
  OBVIOUS
<1>10. /\ h = Handle(s, g, r) /\ h.slot = s
       /\ Books(f) /\ LiveSlots(f) = LiveSlots(e) \cup {s} /\ OnlySlot(e, f, s) /\ f.slots[s] = cell
  BY <1>1, <1>8, <1>9, HandleParts DEF Opened, OpenedAt
<1>11. /\ StateShape(st) /\ Progress(st) /\ Spoken(st)
       /\ st.internal = h /\ st.request = r /\ st.logical = n /\ ~st.terminal
       /\ Prompt(st) = PromptOf[r] /\ st.logical < Len(Prompt(st)) /\ Len(st.sampled) = 0
       /\ Remembers(st, SubSeq(PromptOf[r], 1, n), 0)
       /\ ~st.failed /\ st.utf8.pending = <<>> /\ st.final_bytes = <<>>
  BY ONLY <1>2, <1>7, RuntimeConfig, r \in Requests, OpenedState
<1>12. Fills(f.slots[s], st, s)
  <2>1. n # Len(PromptOf[r]) /\ Len(Prompt(st)) = Len(PromptOf[r])
    BY <1>7, <1>11, Config
  <2>2. st.internal = Handle(s, g, r)
    BY <1>10, <1>11
  <2>3. Fills(cell, st, s)
    BY <1>9, <1>11, <2>1, <2>2, OpenedOccupies
  <2> QED
    BY <1>10, <2>3
<1>13. st # nowhere
  <2>1. nowhere.request = NoKey /\ NoKey \notin Requests
    BY <1>2, Config DEF NoState
  <2> QED
    BY <1>11, <2>1
<1>14. /\ DOMAIN hd1 = DOMAIN hd \cup {h} /\ hd1[h] = note
       /\ \A k \in DOMAIN hd : k # h => hd1[k] = hd[k]
  BY <1>3
<1>15. /\ SlotsAgree(f, sts1, hd1) /\ sts1[s] = st /\ h \notin DOMAIN hd
       /\ \A k \in DOMAIN hd : sts1[k.slot] = sts[k.slot] /\ k.slot \in LiveSlots(e)
  <2>1. st # NoState
    BY <1>2, <1>13
  <2>2. sts1 = [sts EXCEPT ![s] = st]
    BY <1>3, <1>10
  <2>3. DOMAIN hd1 = DOMAIN hd \cup {h}
    BY <1>14
  <2>4. s \in Slots \ LiveSlots(e)
    OBVIOUS
  <2> QED
    <3>1. SequenceIn(f.slots[s], st, s) /\ st.internal = h
      BY <1>11, <1>12, <2>1 DEF SequenceIn
    <3>2. OpenedSlots(e, f, sts, sts1, hd, hd1, s, st, h)
      BY ONLY <1>5, <1>10, <2>2, <2>3, <2>4, <3>1, SlotsOpen
    <3> QED
      BY <3>2 DEF OpenedSlots
<1>16. /\ MemoryOk(f, m1) /\ m1[s] = SubSeq(PromptOf[r], 1, n)
       /\ \A t \in Slots \ {s} : m1[t] = m[t]
  <2>1. m1 = OpenedMemory(m, s, c, i)
    BY <1>3, <1>10
  <2>2. n = (IF i = Miss THEN 0 ELSE Len(c[i].tokens))
    BY <1>1
  <2>3. s \in Slots \ LiveSlots(e) /\ RuntimeConfig /\ r \in Requests /\ CacheOk(c)
    OBVIOUS
  <2> QED
    BY ONLY <1>5, <1>6, <1>10, <2>1, <2>2, <2>3, MemoryOpens
<1>17. CacheOk(c1)
  <2>1. CASE i = Miss
    BY <1>3, <2>1
  <2>2. CASE i # Miss
    <3>1. i \in DOMAIN c
      BY <1>6, <2>2 DEF Answers
    <3>2. Limits
      BY Config
    <3>3. c1 = Touch(c, i)
      BY <1>3, <2>2
    <3> QED
      BY <3>1, <3>2, <3>3, TouchOk
  <2> QED
    BY <2>1, <2>2
<1>18. ASSUME NEW k \in DOMAIN hd1 PROVE HandleOk(k, sts1, m1, Idle, hd1)
  <2>1. CASE k = h
    <3>1. Remembers(st, m1[s], 0)
      BY <1>11, <1>16
    <3>2. NoteShape(note) /\ Alive(note, st, m1[s], 0, <<>>) /\ Resting(note, st)
      BY <1>2, <1>11, <3>1, OpenedHandle
    <3>3. hd1[k] = note /\ sts1[k.slot] = st /\ m1[k.slot] = m1[s]
      BY <1>10, <1>14, <1>15, <2>1
    <3> QED
      BY <3>2, <3>3, IdleParts, HandleOkIs
  <2>2. CASE k # h
    <3>1. k \in DOMAIN hd /\ hd1[k] = hd[k]
      BY <1>14, <2>2
    <3>2. sts1[k.slot] = sts[k.slot] /\ k.slot \in Slots \ {s}
      BY <1>15, <3>1 DEF LiveSlots
    <3>3. m1[k.slot] = m[k.slot]
      BY <1>16, <3>2
    <3> QED
      BY <1>5, <3>1, <3>2, <3>3, HandleKept
  <2> QED
    BY <2>1, <2>2
<1>19. CommandOk(Idle, sts1, hd1)
  BY DEF CommandOk
<1>20. InvOf(f, sts1, m1, c1, Idle, hd1)
  BY <1>10, <1>15, <1>16, <1>17, <1>18, <1>19 DEF InvOf
<1> QED
  BY <1>4, <1>7, <1>20, Zenon

LEMMA OpenSequenceOk ==
  ASSUME RuntimeConfig, ~invalid, InvOf(engine, states, kv, cache, cmd, held),
         NEW r \in Requests, NEW parent, OpenSequence(r, parent)
  PROVE  ~invalid' /\ InvOf(engine', states', kv', cache', cmd', held')
<1>1. PICK expired \in 0 .. Len(cache), restored \in BOOLEAN :
        LET c == Pruned(cache, expired)
        IN  /\ cmd = Idle /\ cmd' = cmd
            /\ \/ OpenRefused(r, parent, c)
               \/ OpenWithoutParent(r, parent, c, restored)
               \/ OpenAdmitted(r, parent, c, restored)
  BY DEF OpenSequence
<1>2. PICK c : c = Pruned(cache, expired)
  OBVIOUS
<1>3. CacheOk(c)
  BY <1>2, Config, PrunedOk DEF InvOf
<1>4. CASE OpenRefused(r, parent, c)
  BY <1>1, <1>3, <1>4, OpenRefusedOk
<1>5. CASE OpenWithoutParent(r, parent, c, restored)
  BY <1>1, <1>3, <1>5, OpenWithoutParentOk
<1>6. CASE OpenAdmitted(r, parent, c, restored)
  BY <1>1, <1>3, <1>6, OpenAdmittedOk
<1> QED
  BY <1>1, <1>2, <1>4, <1>5, <1>6

-----------------------------------------------------------------------------
(***************************************************************************)
(* release_sequence                                                        *)
(***************************************************************************)

Put(f, s, x) == [f EXCEPT ![s] = x]

\* A sequence leaves the slots.
ClosedSlots(f, sts, sts1, hd1, s) ==
  /\ SlotsAgree(f, sts1, hd1)
  /\ \A g \in DOMAIN hd1 : sts1[g.slot] = sts[g.slot] /\ g.slot # s /\ g.slot \in Slots

LEMMA SlotsClose ==
  ASSUME NEW e, NEW sts, NEW hd, SlotsAgree(e, sts, hd), NEW h \in DOMAIN hd,
         NEW f, LiveSlots(f) = LiveSlots(e) \ {h.slot}, OnlySlot(e, f, h.slot),
         NEW sts1, sts1 = Put(sts, h.slot, NoState),
         NEW hd1, DOMAIN hd1 = DOMAIN hd \ {h}
  PROVE  ClosedSlots(f, sts, sts1, hd1, h.slot)
<1>1. PICK s, nowhere : s = h.slot /\ nowhere = NoState
  OBVIOUS
<1>2. s \in LiveSlots(e) /\ s \in Slots /\ sts[s].internal = h
  BY <1>1, HandleSlot
<1>3. /\ sts = [t \in Slots |-> sts[t]] /\ sts1 = [t \in Slots |-> sts1[t]]
      /\ sts1[s] = nowhere /\ \A t \in Slots \ {s} : sts1[t] = sts[t]
  BY <1>1, <1>2 DEF SlotsAgree, Put
<1>4. ASSUME NEW t \in Slots
      PROVE  IF t \in LiveSlots(f)
             THEN /\ sts1[t] # NoState /\ StateShape(sts1[t]) /\ Fills(f.slots[t], sts1[t], t)
                  /\ Progress(sts1[t]) /\ Spoken(sts1[t])
             ELSE sts1[t] = NoState
  <2>1. CASE t = s
    BY <1>1, <1>3, <2>1
  <2>2. CASE t # s
    <3>1. f.slots[t] = e.slots[t] /\ sts1[t] = sts[t]
      BY <1>1, <1>3, <2>2 DEF OnlySlot
    <3> QED
      BY <1>1, <2>2, <3>1 DEF SlotsAgree
  <2> QED
    BY <2>1, <2>2
<1>5. \A t \in LiveSlots(f) : sts1[t].internal = sts[t].internal /\ t # s /\ t \in LiveSlots(e)
  BY <1>1, <1>3 DEF LiveSlots
<1>6. \A g \in DOMAIN hd1 : /\ g \in DOMAIN hd /\ g # h /\ g.slot # s /\ g.slot \in LiveSlots(e)
                            /\ g.slot \in Slots /\ sts[g.slot].internal = g
  <2> TAKE g \in DOMAIN hd1
  <2>1. g \in DOMAIN hd /\ g # h
    OBVIOUS
  <2> QED
    BY <1>1, <2>1, HandleSlot, SameSlot
<1>7. DOMAIN hd1 = {sts1[t].internal : t \in LiveSlots(f)}
  <2>1. ASSUME NEW g \in DOMAIN hd1 PROVE \E t \in LiveSlots(f) : g = sts1[t].internal
    <3>1. g.slot \in LiveSlots(f)
      BY <1>1, <1>6
    <3> QED
      BY <1>5, <1>6, <3>1
  <2>2. ASSUME NEW t \in LiveSlots(f) PROVE sts1[t].internal \in DOMAIN hd1
    <3>1. sts[t].internal \in DOMAIN hd /\ sts[t].internal.slot = t
      BY <1>5, SlotHandle
    <3> QED
      BY <1>1, <1>5, <3>1
  <2> QED
    BY <2>1, <2>2
<1>8. SlotsAgree(f, sts1, hd1)
  BY <1>3, <1>4, <1>7, Zenon DEF SlotsAgree
<1> QED
  BY <1>1, <1>3, <1>6, <1>8, Zenon DEF ClosedSlots

LEMMA ReleaseSequenceOk ==
  ASSUME RuntimeConfig, ~invalid, InvOf(engine, states, kv, cache, cmd, held),
         NEW h \in DOMAIN held, ReleaseSequence(h)
  PROVE  ~invalid' /\ InvOf(engine', states', kv', cache', cmd', held')
<1>1. PICK e, sts, m, hd, s, nowhere :
        /\ e = engine /\ sts = states /\ m = kv /\ hd = held /\ s = h.slot /\ nowhere = NoState
  OBVIOUS
<1>2. /\ Books(e) /\ SlotsAgree(e, sts, hd) /\ MemoryOk(e, m) /\ CacheOk(cache) /\ cmd = Idle
      /\ \A g \in DOMAIN hd : HandleOk(g, sts, m, Idle, hd)
  BY <1>1, Zenon DEF InvOf, ReleaseSequence
<1>3. /\ s \in LiveSlots(e) /\ s \in Slots /\ sts[s].internal = h /\ h = HandleIn(e, s)
      /\ sts[s] # NoState /\ Fills(e.slots[s], sts[s], s)
  BY <1>1, <1>2, HandleSlot
<1>4. Lifecycle(e, h) = e.slots[s].lifecycle
  BY <1>3, HandleFinds
<1>5. PICK ended, released :
        /\ ended = (IF e.slots[s].lifecycle # "terminal" THEN Cancel(e, h).engine ELSE e)
        /\ released = Release(ended, h)
  OBVIOUS
<1>6. /\ kv' = [m EXCEPT ![s] = <<>>] /\ engine' = released.engine
      /\ states' = (IF released.status = "released" THEN [sts EXCEPT ![s] = NoState] ELSE sts)
      /\ held' = [k \in DOMAIN hd \ {h} |-> hd[k]]
      /\ cache' = cache /\ cmd' = cmd /\ invalid' = invalid
  BY <1>1, <1>3, <1>4, <1>5, Zenon DEF ReleaseSequence, MemoryRemoved
<1>7. /\ released.status = "released" /\ Books(released.engine)
      /\ LiveSlots(released.engine) = LiveSlots(e) \ {s} /\ OnlySlot(e, released.engine, s)
  <2>1. e.slots[s].lifecycle \in {"prefill", "decode", "terminal"}
    BY <1>3 DEF Fills
  <2> QED
    BY ONLY <1>2, <1>3, <1>5, <2>1, EngineReleases
<1>8. PICK f, sts1, m1, hd1 :
        /\ f = released.engine /\ sts1 = [sts EXCEPT ![s] = NoState] /\ m1 = [m EXCEPT ![s] = <<>>]
        /\ hd1 = [k \in DOMAIN hd \ {h} |-> hd[k]]
  OBVIOUS
<1>9. DOMAIN hd1 = DOMAIN hd \ {h} /\ \A k \in DOMAIN hd1 : hd1[k] = hd[k]
  BY <1>8
<1>10. /\ SlotsAgree(f, sts1, hd1)
       /\ \A g \in DOMAIN hd1 : sts1[g.slot] = sts[g.slot] /\ g.slot # s /\ g.slot \in Slots
  <2>1. LiveSlots(f) = LiveSlots(e) \ {h.slot} /\ OnlySlot(e, f, h.slot)
    BY <1>1, <1>7, <1>8
  <2>2. sts1 = Put(sts, h.slot, NoState) /\ h \in DOMAIN hd
    BY <1>1, <1>8 DEF Put
  <2>3. DOMAIN hd1 = DOMAIN hd \ {h}
    BY <1>9
  <2>4. ClosedSlots(f, sts, sts1, hd1, h.slot)
    BY ONLY <1>2, <2>1, <2>2, <2>3, SlotsClose
  <2> QED
    BY <1>1, <2>4 DEF ClosedSlots
<1>11. MemoryOk(f, m1) /\ \A t \in Slots \ {s} : m1[t] = m[t]
  <2>1. LiveSlots(f) = LiveSlots(e) \ {s}
    BY <1>7, <1>8
  <2> QED
    BY <1>2, <1>3, <1>8, <2>1 DEF MemoryOk
<1>12. ASSUME NEW k \in DOMAIN hd1 PROVE HandleOk(k, sts1, m1, Idle, hd1)
  <2>1. /\ k \in DOMAIN hd /\ hd1[k] = hd[k] /\ sts1[k.slot] = sts[k.slot]
        /\ m1[k.slot] = m[k.slot]
    BY <1>9, <1>10, <1>11
  <2> QED
    BY <1>2, <2>1, HandleKept
<1>13. CommandOk(Idle, sts1, hd1)
  BY DEF CommandOk
<1>14. InvOf(f, sts1, m1, cache, Idle, hd1)
  BY <1>2, <1>7, <1>8, <1>10, <1>11, <1>12, <1>13 DEF InvOf
<1> QED
  BY <1>2, <1>6, <1>7, <1>8, <1>14

-----------------------------------------------------------------------------
(***************************************************************************)
(* prefill_batch                                                           *)
(***************************************************************************)

LEMMA SmallerIs ==
  ASSUME NEW a \in Nat \ {0}, NEW b \in Nat \ {0}
  PROVE  Smaller(a, b) \in Nat \ {0} /\ Smaller(a, b) <= a /\ Smaller(a, b) <= b
BY DEF Smaller

LEMMA ShareIs ==
  ASSUME RuntimeConfig, NEW limit \in Nat, NEW S, NEW steps \in Seq(S), steps # <<>>
  PROVE  Share(limit, steps) \in Nat
<1>1. Len(steps) \in Nat \ {0}
  BY LenProperties, EmptySeq
<1>2. tick_token_budget \in Nat
  BY DEF RuntimeConfig
<1>3. tick_token_budget \div Len(steps) \in Nat
  BY <1>1, <1>2
<1> QED
  BY <1>3 DEF Share, Smaller

WorkItem(h, logical, physical) == [handle |-> h, logical |-> logical, physical |-> physical]

LEMMA WorkParts ==
  ASSUME NEW h, NEW l, NEW p, NEW item, item = WorkItem(h, l, p)
  PROVE  /\ item.handle = h /\ item.logical = l /\ item.physical = p
         /\ \A S : h \in S /\ l \in Nat /\ p \in Nat => item \in [handle : S, logical : Nat, physical : Nat]
BY DEF WorkItem

\* A chunk is a part of what is left, and ends at the session prefix at the latest.
LEMMA ChunkOk ==
  ASSUME RuntimeConfig, NEW st, Progress(st), st.logical < Len(Prompt(st)),
         NEW budget \in Nat \ {0}, NEW l, l = LogicalTokens(st, budget),
         NEW p, p = PhysicalTokens(st, l), NEW h, NEW item, item = WorkItem(h, l, p)
  PROVE  ItemOk(item, st) /\ l \in Nat /\ p \in Nat
<1>1. PICK r, len, lo, ph : r = st.request /\ len = Len(Prompt(st)) /\ lo = st.logical /\ ph = st.physical
  OBVIOUS
<1>2. /\ r \in Requests /\ len \in Nat /\ lo \in Nat /\ lo < len /\ ph = lo /\ len = Len(PromptOf[r])
  BY <1>1, Config DEF Progress, Prompt
<1>3. PICK left \in Nat \ {0} : left = len - lo
  BY <1>2
<1>4. PICK cut : cut = Smaller(budget, left)
  OBVIOUS
<1>5. cut \in Nat \ {0} /\ cut <= left
  BY <1>4, SmallerIs
<1>6. PICK mark : mark = PREFIX_CACHE_CHECKPOINT_TOKENS - (ph % PREFIX_CACHE_CHECKPOINT_TOKENS)
  OBVIOUS
<1>7. mark \in Nat \ {0}
  <2>1. PREFIX_CACHE_CHECKPOINT_TOKENS \in Nat \ {0}
    BY Config
  <2>2. ph % PREFIX_CACHE_CHECKPOINT_TOKENS \in 0 .. PREFIX_CACHE_CHECKPOINT_TOKENS - 1
    BY <1>2, <2>1
  <2> QED
    BY <1>6, <2>1, <2>2
<1>8. l = IF ScopeOf[r] = "none" THEN cut
          ELSE IF CommitPending(st) /\ ph < PrefixOf[r] THEN Smaller(cut, PrefixOf[r] - ph)
          ELSE IF ~InSession(r) THEN Smaller(cut, mark)
          ELSE cut
  BY <1>1, <1>2, <1>3, <1>4, <1>6 DEF LogicalTokens
<1>9. InSession(r) => PrefixOf[r] \in Nat /\ ScopeOf[r] # "none"
  BY <1>2, Config
<1>10. /\ l \in Nat \ {0} /\ l <= left
       /\ InSession(r) /\ CommitOf[r] /\ st.committed = NoGeneration /\ ph < PrefixOf[r]
            => ph + l <= PrefixOf[r]
  <2>1. CASE CommitPending(st) /\ ph < PrefixOf[r] /\ ScopeOf[r] # "none"
    <3>1. InSession(r)
      BY <1>1, <2>1 DEF CommitPending
    <3>2. PICK more \in Nat \ {0} : more = PrefixOf[r] - ph
      BY <1>2, <1>9, <2>1, <3>1
    <3>3. l = Smaller(cut, more)
      BY <1>8, <2>1, <3>2
    <3>4. l \in Nat \ {0} /\ l <= cut /\ l <= more
      BY <1>5, <3>3, SmallerIs
    <3> QED
      BY <1>2, <1>3, <1>5, <1>9, <3>1, <3>2, <3>4, SMTT(30)
  <2>2. CASE ~(CommitPending(st) /\ ph < PrefixOf[r] /\ ScopeOf[r] # "none")
    <3>1. l = cut \/ l = Smaller(cut, mark)
      BY <1>8, <2>2
    <3>2. l \in Nat \ {0} /\ l <= left
      <4>1. PICK x : x = Smaller(cut, mark)
        OBVIOUS
      <4>2. x \in Nat \ {0} /\ x <= cut
        BY ONLY <1>5, <1>7, <4>1, SmallerIs
      <4> QED
        BY <1>5, <3>1, <4>1, <4>2
    <3>3. ~(InSession(r) /\ CommitOf[r] /\ st.committed = NoGeneration /\ ph < PrefixOf[r])
      BY <1>1, <1>9, <2>2 DEF CommitPending
    <3> QED
      BY <3>2, <3>3
  <2> QED
    BY <2>1, <2>2
<1>11. p = (IF l = left THEN l - 1 ELSE l)
  BY <1>1, <1>2, <1>3 DEF PhysicalTokens
<1>12. item.logical = l /\ item.physical = p
  BY WorkParts
<1>13. l \in Nat /\ p \in Nat
  BY <1>10, <1>11
<1>14. ItemOk(item, st)
  <2>1. item.logical \in 1 .. left
    BY <1>3, <1>10, <1>12
  <2> QED
    BY <1>1, <1>3, <1>10, <1>11, <1>12, <2>1 DEF ItemOk
<1> QED
  BY <1>13, <1>14

-----------------------------------------------------------------------------
\* A sequence that is still being prefilled.
LEMMA PrefillState ==
  ASSUME RuntimeConfig, NEW st, Progress(st), st.logical < Len(Prompt(st))
  PROVE  /\ st.request \in Requests /\ Prompt(st) = PromptOf[st.request] /\ Prompt(st) \in Seq(Tokens)
         /\ Len(Prompt(st)) \in Nat /\ TokensOf(st) = Prompt(st) /\ st.physical = st.logical
         /\ st.n_past = st.physical /\ st.logical \in Nat /\ st.sampled = <<>> /\ ~st.terminal
<1>1. st.request \in Requests /\ Prompt(st) = PromptOf[st.request]
  BY DEF Progress, Prompt
<1>2. Prompt(st) \in Seq(Tokens) /\ Len(Prompt(st)) \in Nat
  BY <1>1, Config
<1>3. PICK prompt, len : prompt = Prompt(st) /\ len = Len(Prompt(st))
  OBVIOUS
<1>4. st.sampled = <<>> /\ ~st.terminal /\ st.physical = st.logical
      /\ st.n_past = st.physical + Len(st.sampled) /\ st.logical \in 0 .. len
  BY <1>3 DEF Progress
<1>5. prompt \o <<>> = prompt /\ Len(<<>>) = 0
  BY <1>2, <1>3, ConcatEmptySeq, EmptySeq
<1>6. st.logical \in Nat
  BY <1>2, <1>3, <1>4
<1>7. st.n_past = st.physical
  BY <1>4, <1>5, <1>6
<1>8. TokensOf(st) = Prompt(st)
  BY <1>3, <1>4, <1>5 DEF TokensOf
<1> QED
  BY <1>1, <1>2, <1>4, <1>6, <1>7, <1>8

LEMMA ItemCounts ==
  ASSUME RuntimeConfig, NEW st, Progress(st), st.logical < Len(Prompt(st)), NEW item, ItemOk(item, st)
  PROVE  /\ item.logical \in 1 .. Len(Prompt(st)) - st.logical /\ item.physical \in Nat
         /\ item.physical <= item.logical
         /\ item.physical = (IF item.logical = Len(Prompt(st)) - st.logical
                             THEN item.logical - 1 ELSE item.logical)
<1>1. PICK len \in Nat, lo \in Nat : len = Len(Prompt(st)) /\ lo = st.logical /\ lo < len
  BY PrefillState
<1>2. PICK left \in Nat : left = len - lo
  BY <1>1
<1>3. item.logical \in 1 .. left /\ item.physical = (IF item.logical = left THEN item.logical - 1 ELSE item.logical)
  BY <1>1, <1>2 DEF ItemOk
<1> QED
  BY <1>1, <1>2, <1>3

\* Feeding a chunk makes llama.cpp's memory remember it.
LEMMA FeedsPrompt ==
  ASSUME RuntimeConfig, NEW st, Progress(st), st.logical < Len(Prompt(st)),
         NEW item, ItemOk(item, st), NEW memory, Remembers(st, memory, 0),
         NEW more, more = memory \o SubSeq(PromptOf[st.request], st.physical + 1,
                                           st.physical + item.physical)
  PROVE  Remembers(st, more, item.physical)
<1>1. PICK t, n, m : t = Prompt(st) /\ n = st.physical /\ m = st.physical + item.physical
  OBVIOUS
<1>2. /\ t \in Seq(Tokens) /\ Len(t) \in Nat /\ TokensOf(st) = t /\ n = st.logical
      /\ st.n_past = n /\ n \in Nat /\ PromptOf[st.request] = t
  BY <1>1, PrefillState, Zenon
<1>3. item.logical \in 1 .. Len(t) - n /\ item.physical \in Nat /\ item.physical <= item.logical
  BY <1>1, <1>2, ItemCounts
<1>4. n \in 0 .. Len(t) /\ m \in n .. Len(t) /\ st.n_past + item.physical = m /\ st.n_past + 0 = n
  <2>1. PICK len, il, ip, np : len = Len(t) /\ il = item.logical /\ ip = item.physical /\ np = st.n_past
    OBVIOUS
  <2>2. len \in Nat /\ n \in Nat /\ np = n /\ il \in 1 .. len - n /\ ip \in Nat /\ ip <= il /\ m = n + ip
    BY ONLY <1>1, <1>2, <1>3, <2>1
  <2>3. n \in 0 .. len /\ m \in n .. len /\ np + ip = m /\ np + 0 = n
    BY ONLY <2>2
  <2> QED
    BY ONLY <2>1, <2>3
<1>5. memory = SubSeq(t, 1, n)
  BY <1>2, <1>4 DEF Remembers
<1>6. SubSeq(t, 1, n) \o SubSeq(t, n + 1, m) = SubSeq(t, 1, m)
  BY ONLY <1>2, <1>4, FrontMore
<1>7. more = SubSeq(t, 1, m)
  BY <1>1, <1>2, <1>5, <1>6, Zenon
<1> QED
  BY <1>2, <1>4, <1>7, Zenon DEF Remembers

\* How far the memory of a prefilled sequence is ahead.
LEMMA AheadOf ==
  ASSUME NEW steps, NEW work, \A i, j \in DOMAIN work : work[i].handle = work[j].handle => i = j,
         NEW c, c = PrefillCommand(steps, work)
  PROVE  /\ \A i \in DOMAIN work : Ahead(c, work[i].handle) = work[i].physical
         /\ \A h : (\A i \in DOMAIN work : work[i].handle # h) => Ahead(c, h) = 0
<1>1. /\ c.type = "prefill" /\ c.work = work /\ Pending(c) = {work[i].handle : i \in DOMAIN work}
  BY PrefillParts
<1>2. ASSUME NEW i \in DOMAIN work PROVE Ahead(c, work[i].handle) = work[i].physical
  <2>1. PICK h : h = work[i].handle
    OBVIOUS
  <2>2. (CHOOSE j \in DOMAIN work : work[j].handle = h) = i
    BY <2>1
  <2>3. ItemOf(c, h) = work[i]
    BY <1>1, <2>2, Zenon DEF ItemOf
  <2>4. h \in Pending(c)
    BY <1>1, <2>1
  <2> QED
    BY <1>1, <2>1, <2>3, <2>4 DEF Ahead
<1>3. ASSUME NEW h, \A i \in DOMAIN work : work[i].handle # h PROVE Ahead(c, h) = 0
  BY <1>1, <1>3 DEF Ahead
<1> QED
  BY <1>2, <1>3

-----------------------------------------------------------------------------
\* What a batch of the client is.
LEMMA BatchIs ==
  ASSUME NEW steps \in PrefillBatches
  PROVE  /\ steps \in Seq(DOMAIN held) /\ steps # <<>> /\ Range(steps) # {}
         /\ DOMAIN steps = 1 .. Len(steps) /\ Len(steps) \in Nat
         /\ \A i \in DOMAIN steps : steps[i] \in Range(steps)
         /\ \A h \in Range(steps) : h \in DOMAIN held /\ held[h].mode = "prefill"
         /\ \A i, j \in DOMAIN steps : steps[i] = steps[j] => i = j
<1>1. PICK n \in 1 .. max_sequences : steps \in [1 .. n -> Able("prefill")]
  BY DEF PrefillBatches
<1>2. n \in Nat /\ 1 \in 1 .. n
  BY <1>1, SlotsAreSlots
<1>3. steps \in Seq(Able("prefill"))
  BY <1>1, <1>2, SeqDef
<1>4. Able("prefill") \subseteq DOMAIN held /\ \A h \in Able("prefill") : held[h].mode = "prefill"
  BY DEF Able
<1>5. DOMAIN steps = 1 .. n /\ \A i \in DOMAIN steps : steps[i] \in Able("prefill")
  BY <1>1
<1>6. steps \in [1 .. n -> DOMAIN held]
  BY <1>1, <1>4
<1>7. steps \in Seq(DOMAIN held)
  BY <1>2, <1>6, SeqDef
<1>8. /\ Range(steps) \subseteq Able("prefill") /\ \A i \in DOMAIN steps : steps[i] \in Range(steps)
      /\ DOMAIN steps = 1 .. Len(steps) /\ Len(steps) \in Nat
  BY <1>3, RangeIs
<1>9. 1 \in DOMAIN steps
  BY <1>2, <1>5
<1>10. steps # <<>>
  BY <1>9
<1>11. \A i, j \in DOMAIN steps : steps[i] = steps[j] => i = j
  BY DEF PrefillBatches, IsInjective
<1> QED
  BY <1>4, <1>7, <1>8, <1>9, <1>10, <1>11, Zenon

\* llama.cpp's memory after a batch was fed.
Fed(s, st, item) == kv[s] \o SubSeq(PromptOf[st.request], st.physical + 1,
                                    st.physical + item.physical)

LEMMA DecodedIs ==
  ASSUME NEW work, DOMAIN work \in SUBSET Nat,
         \A i, j \in DOMAIN work : work[i].handle.slot = work[j].handle.slot => i = j,
         NEW m1, m1 = Decoded(work)
  PROVE  /\ m1 = [s \in Slots |-> m1[s]]
         /\ \A i \in DOMAIN work : work[i].handle.slot \in Slots =>
               m1[work[i].handle.slot] = Fed(work[i].handle.slot, states[work[i].handle.slot], work[i])
         /\ \A s \in Slots : (\A i \in DOMAIN work : work[i].handle.slot # s) => m1[s] = kv[s]
<1> DEFINE items(s) == {i \in DOMAIN work : work[i].handle.slot = s}
<1>1. m1 = [s \in Slots |-> IF items(s) = {} THEN kv[s] ELSE Fed(s, states[s], work[Min(items(s))])]
  BY Zenon DEF Decoded, Fed
<1>2. m1 = [s \in Slots |-> m1[s]]
  BY <1>1
<1>3. ASSUME NEW i \in DOMAIN work, work[i].handle.slot \in Slots
      PROVE  m1[work[i].handle.slot] = Fed(work[i].handle.slot, states[work[i].handle.slot], work[i])
  <2>1. PICK s : s = work[i].handle.slot
    OBVIOUS
  <2>2. items(s) = {i}
    BY <2>1
  <2>3. {i} \in SUBSET Nat /\ {i} # {}
    OBVIOUS
  <2>4. Min({i}) = i
    BY ONLY <2>3, MinIn
  <2>5. m1[s] = IF items(s) = {} THEN kv[s] ELSE Fed(s, states[s], work[Min(items(s))])
    BY <1>1, <1>3, <2>1, Zenon
  <2> HIDE DEF items
  <2>6. m1[s] = Fed(s, states[s], work[i])
    BY <2>2, <2>4, <2>5
  <2> QED
    BY <2>1, <2>6
<1>4. ASSUME NEW s \in Slots, \A i \in DOMAIN work : work[i].handle.slot # s
      PROVE  m1[s] = kv[s]
  <2>1. items(s) = {}
    BY <1>4
  <2> HIDE DEF items
  <2> QED
    BY <1>1, <2>1
<1> QED
  BY <1>2, <1>3, <1>4

-----------------------------------------------------------------------------
\* The work of a batch: a chunk of each of its sequences.
WorkOf(steps, budget) ==
  [i \in DOMAIN steps |->
     WorkItem(steps[i], LogicalTokens(states[steps[i].slot], budget),
              PhysicalTokens(states[steps[i].slot], LogicalTokens(states[steps[i].slot], budget)))]

LEMMA PrefillBatchIs ==
  ASSUME NEW steps, NEW budget, PrefillBatch(steps, budget)
  PROVE  /\ cmd = Idle /\ budget > 0
         /\ engine' = engine /\ states' = states /\ cache' = cache /\ invalid' = invalid
         /\ \/ /\ \A i \in DOMAIN steps : Steppable(steps[i], "prefill")
               /\ cmd' = PrefillCommand(steps, WorkOf(steps, budget))
               /\ kv' = Decoded(WorkOf(steps, budget)) /\ held' = held
            \/ cmd' = Idle /\ held' = DoomedIn(held, Range(steps)) /\ kv' = kv
<1>1. PICK work : work = WorkOf(steps, budget)
  OBVIOUS
<1>2. PICK ok \in BOOLEAN : ok <=> \A i \in DOMAIN steps : Steppable(steps[i], "prefill")
  BY Zenon
<1>3. /\ cmd = Idle /\ budget > 0
      /\ engine' = engine /\ states' = states /\ cache' = cache /\ invalid' = invalid
      /\ IF ok
         THEN /\ cmd' = [type |-> "prefill", steps |-> steps, work |-> work]
              /\ kv' = Decoded(work) /\ held' = held
         ELSE ReplyError(steps) /\ kv' = kv
  BY <1>1, <1>2 DEF PrefillBatch, WorkOf, WorkItem
<1>4. ~ok => cmd' = Idle /\ held' = DoomedIn(held, Range(steps)) /\ kv' = kv
  BY <1>3 DEF ReplyError, Doomed, DoomedIn
<1>5. ok => /\ cmd' = PrefillCommand(steps, work)
            /\ kv' = Decoded(work) /\ held' = held
  BY <1>3 DEF PrefillCommand
<1> QED
  BY <1>1, <1>2, <1>3, <1>4, <1>5, Zenon

\* A sequence a batch may name still has a chunk to feed.
LEMMA Feedable ==
  ASSUME NEW e, NEW sts, NEW m, NEW c, NEW hd, InvOf(e, sts, m, c, Idle, hd),
         NEW h \in DOMAIN hd, hd[h].mode = "prefill"
  PROVE  /\ NoteShape(hd[h]) /\ Alive(hd[h], sts[h.slot], m[h.slot], 0, <<>>)
         /\ sts[h.slot].logical < Len(Prompt(sts[h.slot])) /\ Progress(sts[h.slot])
         /\ h.slot \in LiveSlots(e) /\ h.slot \in Slots
<1>1. HandleOk(h, sts, m, Idle, hd) /\ SlotsAgree(e, sts, hd)
  BY DEF InvOf
<1>2. Ahead(Idle, h) = 0 /\ TextOf(Idle, h) = <<>> /\ h \notin Stepped(Idle)
  BY IdleParts
<1>3. NoteShape(hd[h]) /\ Alive(hd[h], sts[h.slot], m[h.slot], 0, <<>>) /\ Resting(hd[h], sts[h.slot])
  BY <1>1, <1>2, HandleOkIs
<1>4. Progress(sts[h.slot]) /\ h.slot \in LiveSlots(e) /\ h.slot \in Slots
  BY <1>1, HandleSlot
<1> QED
  BY <1>3, <1>4 DEF Resting

LEMMA WorkOk ==
  ASSUME RuntimeConfig, InvOf(engine, states, kv, cache, Idle, held),
         NEW steps \in PrefillBatches, NEW budget \in Nat \ {0},
         NEW work, work = WorkOf(steps, budget)
  PROVE  /\ PrefillOk(steps, work, states, held) /\ DOMAIN work = DOMAIN steps
         /\ \A i \in DOMAIN work : work[i].handle = steps[i]
         /\ \A i, j \in DOMAIN work : work[i].handle.slot = work[j].handle.slot => i = j
<1>1. /\ steps \in Seq(DOMAIN held) /\ steps # <<>> /\ Range(steps) # {}
      /\ DOMAIN steps = 1 .. Len(steps) /\ Len(steps) \in Nat
      /\ \A i \in DOMAIN steps : steps[i] \in Range(steps)
      /\ \A h \in Range(steps) : h \in DOMAIN held /\ held[h].mode = "prefill"
      /\ \A i, j \in DOMAIN steps : steps[i] = steps[j] => i = j
  BY BatchIs
<1>2. DOMAIN work = DOMAIN steps
  BY DEF WorkOf
<1>3. ASSUME NEW i \in DOMAIN steps
      PROVE  /\ ItemOk(work[i], states[steps[i].slot]) /\ work[i].handle = steps[i]
             /\ work[i] \in [handle : Range(steps), logical : Nat, physical : Nat]
  <2>1. PICK h, st, l, p, item :
          /\ h = steps[i] /\ st = states[h.slot] /\ l = LogicalTokens(st, budget)
          /\ p = PhysicalTokens(st, l) /\ item = WorkItem(h, l, p)
    OBVIOUS
  <2>2. work[i] = item
    BY <2>1 DEF WorkOf
  <2>3. h \in Range(steps) /\ h \in DOMAIN held /\ held[h].mode = "prefill"
    BY <1>1, <2>1
  <2>4. Progress(st) /\ st.logical < Len(Prompt(st))
    BY <2>1, <2>3, Feedable
  <2>5. ItemOk(item, st) /\ l \in Nat /\ p \in Nat
    BY <2>1, <2>4, ChunkOk
  <2>6. item.handle = h /\ item \in [handle : Range(steps), logical : Nat, physical : Nat]
    BY <2>1, <2>3, <2>5, WorkParts
  <2> QED
    BY <2>1, <2>2, <2>5, <2>6
<1>4. work \in Seq([handle : Range(steps), logical : Nat, physical : Nat])
  <2>1. PICK S : S = [handle : Range(steps), logical : Nat, physical : Nat]
    OBVIOUS
  <2>2. work = [i \in 1 .. Len(steps) |-> work[i]]
    BY <1>1, <1>2 DEF WorkOf
  <2>3. \A i \in 1 .. Len(steps) : work[i] \in S
    BY <1>1, <1>3, <2>1
  <2>4. work \in [1 .. Len(steps) -> S]
    BY <2>2, <2>3
  <2>5. PICK n \in Nat : n = Len(steps)
    BY <1>1, Zenon
  <2>6. work \in [1 .. n -> S]
    BY <2>4, <2>5
  <2>7. work \in Seq(S)
    BY ONLY <2>6, n \in Nat, SeqDef
  <2> QED
    BY ONLY <2>1, <2>7
<1>5. work # <<>>
  <2>1. Len(steps) \in Nat \ {0}
    BY <1>1, EmptySeq
  <2>2. 1 \in DOMAIN work
    BY <1>1, <1>2, <2>1
  <2> QED
    BY <2>2
<1>6. \A i \in DOMAIN work : ItemOk(work[i], states[work[i].handle.slot])
  BY <1>2, <1>3
<1>7. \A i, j \in DOMAIN work : work[i].handle = work[j].handle => i = j
  BY <1>1, <1>2, <1>3
<1>8. \A h \in Range(steps) : ~states[h.slot].terminal
  <2> TAKE h \in Range(steps)
  <2>1. Progress(states[h.slot]) /\ states[h.slot].logical < Len(Prompt(states[h.slot]))
    BY <1>1, Feedable
  <2> QED
    BY <2>1 DEF Progress
<1>9. PrefillOk(steps, work, states, held)
  BY <1>1, <1>4, <1>5, <1>6, <1>7, <1>8 DEF PrefillOk
<1>10. ASSUME NEW i \in DOMAIN work, NEW j \in DOMAIN work, work[i].handle.slot = work[j].handle.slot
       PROVE  i = j
  <2>1. steps[i] \in DOMAIN held /\ steps[j] \in DOMAIN held /\ steps[i].slot = steps[j].slot
    BY <1>1, <1>2, <1>3, <1>10
  <2>2. SlotsAgree(engine, states, held)
    BY DEF InvOf
  <2>3. steps[i] = steps[j]
    BY <2>1, <2>2, SameSlot
  <2> QED
    BY <1>1, <1>2, <2>3
<1> QED
  BY <1>2, <1>3, <1>9, <1>10

-----------------------------------------------------------------------------
\* prefill_batch: llama.cpp has decoded the chunks, or the batch was refused.
LEMMA PrefillBatchOk ==
  ASSUME RuntimeConfig, ~invalid, InvOf(engine, states, kv, cache, cmd, held),
         NEW steps \in PrefillBatches, PrefillBatch(steps, Share(prefill_chunk_tokens, steps))
  PROVE  ~invalid' /\ InvOf(engine', states', kv', cache', cmd', held')
<1>1. PICK budget : budget = Share(prefill_chunk_tokens, steps)
  OBVIOUS
<1>2. PICK work : work = WorkOf(steps, budget)
  OBVIOUS
<1>3. /\ cmd = Idle /\ budget > 0
      /\ engine' = engine /\ states' = states /\ cache' = cache /\ invalid' = invalid
      /\ \/ cmd' = PrefillCommand(steps, work) /\ kv' = Decoded(work) /\ held' = held
         \/ cmd' = Idle /\ held' = DoomedIn(held, Range(steps)) /\ kv' = kv
  BY <1>1, <1>2, PrefillBatchIs
<1>4. budget \in Nat \ {0}
  <2>1. steps \in Seq(DOMAIN held) /\ steps # <<>>
    BY BatchIs
  <2>2. prefill_chunk_tokens \in Nat
    BY DEF RuntimeConfig
  <2>3. budget \in Nat
    BY <1>1, <2>1, <2>2, ShareIs
  <2> QED
    BY <1>3, <2>3
<1>5. InvOf(engine, states, kv, cache, Idle, held)
  BY <1>3
<1>6. CASE cmd' = Idle /\ held' = DoomedIn(held, Range(steps)) /\ kv' = kv
  <2>1. PICK hd1 : hd1 = DoomedIn(held, Range(steps))
    OBVIOUS
  <2>2. Stepped(Idle) \subseteq Range(steps)
    BY IdleParts
  <2>3. InvOf(engine, states, kv, cache, Idle, hd1)
    BY <1>5, <2>1, <2>2, ErrorKeeps
  <2> QED
    BY <1>3, <1>6, <2>1, <2>3
<1>7. CASE cmd' = PrefillCommand(steps, work) /\ kv' = Decoded(work) /\ held' = held
  <2>1. PICK e, sts, m, hd, c, m1 :
          /\ e = engine /\ sts = states /\ m = kv /\ hd = held
          /\ c = PrefillCommand(steps, work) /\ m1 = Decoded(work)
    OBVIOUS
  <2>2. /\ PrefillOk(steps, work, sts, hd) /\ DOMAIN work = DOMAIN steps
        /\ \A i \in DOMAIN work : work[i].handle = steps[i]
        /\ \A i, j \in DOMAIN work : work[i].handle.slot = work[j].handle.slot => i = j
    BY <1>2, <1>4, <1>5, <2>1, WorkOk
  <2>3. /\ DOMAIN steps \in SUBSET Nat /\ \A i \in DOMAIN steps : steps[i] \in Range(steps)
        /\ \A h \in Range(steps) : h \in DOMAIN hd /\ hd[h].mode = "prefill"
    BY <2>1, BatchIs
  <2>4. /\ m1 = [s \in Slots |-> m1[s]]
        /\ \A i \in DOMAIN work : work[i].handle.slot \in Slots =>
               m1[work[i].handle.slot] = Fed(work[i].handle.slot, sts[work[i].handle.slot], work[i])
        /\ \A s \in Slots : (\A i \in DOMAIN work : work[i].handle.slot # s) => m1[s] = m[s]
    BY <2>1, <2>2, <2>3, DecodedIs
  <2>5. InvOf(e, sts, m, cache, Idle, hd)
    BY <1>5, <2>1
  <2>6. /\ Books(e) /\ SlotsAgree(e, sts, hd) /\ MemoryOk(e, m) /\ CacheOk(cache)
        /\ \A h \in DOMAIN hd : HandleOk(h, sts, m, Idle, hd)
    BY <2>5 DEF InvOf
  <2>7. /\ Stepped(c) = Range(steps) /\ \A h : TextOf(c, h) = <<>>
    BY <2>1, PrefillParts
  <2>8. /\ \A i \in DOMAIN work : Ahead(c, work[i].handle) = work[i].physical
        /\ \A h : (\A i \in DOMAIN work : work[i].handle # h) => Ahead(c, h) = 0
    <3>1. \A i, j \in DOMAIN work : work[i].handle = work[j].handle => i = j
      BY <2>2
    <3> QED
      BY <2>1, <3>1, AheadOf
  <2>9. ASSUME NEW i \in DOMAIN work
        PROVE  /\ work[i].handle \in DOMAIN hd /\ work[i].handle.slot \in LiveSlots(e)
               /\ HandleOk(work[i].handle, sts, m1, c, hd)
    <3>1. PICK h, s, st, note, item :
            h = work[i].handle /\ s = h.slot /\ st = sts[s] /\ note = hd[h] /\ item = work[i]
      OBVIOUS
    <3>2. h \in Range(steps) /\ h \in DOMAIN hd /\ note.mode = "prefill"
      BY <2>2, <2>3, <3>1
    <3>3. /\ NoteShape(note) /\ Alive(note, st, m[s], 0, <<>>)
          /\ st.logical < Len(Prompt(st)) /\ Progress(st) /\ s \in LiveSlots(e) /\ s \in Slots
      BY <2>5, <3>1, <3>2, Feedable
    <3>4. ItemOk(item, st)
      BY <2>2, <3>1 DEF PrefillOk
    <3>5. m1[s] = Fed(s, st, item)
      BY <2>4, <3>1, <3>3
    <3>6. m1[s] = m[s] \o SubSeq(PromptOf[st.request], st.physical + 1, st.physical + item.physical)
      BY <2>1, <3>5 DEF Fed
    <3>7. Remembers(st, m[s], 0) /\ Told(note, st, <<>>)
      BY <3>3 DEF Alive
    <3>8. Remembers(st, m1[s], item.physical)
      BY ONLY RuntimeConfig, <3>3, <3>4, <3>6, <3>7, FeedsPrompt
    <3>9. Ahead(c, h) = item.physical /\ TextOf(c, h) = <<>> /\ h \in Stepped(c)
      BY <2>7, <2>8, <3>1, <3>2
    <3>10. Alive(note, st, m1[s], Ahead(c, h), TextOf(c, h))
      BY <3>7, <3>8, <3>9 DEF Alive
    <3>11. HandleOk(h, sts, m1, c, hd)
      BY <3>1, <3>3, <3>9, <3>10, HandleOkIs
    <3> QED
      BY <3>1, <3>2, <3>3, <3>11
  <2>10. ASSUME NEW h \in DOMAIN hd, \A i \in DOMAIN work : work[i].handle # h
         PROVE  HandleOk(h, sts, m1, c, hd)
    <3>1. \A i \in DOMAIN work : work[i].handle.slot # h.slot
      BY <2>6, <2>9, <2>10, SameSlot
    <3>2. h.slot \in Slots
      BY <2>6, HandleSlot
    <3>3. m1[h.slot] = m[h.slot]
      BY <2>4, <3>1, <3>2
    <3>4. h \notin Stepped(c) /\ Ahead(c, h) = 0 /\ TextOf(c, h) = <<>>
      <4>1. h \notin Range(steps)
        BY <2>2, <2>3, <2>10 DEF Range
      <4> QED
        BY <2>7, <2>8, <2>10, <4>1
    <3>5. /\ HandleOk(h, sts, m, Idle, hd) /\ h \notin Stepped(Idle)
          /\ Ahead(Idle, h) = 0 /\ TextOf(Idle, h) = <<>>
      BY <2>6, IdleParts
    <3> QED
      BY <3>3, <3>4, <3>5, HandleKept
  <2>11. \A h \in DOMAIN hd : HandleOk(h, sts, m1, c, hd)
    BY <2>9, <2>10
  <2>12. MemoryOk(e, m1)
    <3>1. ASSUME NEW s \in Slots \ LiveSlots(e) PROVE m1[s] = <<>>
      BY <2>4, <2>6, <2>9, <3>1 DEF MemoryOk
    <3> QED
      BY <2>4, <3>1 DEF MemoryOk
  <2>13. CommandOk(c, sts, hd)
    <3>1. c.steps = steps /\ c.work = work
      BY <2>1, PrefillParts
    <3>2. c = PrefillCommand(c.steps, c.work) /\ PrefillOk(c.steps, c.work, sts, hd)
      BY <2>1, <2>2, <3>1
    <3> QED
      BY <3>2, CommandIs
  <2>14. InvOf(e, sts, m1, cache, c, hd)
    BY <2>6, <2>11, <2>12, <2>13 DEF InvOf
  <2> QED
    BY <1>3, <1>7, <2>1, <2>14
<1> QED
  BY <1>3, <1>6, <1>7, Zenon

\* llama_decode failed: the client is told to give the batch up.
LEMMA PrefillFailsOk ==
  ASSUME RuntimeConfig, ~invalid, InvOf(engine, states, kv, cache, cmd, held), PrefillFails
  PROVE  ~invalid' /\ InvOf(engine', states', kv', cache', cmd', held')
<1>1. PICK c, hd1 : c = cmd /\ hd1 = DoomedIn(held, Range(cmd.steps))
  OBVIOUS
<1>2. /\ c.type = "prefill" /\ cmd' = Idle /\ held' = hd1 /\ engine' = engine /\ states' = states
      /\ kv' = kv /\ cache' = cache /\ invalid' = invalid
  BY <1>1 DEF PrefillFails, ReplyError, Doomed, DoomedIn
<1>3. Stepped(c) = Range(c.steps)
  BY <1>2, IdleParts DEF Stepped
<1>4. InvOf(engine, states, kv, cache, c, held) /\ hd1 = DoomedIn(held, Range(c.steps))
  BY <1>1
<1>5. InvOf(engine, states, kv, cache, Idle, hd1)
  BY <1>3, <1>4, ErrorKeeps
<1> QED
  BY <1>2, <1>5

-----------------------------------------------------------------------------
\* One sequence moves on, and its slot with it.
MovedSlots(f, sts, sts1, hd, hd1, h, n) ==
  /\ SlotsAgree(f, sts1, hd1) /\ sts1[h.slot] = n
  /\ \A g \in DOMAIN hd \ {h} : sts1[g.slot] = sts[g.slot] /\ g.slot # h.slot

LEMMA SequenceMoves ==
  ASSUME NEW e, NEW sts, NEW hd, SlotsAgree(e, sts, hd), NEW h \in DOMAIN hd,
         NEW f, LiveSlots(f) = LiveSlots(e), OnlySlot(e, f, h.slot),
         NEW n, SequenceIn(f.slots[h.slot], n, h.slot), n.internal = h,
         NEW sts1, sts1 = Put(sts, h.slot, n), NEW hd1, DOMAIN hd1 = DOMAIN hd
  PROVE  MovedSlots(f, sts, sts1, hd, hd1, h, n)
<1>1. PICK s : s = h.slot
  OBVIOUS
<1>2. s \in Slots /\ s \in LiveSlots(e) /\ sts[s].internal = h
  BY <1>1, HandleSlot
<1>3. /\ sts = [t \in Slots |-> sts[t]] /\ sts1 = [t \in Slots |-> sts1[t]]
      /\ sts1[s] = n /\ \A t \in Slots \ {s} : sts1[t] = sts[t]
  BY <1>1, <1>2 DEF SlotsAgree, Put
<1>4. ASSUME NEW t \in Slots
      PROVE  IF t \in LiveSlots(f)
             THEN /\ sts1[t] # NoState /\ StateShape(sts1[t]) /\ Fills(f.slots[t], sts1[t], t)
                  /\ Progress(sts1[t]) /\ Spoken(sts1[t])
             ELSE sts1[t] = NoState
  <2>1. CASE t = s
    BY <1>1, <1>2, <1>3, <2>1 DEF SequenceIn
  <2>2. CASE t # s
    <3>1. f.slots[t] = e.slots[t] /\ sts1[t] = sts[t]
      BY <1>1, <1>3, <2>2 DEF OnlySlot
    <3> QED
      BY <3>1 DEF SlotsAgree
  <2> QED
    BY <2>1, <2>2
<1>5. DOMAIN hd1 = {sts1[t].internal : t \in LiveSlots(f)}
  <2>1. \A t \in LiveSlots(f) : sts1[t].internal = sts[t].internal
    BY <1>2, <1>3 DEF LiveSlots
  <2>2. DOMAIN hd = {sts[t].internal : t \in LiveSlots(e)}
    BY DEF SlotsAgree
  <2> QED
    BY <2>1, <2>2
<1>6. \A g \in DOMAIN hd \ {h} : sts1[g.slot] = sts[g.slot] /\ g.slot # h.slot
  <2> TAKE g \in DOMAIN hd \ {h}
  <2>1. g.slot \in Slots /\ g.slot # h.slot
    BY HandleSlot, SameSlot
  <2> QED
    BY <1>1, <1>3, <2>1
<1>7. SlotsAgree(f, sts1, hd1)
  BY <1>3, <1>4, <1>5, Zenon DEF SlotsAgree
<1> QED
  BY <1>1, <1>3, <1>6, <1>7, Zenon DEF MovedSlots

\* A chunk is counted, and what was committed with it.
Booked(st, item) ==
  [st EXCEPT !.physical = st.physical + item.physical, !.n_past = st.physical + item.physical,
             !.logical = @ + item.logical]

Committed(st, g) == [st EXCEPT !.committed = g]

\* What is counted changes nothing else.
LEMMA BookedParts ==
  ASSUME NEW st, StateShape(st), NEW item, NEW mid, mid = Booked(st, item)
  PROVE  mid.internal = st.internal /\ mid.request = st.request /\ mid.parent = st.parent
         /\ mid.physical = st.physical + item.physical /\ mid.committed = st.committed
<1>1. PICK i, r, pa, lo, ph, n, ca, pe, co, fp, cm, u, fb, sa, te, fa :
        st = State(i, r, pa, lo, ph, n, ca, pe, co, fp, cm, u, fb, sa, te, fa)
  BY StateIs
<1>2. PICK lo1, ph1 : lo1 = st.logical + item.logical /\ ph1 = st.physical + item.physical
  OBVIOUS
<1>3. /\ st.internal = i /\ st.request = r /\ st.parent = pa /\ st.committed = cm
  BY ONLY <1>1, StateParts
<1>4. mid = [st EXCEPT !.physical = ph1, !.n_past = ph1, !.logical = lo1]
  BY <1>2 DEF Booked
<1>5. mid = State(i, r, pa, lo1, ph1, ph1, ca, pe, co, fp, cm, u, fb, sa, te, fa)
  BY ONLY <1>1, <1>4, Zenon DEF State
<1>6. /\ mid.internal = i /\ mid.request = r /\ mid.parent = pa /\ mid.physical = ph1
      /\ mid.committed = cm
  BY ONLY <1>5, StateParts
<1> QED
  BY ONLY <1>2, <1>3, <1>6

\* What a sequence is made of after it.
LEMMA BookedMakes ==
  ASSUME NEW st, StateShape(st), NEW item, NEW mid, mid = Booked(st, item),
         NEW g, NEW to, to = Committed(mid, g)
  PROVE  to = State(st.internal, st.request, st.parent, st.logical + item.logical,
                    st.physical + item.physical, st.physical + item.physical, st.cached,
                    st.pending, st.phase, st.final_phase, g, st.utf8, st.final_bytes,
                    st.sampled, st.terminal, st.failed)
<1>1. PICK i, r, pa, lo, ph, n, ca, pe, co, fp, cm, u, fb, sa, te, fa :
        st = State(i, r, pa, lo, ph, n, ca, pe, co, fp, cm, u, fb, sa, te, fa)
  BY StateIs
<1>2. PICK lo1, ph1 : lo1 = st.logical + item.logical /\ ph1 = st.physical + item.physical
  OBVIOUS
<1>3. /\ st.internal = i /\ st.request = r /\ st.parent = pa /\ st.logical = lo
      /\ st.physical = ph /\ st.cached = ca /\ st.committed = cm /\ st.pending = pe
      /\ st.phase = co /\ st.final_phase = fp /\ st.utf8 = u /\ st.final_bytes = fb
      /\ st.sampled = sa /\ st.terminal = te /\ st.failed = fa
  BY ONLY <1>1, StateParts
<1>4. mid = [st EXCEPT !.physical = ph1, !.n_past = ph1, !.logical = lo1]
  BY <1>2 DEF Booked
<1>5. mid = State(i, r, pa, lo1, ph1, ph1, ca, pe, co, fp, cm, u, fb, sa, te, fa)
  BY ONLY <1>1, <1>4, Zenon DEF State
<1>6. to = State(i, r, pa, lo1, ph1, ph1, ca, pe, co, fp, g, u, fb, sa, te, fa)
  BY ONLY <1>5, to = Committed(mid, g) DEF State, Committed
<1> QED
  BY <1>2, <1>3, <1>6, Zenon

\* What a sequence is after a chunk.
BookedOk(st, item, to, g) ==
  /\ StateShape(to) /\ Progress(to) /\ Spoken(to)
  /\ to.internal = st.internal /\ to.request = st.request /\ to.committed = g
  /\ to.cached = st.cached /\ to.sampled = <<>> /\ ~to.terminal /\ to.failed = st.failed
  /\ to.utf8 = st.utf8 /\ to.final_bytes = st.final_bytes
  /\ to.logical = st.logical + item.logical
  /\ to.physical = st.physical + item.physical /\ to.n_past = st.n_past + item.physical
  /\ TokensOf(to) = TokensOf(st) /\ Prompt(to) = Prompt(st)

LEMMA BookedState ==
  ASSUME RuntimeConfig, NEW st, StateShape(st), Progress(st), Spoken(st),
         st.logical < Len(Prompt(st)), NEW item, ItemOk(item, st),
         NEW g, NEW to, to = Committed(Booked(st, item), g)
  PROVE  BookedOk(st, item, to, g)
<1>1. PICK i, r, pa, lo, ph, ca, pe, co, fp, u, fb, sa, te, fa :
        /\ i = st.internal /\ r = st.request /\ pa = st.parent /\ lo = st.logical + item.logical
        /\ ph = st.physical + item.physical /\ ca = st.cached /\ pe = st.pending /\ co = st.phase
        /\ fp = st.final_phase /\ u = st.utf8 /\ fb = st.final_bytes /\ sa = st.sampled
        /\ te = st.terminal /\ fa = st.failed
  BY Zenon
<1>2. to = State(i, r, pa, lo, ph, ph, ca, pe, co, fp, g, u, fb, sa, te, fa)
  <2>1. to = State(st.internal, st.request, st.parent, st.logical + item.logical,
                   st.physical + item.physical, st.physical + item.physical, st.cached,
                   st.pending, st.phase, st.final_phase, g, st.utf8, st.final_bytes,
                   st.sampled, st.terminal, st.failed)
    BY ONLY StateShape(st), to = Committed(Booked(st, item), g), BookedMakes
  <2> QED
    BY ONLY <1>1, <2>1, Zenon
<1>3. /\ to.internal = i /\ to.request = r /\ to.logical = lo /\ to.physical = ph
      /\ to.n_past = ph /\ to.cached = ca /\ to.pending = pe /\ to.phase = co
      /\ to.committed = g /\ to.utf8 = u /\ to.final_bytes = fb /\ to.sampled = sa
      /\ to.terminal = te /\ to.failed = fa /\ StateShape(to)
  BY ONLY <1>2, StateParts
<1>4. PICK len, lo0, ph0, il, ip : /\ len = Len(Prompt(st)) /\ lo0 = st.logical /\ ph0 = st.physical
                                   /\ il = item.logical /\ ip = item.physical
  OBVIOUS
<1>5. /\ st.request \in Requests /\ len \in Nat /\ ph0 = lo0 /\ st.n_past = ph0 /\ lo0 \in Nat
      /\ st.sampled = <<>> /\ ~st.terminal
  BY <1>4, PrefillState
<1>6. /\ il \in 1 .. len - lo0 /\ ip \in Nat
      /\ ip = (IF il = len - lo0 THEN il - 1 ELSE il)
  BY <1>4, ItemCounts
<1>7. /\ lo = lo0 + il /\ ph = ph0 + ip /\ lo \in 0 .. len /\ lo0 < len
      /\ ph = (IF lo = len THEN lo - 1 ELSE lo) /\ ph >= ph0 /\ ph \in Nat /\ len > 0
  <2>1. lo = lo0 + il /\ ph = ph0 + ip /\ lo0 < len
    BY <1>1, <1>4
  <2> QED
    BY ONLY <2>1, <1>5, <1>6
<1>8. Prompt(to) = Prompt(st) /\ TokensOf(to) = TokensOf(st) /\ sa = <<>>
  BY <1>1, <1>3, <1>5 DEF Prompt, TokensOf
<1>9. ca \in 0 .. ph0 /\ (~te => pe = Last(TokensOf(st)))
  BY <1>1, <1>4 DEF Progress
<1>10. sa \in Seq(Tokens) /\ Len(sa) = 0
  BY <1>8, EmptySeq
<1>11. Progress(to)
  <2>1. ca \in 0 .. ph
    BY ONLY <1>5, <1>7, <1>9
  <2>2. ph = ph + Len(sa)
    BY ONLY <1>7, <1>10
  <2>3. ~te
    BY <1>1, <1>5
  <2>4. len = Len(Prompt(to)) /\ r \in Requests
    BY <1>1, <1>4, <1>5, <1>8
  <2> QED
    BY <1>3, <1>7, <1>8, <1>9, <1>10, <2>1, <2>2, <2>3, <2>4 DEF Progress
<1>12. Spoken(to)
  <2>1. /\ to.terminal = st.terminal /\ to.failed = st.failed /\ to.final_bytes = st.final_bytes
        /\ to.utf8 = st.utf8 /\ to.phase = st.phase /\ to.sampled = st.sampled
    BY <1>1, <1>3, Zenon
  <2> QED
    BY <2>1 DEF Spoken
<1>13. to.n_past = st.n_past + item.physical
  BY <1>3, <1>4, <1>5, <1>7
<1> QED
  BY <1>1, <1>3, <1>5, <1>8, <1>11, <1>12, <1>13 DEF BookedOk

-----------------------------------------------------------------------------
\* The snapshot that is due: faithful to the memory, and at the session prefix
\* the one that is committed.
SnapshotSound(snap, mid) ==
  /\ CacheOk(snap.cache) /\ snap.generation \in Nat
  /\ InSession(mid.request) =>
       \/ snap.due /\ CommitPending(mid) /\ mid.physical = PrefixOf[mid.request]
       \/ /\ ~snap.due /\ snap.generation = mid.committed
          /\ ~(CommitPending(mid) /\ mid.physical = PrefixOf[mid.request])

Snap(used, due, g, c) == [used |-> used, due |-> due, generation |-> g, cache |-> c]

LEMMA SnapshotOk ==
  ASSUME RuntimeConfig, CacheOk(cache), NEW c, CacheOk(c), NEW mid, NEW r \in Requests,
         mid.request = r, NEW p \in 0 .. Len(PromptOf[r]), mid.physical = p,
         kv[mid.internal.slot] = SubSeq(PromptOf[r], 1, p), mid.committed \in Nat,
         NEW copied, NEW snap, snap = Snapshot(mid, c, copied)
  PROVE  SnapshotSound(snap, mid)
<1>1. /\ Limits /\ PromptOf[r] \in Seq(Tokens) /\ Len(PromptOf[r]) \in Nat
      /\ InSession(r) => PrefixOf[r] \in 1 .. Len(PromptOf[r]) - 1 /\ ScopeOf[r] # "none"
  BY Config
<1>2. PICK tokens : tokens = SubSeq(PromptOf[r], 1, p)
  OBVIOUS
<1>3. tokens \in Seq(Tokens) /\ Len(tokens) = p
  BY <1>1, <1>2, FrontIs
<1>4. PICK stored, kept, due :
        /\ stored = StoreSession(c, ScopeOf[r], SessionOf[r], mid.parent, r,
                                 SubSeq(PromptOf[r], 1, PrefixOf[r]), tokens, copied)
        /\ kept = Store(c, ScopeOf[r], tokens, tokens, copied)
        /\ due = (CommitPending(mid) /\ p = PrefixOf[r])
  BY Zenon
<1>5. snap = IF ScopeOf[r] = "none" THEN Snap(FALSE, FALSE, mid.committed, cache)
             ELSE IF CommitPending(mid) /\ p = PrefixOf[r]
                  THEN Snap(TRUE, TRUE, stored.generation, stored.cache)
             ELSE IF ~InSession(r) /\ p > 0 THEN Snap(TRUE, FALSE, NoGeneration, kept)
             ELSE Snap(FALSE, FALSE, mid.committed, cache)
  BY <1>2, <1>4 DEF Snapshot, Snap
<1>6. CASE snap = Snap(FALSE, FALSE, mid.committed, cache)
           /\ (ScopeOf[r] = "none" \/ ~(CommitPending(mid) /\ p = PrefixOf[r]))
  <2>1. ~snap.due /\ snap.generation = mid.committed /\ snap.cache = cache
    BY ONLY <1>6 DEF Snap
  <2> QED
    BY <1>1, <1>6, <2>1 DEF SnapshotSound
<1>7. CASE /\ snap = Snap(TRUE, TRUE, stored.generation, stored.cache)
           /\ CommitPending(mid) /\ p = PrefixOf[r]
  <2>1. snap.due /\ snap.generation = stored.generation /\ snap.cache = stored.cache
    BY ONLY <1>7 DEF Snap
  <2>2. InSession(r) /\ PrefixOf[r] \in 1 .. Len(PromptOf[r]) - 1
    BY <1>1, <1>7 DEF CommitPending
  <2>3. tokens # <<>>
    BY <1>1, <1>3, <1>7, <2>2, EmptySeq
  <2>4. stored = StoreSession(c, ScopeOf[r], SessionOf[r], mid.parent, r, tokens, tokens, copied)
    BY <1>2, <1>4, <1>7
  <2>5. CacheOk(stored.cache) /\ stored.generation \in Nat
    BY ONLY <1>1, <1>3, <2>3, <2>4, CacheOk(c), StoreSessionOk
  <2> QED
    BY <1>7, <2>1, <2>5 DEF SnapshotSound
<1>8. CASE snap = Snap(TRUE, FALSE, NoGeneration, kept) /\ ~InSession(r) /\ p > 0
  <2>1. snap.generation = NoGeneration /\ snap.cache = kept
    BY ONLY <1>8 DEF Snap
  <2>2. tokens # <<>>
    BY <1>1, <1>3, <1>8, EmptySeq
  <2>3. CacheOk(kept)
    BY ONLY <1>1, <1>3, <1>4, <2>2, CacheOk(c), StoreOk
  <2> QED
    <3>1. NoGeneration \in Nat /\ ~InSession(mid.request)
      BY <1>8 DEF NoGeneration
    <3> QED
      BY ONLY <2>1, <2>3, <3>1 DEF SnapshotSound
<1> QED
  BY <1>5, <1>6, <1>7, <1>8, Zenon

\* A session sequence does not go past its prefix without having committed.
LEMMA CommitsOk ==
  ASSUME RuntimeConfig, NEW st, Progress(st), st.logical < Len(Prompt(st)), CommitsInTime(st),
         NEW item, ItemOk(item, st), NEW mid, mid.request = st.request,
         mid.physical = st.physical + item.physical, mid.committed = st.committed,
         NEW snap, SnapshotSound(snap, mid), ~(snap.due /\ snap.generation = NoGeneration),
         NEW to, BookedOk(st, item, to, snap.generation)
  PROVE  CommitsInTime(to)
<1>1. /\ to.committed = snap.generation /\ snap.generation \in Nat /\ to.request = st.request
      /\ to.physical = st.physical + item.physical /\ to.cached = st.cached
  BY DEF BookedOk, SnapshotSound
<1>2. ASSUME InSession(st.request), CommitOf[st.request], to.committed = NoGeneration,
             ~(to.cached >= PrefixOf[st.request])
      PROVE  to.physical < PrefixOf[st.request]
  <2>1. /\ ~snap.due /\ snap.generation = st.committed
        /\ ~(CommitPending(mid) /\ mid.physical = PrefixOf[st.request])
    BY <1>1, <1>2 DEF SnapshotSound
  <2>2. st.committed = NoGeneration /\ CommitPending(mid) /\ mid.physical # PrefixOf[st.request]
    BY <1>1, <1>2, <2>1 DEF CommitPending
  <2>3. st.physical < PrefixOf[st.request]
    BY <1>1, <1>2, <2>2 DEF CommitsInTime
  <2>4. st.physical + item.logical <= PrefixOf[st.request]
    BY <1>2, <2>2, <2>3 DEF ItemOk
  <2>5. PICK ph, il, ip, pre : /\ ph = st.physical /\ il = item.logical /\ ip = item.physical
                               /\ pre = PrefixOf[st.request]
    OBVIOUS
  <2>6. st.request \in Requests /\ st.physical = st.logical /\ st.logical \in Nat
    BY PrefillState
  <2>7. il \in 1 .. Len(Prompt(st)) - st.logical /\ ip \in Nat /\ ip <= il
    BY <2>5, ItemCounts
  <2>8. Len(Prompt(st)) \in Nat
    BY PrefillState
  <2>9. pre \in Nat
    BY <1>2, <2>5, <2>6, Config
  <2>10. ph \in Nat /\ il \in Nat /\ ph + il <= pre /\ ph + ip # pre
    BY <1>1, <2>2, <2>4, <2>5, <2>6, <2>7, <2>8
  <2>11. ph + ip < pre
    BY ONLY <2>7, <2>9, <2>10
  <2> QED
    BY <1>1, <2>5, <2>11
<1> QED
  BY <1>1, <1>2 DEF CommitsInTime

-----------------------------------------------------------------------------
LEMMA RealState ==
  ASSUME RuntimeConfig, NEW st, Progress(st)
  PROVE  st # NoState
<1>1. PICK nowhere : nowhere = NoState
  OBVIOUS
<1>2. nowhere.request = NoKey /\ NoKey \notin Requests
  BY <1>1, Config DEF NoState
<1> QED
  BY <1>1, <1>2 DEF Progress

\* The chunk in the slot ledger.
Advances(e, answer, h, n) ==
  /\ answer.status = "applied" /\ Books(answer.engine)
  /\ LiveSlots(answer.engine) = LiveSlots(e) /\ OnlySlot(e, answer.engine, h.slot)
  /\ SequenceIn(answer.engine.slots[h.slot], n, h.slot)

LEMMA ItemAdvances ==
  ASSUME RuntimeConfig, NEW e, NEW sts, NEW hd, Books(e), SlotsAgree(e, sts, hd),
         NEW h \in DOMAIN hd, NEW st, st = sts[h.slot], st.logical < Len(Prompt(st)),
         NEW item, ItemOk(item, st), NEW g, NEW to, BookedOk(st, item, to, g),
         NEW answer, answer = AdvancePrefill(e, st.internal, item.logical)
  PROVE  Advances(e, answer, h, to)
<1>1. PICK s, slot, t, len, lo :
        s = h.slot /\ slot = e.slots[s] /\ t = item.logical /\ len = Len(Prompt(st)) /\ lo = st.logical
  OBVIOUS
<1>2. /\ s \in LiveSlots(e) /\ s \in Slots /\ st.internal = h /\ h = HandleIn(e, s)
      /\ Fills(slot, st, s) /\ Progress(st)
  BY <1>1, HandleSlot
<1>3. /\ len \in Nat /\ lo \in Nat /\ lo < len /\ ~st.terminal /\ st.sampled = <<>>
  BY <1>1, <1>2, PrefillState
<1>4. t \in 1 .. len - lo
  BY <1>1, <1>2, ItemCounts
<1>5. /\ slot.key = st.request /\ h = Handle(s, slot.generation, slot.key)
      /\ slot.prompt_tokens = len /\ slot.output_token_budget = total_budget
      /\ slot.prompt_tokens_processed = lo /\ slot.decoded_tokens = Len(st.sampled)
      /\ slot.lifecycle = "prefill"
  <2>1. lo # len
    BY <1>3
  <2>2. st.logical # Len(Prompt(st))
    BY <1>1, <2>1
  <2>3. slot.key = st.request /\ st.internal = Handle(s, slot.generation, slot.key)
    BY <1>2, Zenon DEF Fills
  <2>4. slot.lifecycle = "prefill"
    BY ONLY <1>2, <1>3, <2>2 DEF Fills
  <2>5. /\ slot.prompt_tokens = len /\ slot.output_token_budget = total_budget
        /\ slot.prompt_tokens_processed = lo /\ slot.decoded_tokens = Len(st.sampled)
    BY ONLY <1>1, <1>2, Zenon DEF Fills
  <2> QED
    BY <1>2, <2>3, <2>4, <2>5, Zenon
<1>6. PICK left, life, n, d : /\ left = len - lo /\ life = (IF t = left THEN "decode" ELSE "prefill")
                              /\ n = lo + t /\ d = Len(st.sampled)
  OBVIOUS
<1>7. Applied(answer, MoveTo(e, s, life, n, d))
  <2>1. /\ answer = AdvancePrefill(e, h, t) /\ slot = e.slots[s] /\ slot.lifecycle = "prefill"
        /\ left = slot.prompt_tokens - slot.prompt_tokens_processed /\ t \in 1 .. left
    BY <1>1, <1>2, <1>4, <1>5, <1>6, Zenon
  <2>2. Applied(answer, MoveTo(e, s, IF t = left THEN "decode" ELSE "prefill",
                               slot.prompt_tokens_processed + t, slot.decoded_tokens))
    BY <1>2, <2>1, AdvancePrefillMoves
  <2> QED
    BY <1>5, <1>6, <2>2, Zenon
<1>8. PICK f : f = MoveTo(e, s, life, n, d)
  OBVIOUS
<1>9. answer.status = "applied" /\ answer.engine = f
  BY <1>7, <1>8 DEF Applied
<1>10. life # "released"
  BY <1>6
<1>11. /\ Books(f) /\ LiveSlots(f) = LiveSlots(e) /\ OnlySlot(e, f, s)
       /\ f.slots[s] = CellTo(slot, life, n, d)
  <2>1. Books(e) /\ s \in LiveSlots(e) /\ f = MoveTo(e, s, life, n, d)
    BY <1>2, <1>8
  <2>2. /\ Books(f) /\ LiveSlots(f) = LiveSlots(e) /\ OnlySlot(e, f, s)
        /\ f.slots[s] = CellTo(e.slots[s], life, n, d)
    BY ONLY <1>10, <2>1, MovesTo
  <2> QED
    BY <1>1, <2>2, Zenon
<1>12. PICK cell : cell = CellTo(slot, life, n, d)
  OBVIOUS
<1>13. /\ cell.generation = slot.generation /\ cell.key = slot.key /\ cell.lifecycle = life
       /\ cell.prompt_tokens = len /\ cell.output_token_budget = total_budget
       /\ cell.prompt_tokens_processed = n /\ cell.decoded_tokens = d
  <2>1. PICK gen, k : gen = slot.generation /\ k = slot.key
    OBVIOUS
  <2>2. cell = Cell(gen, k, life, len, total_budget, n, d)
    BY ONLY <1>5, <1>12, <2>1 DEF CellTo
  <2>3. /\ cell.generation = gen /\ cell.key = k /\ cell.lifecycle = life
        /\ cell.prompt_tokens = len /\ cell.output_token_budget = total_budget
        /\ cell.prompt_tokens_processed = n /\ cell.decoded_tokens = d
    BY ONLY <2>2, CellFields
  <2> QED
    BY <2>1, <2>3, Zenon
<1>14. /\ StateShape(to) /\ Progress(to) /\ Spoken(to) /\ to.internal = h
       /\ to.request = st.request /\ ~to.terminal /\ to.sampled = <<>> /\ to.logical = n
       /\ Prompt(to) = Prompt(st)
  BY <1>1, <1>2, <1>6, Zenon DEF BookedOk
<1>15. t = left <=> n = len
  BY <1>3, <1>4, <1>6
<1>16. Fills(cell, to, s)
  <2>1. cell.lifecycle = (IF to.logical = Len(Prompt(to)) THEN "decode" ELSE "prefill")
    BY <1>1, <1>6, <1>13, <1>14, <1>15
  <2>2. /\ cell.prompt_tokens = Len(Prompt(to)) /\ cell.decoded_tokens = Len(to.sampled)
        /\ to.internal = Handle(s, cell.generation, cell.key) /\ cell.key = to.request
    BY <1>1, <1>3, <1>5, <1>6, <1>13, <1>14, Zenon
  <2> QED
    BY <1>13, <1>14, <2>1, <2>2, Zenon DEF Fills
<1>17. SequenceIn(cell, to, s)
  BY <1>14, <1>16, RealState DEF SequenceIn
<1> QED
  BY <1>1, <1>9, <1>11, <1>12, <1>17 DEF Advances

\* What is left of a batch after its first item.
Leaves(c, d, h) == Ahead(d, h) = 0 /\ \A g : g # h => Ahead(d, g) = Ahead(c, g)

LEMMA WorkHead ==
  ASSUME NEW steps, NEW work, NEW sts, NEW hd, PrefillOk(steps, work, sts, hd),
         NEW item, item = Head(work), NEW h, h = item.handle,
         NEW c, c = PrefillCommand(steps, work)
  PROVE  /\ h \in Range(steps) /\ h \in DOMAIN hd /\ hd[h].mode = "prefill"
         /\ ItemOk(item, sts[h.slot]) /\ Ahead(c, h) = item.physical
         /\ Len(work) = 1 => Leaves(c, Idle, h)
<1>1. PICK S : S = [handle : Range(steps), logical : Nat, physical : Nat]
  OBVIOUS
<1>2. /\ steps \in Seq(DOMAIN hd) /\ work \in Seq(S) /\ work # <<>>
      /\ \A g \in Range(steps) : hd[g].mode = "prefill"
      /\ \A i, j \in DOMAIN work : work[i].handle = work[j].handle => i = j
      /\ \A i \in DOMAIN work : ItemOk(work[i], sts[work[i].handle.slot])
  BY <1>1 DEF PrefillOk
<1>3. Len(work) \in Nat \ {0} /\ DOMAIN work = 1 .. Len(work) /\ \A i \in DOMAIN work : work[i] \in S
  BY <1>2, LenProperties, ElementOfSeq, EmptySeq
<1>4. 1 \in DOMAIN work /\ item = work[1]
  BY <1>3
<1>5. item.handle \in Range(steps)
  BY <1>1, <1>3, <1>4
<1>6. Range(steps) \subseteq DOMAIN hd
  BY <1>2, RangeIs
<1>7. /\ \A i \in DOMAIN work : Ahead(c, work[i].handle) = work[i].physical
      /\ \A g : (\A i \in DOMAIN work : work[i].handle # g) => Ahead(c, g) = 0
  <2>1. \A i, j \in DOMAIN work : work[i].handle = work[j].handle => i = j
    BY <1>2
  <2> QED
    BY ONLY <2>1, c = PrefillCommand(steps, work), AheadOf
<1>8. ASSUME Len(work) = 1 PROVE Leaves(c, Idle, h)
  <2>1. \A i \in DOMAIN work : work[i].handle = h
    BY <1>3, <1>4, <1>8
  <2>2. \A g : g # h => Ahead(c, g) = 0
    BY <1>7, <2>1
  <2> QED
    BY <2>2, IdleParts DEF Leaves
<1> QED
  BY <1>2, <1>4, <1>5, <1>6, <1>7, <1>8

LeftOver(steps, work, rest, sts1, hd, h) ==
  /\ PrefillOk(steps, rest, sts1, hd)
  /\ Leaves(PrefillCommand(steps, work), PrefillCommand(steps, rest), h)

LEMMA WorkLeft ==
  ASSUME NEW steps, NEW work, NEW sts, NEW hd, PrefillOk(steps, work, sts, hd),
         NEW item, item = Head(work), NEW h, h = item.handle, Len(work) # 1,
         NEW rest, rest = Tail(work),
         NEW sts1, \A g \in DOMAIN hd \ {h} : sts1[g.slot] = sts[g.slot], ~sts1[h.slot].terminal
  PROVE  LeftOver(steps, work, rest, sts1, hd, h)
<1>1. PICK S, c, d : /\ S = [handle : Range(steps), logical : Nat, physical : Nat]
                     /\ c = PrefillCommand(steps, work) /\ d = PrefillCommand(steps, rest)
  OBVIOUS
<1>2. /\ steps \in Seq(DOMAIN hd) /\ Range(steps) # {} /\ work \in Seq(S) /\ work # <<>>
      /\ \A g \in Range(steps) : hd[g].mode = "prefill" /\ ~sts[g.slot].terminal
      /\ \A i, j \in DOMAIN work : work[i].handle = work[j].handle => i = j
      /\ \A i \in DOMAIN work : ItemOk(work[i], sts[work[i].handle.slot])
  BY <1>1 DEF PrefillOk
<1>3. Len(work) \in Nat \ {0} /\ DOMAIN work = 1 .. Len(work) /\ \A i \in DOMAIN work : work[i] \in S
  BY <1>2, LenProperties, ElementOfSeq, EmptySeq
<1>4. 1 \in DOMAIN work /\ item = work[1]
  BY <1>3
<1>5. /\ rest \in Seq(S) /\ Len(rest) = Len(work) - 1
      /\ \A i \in 1 .. Len(rest) : rest[i] = work[i + 1]
  BY <1>2, HeadTailProperties
<1>6. /\ Len(rest) \in Nat \ {0} /\ DOMAIN rest = 1 .. Len(rest)
      /\ \A i \in DOMAIN rest : i + 1 \in DOMAIN work /\ rest[i] = work[i + 1] /\ i \in Nat
  <2>1. Len(rest) \in Nat /\ DOMAIN rest = 1 .. Len(rest)
    BY <1>5, LenProperties
  <2> QED
    BY <1>3, <1>5, <2>1
<1>7. rest # <<>>
  BY <1>6, EmptySeq
<1>8. ASSUME NEW i \in DOMAIN rest, NEW j \in DOMAIN rest, rest[i].handle = rest[j].handle PROVE i = j
  <2>1. i + 1 = j + 1
    BY <1>2, <1>6, <1>8
  <2> QED
    BY <1>6, <2>1
<1>9. ASSUME NEW i \in DOMAIN rest PROVE rest[i].handle # h
  <2>1. i + 1 # 1
    BY <1>6
  <2> QED
    BY <1>2, <1>4, <1>6, <2>1
<1>10. Range(steps) \subseteq DOMAIN hd
  BY <1>2, RangeIs
<1>11. ASSUME NEW i \in DOMAIN rest PROVE ItemOk(rest[i], sts1[rest[i].handle.slot])
  <2>1. rest[i].handle \in DOMAIN hd \ {h}
    BY <1>1, <1>3, <1>6, <1>9, <1>10
  <2> QED
    BY <1>2, <1>6, <2>1
<1>12. \A g \in Range(steps) : hd[g].mode = "prefill" /\ ~sts1[g.slot].terminal
  BY <1>2, <1>10
<1>13. PrefillOk(steps, rest, sts1, hd)
  BY <1>1, <1>2, <1>5, <1>7, <1>8, <1>11, <1>12 DEF PrefillOk
<1>14. /\ \A i \in DOMAIN work : Ahead(c, work[i].handle) = work[i].physical
       /\ \A g : (\A i \in DOMAIN work : work[i].handle # g) => Ahead(c, g) = 0
  <2>1. \A i, j \in DOMAIN work : work[i].handle = work[j].handle => i = j
    BY <1>2
  <2> QED
    BY ONLY <1>1, <2>1, AheadOf
<1>15. /\ \A i \in DOMAIN rest : Ahead(d, rest[i].handle) = rest[i].physical
       /\ \A g : (\A i \in DOMAIN rest : rest[i].handle # g) => Ahead(d, g) = 0
  <2>1. \A i, j \in DOMAIN rest : rest[i].handle = rest[j].handle => i = j
    BY <1>8
  <2> QED
    BY ONLY <1>1, <2>1, AheadOf
<1>16. Ahead(d, h) = 0
  BY <1>9, <1>15
<1>17. ASSUME NEW g, g # h PROVE Ahead(d, g) = Ahead(c, g)
  <2>1. CASE \E i \in DOMAIN rest : rest[i].handle = g
    BY <1>6, <1>14, <1>15, <2>1
  <2>2. CASE \A i \in DOMAIN rest : rest[i].handle # g
    <3>1. ASSUME NEW i \in DOMAIN work PROVE work[i].handle # g
      <4>1. CASE i = 1
        BY <1>4, <1>17, <4>1
      <4>2. CASE i # 1
        <5>1. i - 1 \in DOMAIN rest /\ rest[i - 1] = work[i]
          BY <1>3, <1>5, <1>6, <4>2
        <5> QED
          BY <2>2, <5>1
      <4> QED
        BY <4>1, <4>2
    <3> QED
      BY <1>14, <1>15, <2>2, <3>1
  <2> QED
    BY <2>1, <2>2
<1> QED
  BY <1>1, <1>13, <1>16, <1>17 DEF Leaves, LeftOver

-----------------------------------------------------------------------------
\* What the reply to a prefill batch makes of the client's handles.
Replied(hd, steps, after) ==
  [k \in DOMAIN hd |->
     IF k \in Range(steps) /\ after[k.slot].logical = Len(PromptOf[k.key])
     THEN [hd[k] EXCEPT !.mode = "decode"] ELSE hd[k]]

\* The step of one item of a batch.
ItemStep(steps, work, st, answer, snap, sts1) ==
  /\ engine' = answer.engine /\ invalid' = (invalid \/ answer.status # "applied")
  /\ cache' = snap.cache /\ states' = sts1 /\ kv' = kv
  /\ \/ /\ snap.due /\ snap.generation = NoGeneration
        /\ cmd' = Idle /\ held' = DoomedIn(held, Range(steps))
     \/ /\ ~(snap.due /\ snap.generation = NoGeneration) /\ Len(work) = 1
        /\ cmd' = Idle /\ held' = Replied(held, steps, sts1)
     \/ /\ ~(snap.due /\ snap.generation = NoGeneration) /\ Len(work) # 1
        /\ cmd' = PrefillCommand(steps, Tail(work)) /\ held' = held

LEMMA PrefillItemIs ==
  ASSUME PrefillItem, NEW steps, NEW work, cmd = PrefillCommand(steps, work),
         NEW item, item = Head(work), NEW s, s = item.handle.slot,
         NEW mid, mid = Booked(states[s], item)
  PROVE  \E expired \in 0 .. Len(cache), copied \in BOOLEAN :
           LET snap == Snapshot(mid, Pruned(cache, expired), copied)
               to == Committed(mid, snap.generation)
           IN  ItemStep(steps, work, states[s], AdvancePrefill(engine, mid.internal, item.logical),
                        snap, Put(states, s, to))
<1>1. PICK k : k = cmd
  OBVIOUS
<1>2. k.steps = steps /\ k.work = work /\ k = PrefillCommand(steps, work)
  BY <1>1, PrefillParts
<1>3. PICK expired \in 0 .. Len(cache), copied \in BOOLEAN :
        LET first == Head(cmd.work)
            t == first.handle.slot
            physical == states[t].physical + first.physical
            st == [states[t] EXCEPT !.physical = physical, !.n_past = physical,
                                    !.logical = @ + first.logical]
            advanced == AdvancePrefill(engine, st.internal, first.logical)
            snapshot == Snapshot(st, Pruned(cache, expired), copied)
            after == [states EXCEPT ![t] = [st EXCEPT !.committed = snapshot.generation]]
        IN  /\ engine' = advanced.engine
            /\ invalid' = (invalid \/ advanced.status # "applied")
            /\ cache' = snapshot.cache
            /\ states' = after
            /\ IF snapshot.due /\ snapshot.generation = NoGeneration
               THEN ReplyError(cmd.steps)
               ELSE IF Len(cmd.work) = 1 THEN ReplyPrefill(cmd.steps, after)
               ELSE cmd' = [cmd EXCEPT !.work = Tail(@)] /\ UNCHANGED held
  BY ONLY PrefillItem, Zenon DEF PrefillItem
<1>4. cmd.work = work /\ cmd.steps = steps
  BY <1>1, <1>2
<1>5. PICK answer, snap : /\ answer = AdvancePrefill(engine, mid.internal, item.logical)
                          /\ snap = Snapshot(mid, Pruned(cache, expired), copied)
  OBVIOUS
<1>6. PICK to, after : to = Committed(mid, snap.generation) /\ after = Put(states, s, to)
  OBVIOUS
<1>7. /\ engine' = answer.engine
      /\ invalid' = (invalid \/ answer.status # "applied")
      /\ cache' = snap.cache /\ states' = after
      /\ IF snap.due /\ snap.generation = NoGeneration
         THEN ReplyError(steps)
         ELSE IF Len(work) = 1 THEN ReplyPrefill(steps, after)
         ELSE cmd' = [k EXCEPT !.work = Tail(@)] /\ held' = held
  <2> DEFINE it == Head(cmd.work)
             t == it.handle.slot
             st == Booked(states[t], it)
             an == AdvancePrefill(engine, st.internal, it.logical)
             sn == Snapshot(st, Pruned(cache, expired), copied)
             af == Put(states, t, Committed(st, sn.generation))
  <2>1. /\ engine' = an.engine
        /\ invalid' = (invalid \/ an.status # "applied")
        /\ cache' = sn.cache /\ states' = af
        /\ IF sn.due /\ sn.generation = NoGeneration
           THEN ReplyError(cmd.steps)
           ELSE IF Len(cmd.work) = 1 THEN ReplyPrefill(cmd.steps, af)
           ELSE cmd' = [cmd EXCEPT !.work = Tail(@)] /\ held' = held
    BY <1>3, Zenon DEF Booked, Put, Committed
  <2>2. it = item
    BY <1>4
  <2> HIDE DEF it
  <2>3. t = s
    BY <2>2
  <2> HIDE DEF t
  <2>4. st = mid
    BY <2>2, <2>3
  <2> HIDE DEF st
  <2>5. an = answer /\ sn = snap
    BY <1>5, <2>2, <2>4, Zenon
  <2> HIDE DEF an, sn
  <2>6. af = after
    BY <1>6, <2>3, <2>4, <2>5
  <2> HIDE DEF af
  <2> QED
    BY ONLY <1>1, <1>4, <2>1, <2>5, <2>6
<1>8. [k EXCEPT !.work = Tail(@)] = PrefillCommand(steps, Tail(work))
  <2>1. PICK rest : rest = Tail(work)
    OBVIOUS
  <2>2. [k EXCEPT !.work = Tail(@)] = [k EXCEPT !.work = rest]
    BY <1>2, <2>1
  <2>3. [k EXCEPT !.work = rest] = PrefillCommand(steps, rest)
    BY ONLY <1>2 DEF PrefillCommand
  <2> QED
    BY <2>1, <2>2, <2>3, Zenon
<1>9. ReplyError(steps) => cmd' = Idle /\ held' = DoomedIn(held, Range(steps))
  BY DEF ReplyError, Doomed, DoomedIn
<1>10. ReplyPrefill(steps, after) => cmd' = Idle /\ held' = Replied(held, steps, after)
  BY DEF ReplyPrefill, Replied
<1>11. kv' = kv
  BY Zenon DEF PrefillItem
<1>12. ItemStep(steps, work, states[s], answer, snap, after)
  BY <1>7, <1>8, <1>9, <1>10, <1>11 DEF ItemStep
<1> QED
  BY <1>5, <1>6, <1>12, Zenon

\* A sequence the client is told of after a prefill.
LEMMA RepliedOk ==
  ASSUME RuntimeConfig, NEW note, NoteShape(note), note.mode = "prefill", NEW st, Progress(st), ~st.terminal,
         NEW memory, Alive(note, st, memory, 0, <<>>),
         NEW to, to = (IF st.logical = Len(Prompt(st)) THEN [note EXCEPT !.mode = "decode"] ELSE note)
  PROVE  NoteShape(to) /\ Alive(to, st, memory, 0, <<>>) /\ Resting(to, st)
<1>1. CASE st.logical = Len(Prompt(st))
  <2>1. PICK a, b, d : note = [mode |-> a, text |-> b, final_text |-> d]
    BY DEF NoteShape
  <2>2. to = [note EXCEPT !.mode = "decode"]
    BY <1>1
  <2>3. to = [mode |-> "decode", text |-> b, final_text |-> d] /\ note.text = b
    BY ONLY <2>1, <2>2
  <2>4. NoteShape(to) /\ to.mode = "decode" /\ to.text = note.text
    BY ONLY <2>3 DEF NoteShape
  <2>5. Alive(to, st, memory, 0, <<>>)
    BY <1>1, <2>4 DEF Alive, Told
  <2> QED
    BY <2>4, <2>5 DEF Resting
<1>2. CASE st.logical # Len(Prompt(st))
  <2>1. to = note
    BY <1>2
  <2>2. st.logical < Len(Prompt(st))
    <3>1. PICK len, lo : len = Len(Prompt(st)) /\ lo = st.logical
      OBVIOUS
    <3>2. lo \in 0 .. len /\ lo # len /\ len > 0
      BY <1>2, <3>1 DEF Progress
    <3>3. len \in Nat
      BY <3>1, Config DEF Progress, Prompt
    <3>4. lo < len
      BY ONLY <3>2, <3>3
    <3> QED
      BY <3>1, <3>4
  <2> QED
    BY <2>1, <2>2 DEF Resting
<1> QED
  BY <1>1, <1>2

-----------------------------------------------------------------------------
\* An item of a batch is booked: the sequence, its slot and its snapshot.
ItemBooked(e, sts, m, hd, h, item, answer, snap, to, sts1) ==
  /\ answer.status = "applied" /\ Books(answer.engine) /\ MemoryOk(answer.engine, m)
  /\ MovedSlots(answer.engine, sts, sts1, hd, hd, h, to)
  /\ CacheOk(snap.cache) /\ NoteShape(hd[h]) /\ Progress(to) /\ ~to.terminal
  /\ ~(snap.due /\ snap.generation = NoGeneration) => Alive(hd[h], to, m[h.slot], 0, <<>>)

LEMMA ItemIsBooked ==
  ASSUME RuntimeConfig, NEW steps, NEW work, NEW c, c = PrefillCommand(steps, work),
         NEW e, NEW sts, NEW hd, InvOf(e, sts, kv, cache, c, hd), PrefillOk(steps, work, sts, hd),
         NEW item, item = Head(work), NEW h, h = item.handle,
         NEW mid, mid = Booked(sts[h.slot], item),
         NEW d, CacheOk(d), NEW copied, NEW snap, snap = Snapshot(mid, d, copied),
         NEW answer, answer = AdvancePrefill(e, mid.internal, item.logical),
         NEW to, to = Committed(mid, snap.generation), NEW sts1, sts1 = Put(sts, h.slot, to)
  PROVE  ItemBooked(e, sts, kv, hd, h, item, answer, snap, to, sts1)
<1>1. PICK s, st, note, memory : s = h.slot /\ st = sts[s] /\ note = hd[h] /\ memory = kv[s]
  BY Zenon
<1>2. /\ Books(e) /\ SlotsAgree(e, sts, hd) /\ MemoryOk(e, kv) /\ CacheOk(cache)
      /\ \A g \in DOMAIN hd : HandleOk(g, sts, kv, c, hd)
  BY Zenon DEF InvOf
<1>3. /\ h \in Range(steps) /\ h \in DOMAIN hd /\ note.mode = "prefill"
      /\ ItemOk(item, st) /\ Ahead(c, h) = item.physical
  BY ONLY <1>1, PrefillOk(steps, work, sts, hd), item = Head(work), h = item.handle,
          c = PrefillCommand(steps, work), WorkHead
<1>4. /\ s \in LiveSlots(e) /\ s \in Slots /\ st.internal = h /\ StateShape(st)
      /\ Progress(st) /\ Spoken(st)
  <2>1. sts[h.slot] = st /\ s = h.slot
    BY ONLY <1>1
  <2> QED
    BY ONLY <1>2, <1>3, <2>1, HandleSlot
<1>5. h \in Stepped(c) /\ TextOf(c, h) = <<>>
  BY <1>3, PrefillParts
<1>6. NoteShape(note) /\ Remembers(st, memory, item.physical) /\ Told(note, st, <<>>)
  <2>1. NoteShape(note) /\ Alive(note, st, memory, item.physical, <<>>)
    BY <1>1, <1>2, <1>3, <1>5, HandleOkIs, Zenon
  <2> QED
    BY <2>1, Zenon DEF Alive
<1>7. CommitsInTime(st) /\ memory = SubSeq(TokensOf(st), 1, st.n_past + item.physical)
  BY <1>6, Zenon DEF Remembers
<1>8. st.logical < Len(Prompt(st))
  <2>1. PICK len, lo, il : len = Len(Prompt(st)) /\ lo = st.logical /\ il = item.logical
    BY Zenon
  <2>2. len \in Nat /\ lo \in 0 .. len
    BY <1>4, <2>1, Config, Zenon DEF Progress, Prompt
  <2>3. il \in 1 .. len - lo
    BY <1>3, <2>1, Zenon DEF ItemOk
  <2>4. lo < len
    BY ONLY <2>2, <2>3
  <2> QED
    BY <2>1, <2>4, Zenon
<1>9. BookedOk(st, item, to, snap.generation)
  <2>1. to = Committed(Booked(st, item), snap.generation)
    BY <1>1, Zenon
  <2> QED
    BY ONLY RuntimeConfig, <1>3, <1>4, <1>8, <2>1, BookedState
<1>10. /\ mid.internal = h /\ mid.request = st.request /\ mid.committed = st.committed
       /\ mid.physical = st.physical + item.physical
  <2>1. mid = Booked(st, item)
    BY <1>1, Zenon
  <2>2. /\ mid.internal = st.internal /\ mid.request = st.request
        /\ mid.physical = st.physical + item.physical /\ mid.committed = st.committed
    BY ONLY <1>4, <2>1, BookedParts
  <2>3. st.internal = h
    BY <1>4, Zenon
  <2> QED
    BY ONLY <2>2, <2>3
<1>11. Advances(e, answer, h, to)
  <2>1. answer = AdvancePrefill(e, st.internal, item.logical) /\ st = sts[h.slot]
    BY <1>1, <1>4, <1>10, Zenon
  <2> QED
    BY ONLY RuntimeConfig, <1>2, <1>3, <1>8, <1>9, <2>1, ItemAdvances
<1>12. MovedSlots(answer.engine, sts, sts1, hd, hd, h, to)
  <2>1. PICK f : f = answer.engine
    BY Zenon
  <2>2. /\ LiveSlots(f) = LiveSlots(e) /\ OnlySlot(e, f, h.slot)
        /\ SequenceIn(f.slots[h.slot], to, h.slot)
    BY <1>11, <2>1, Zenon DEF Advances
  <2>3. to.internal = h /\ h \in DOMAIN hd /\ SlotsAgree(e, sts, hd) /\ DOMAIN hd = DOMAIN hd
    BY <1>2, <1>3, <1>4, <1>9, Zenon DEF BookedOk
  <2>4. MovedSlots(f, sts, sts1, hd, hd, h, to)
    BY ONLY <2>2, <2>3, sts1 = Put(sts, h.slot, to), SequenceMoves
  <2> QED
    BY <2>1, <2>4, Zenon
<1>13. PICK r \in Requests : r = st.request
  BY <1>4, Zenon DEF Progress
<1>14. /\ Prompt(st) = PromptOf[r] /\ TokensOf(st) = PromptOf[r] /\ st.n_past = st.physical
  BY <1>4, <1>8, <1>13, PrefillState, Zenon
<1>15. PICK p : p = st.physical + item.physical
  BY Zenon
<1>16. p \in 0 .. Len(PromptOf[r])
  <2>1. Progress(to) /\ to.physical = p /\ Prompt(to) = PromptOf[r]
    BY <1>9, <1>14, <1>15, Zenon DEF BookedOk
  <2>2. PICK len, lo : len = Len(Prompt(to)) /\ lo = to.logical
    BY Zenon
  <2>3. len \in Nat /\ lo \in 0 .. len /\ len > 0 /\ p = (IF lo = len THEN lo - 1 ELSE lo)
    <3>1. len \in Nat
      BY <1>13, <2>1, <2>2, Config, Zenon
    <3> QED
      BY <2>1, <2>2, <3>1, Zenon DEF Progress
  <2>4. p \in 0 .. len
    BY ONLY <2>3
  <2> QED
    BY <2>1, <2>2, <2>4, Zenon
<1>17. SnapshotSound(snap, mid)
  <2>1. kv[mid.internal.slot] = SubSeq(PromptOf[r], 1, p)
    BY <1>1, <1>7, <1>10, <1>14, <1>15, Zenon
  <2>2. mid.request = r /\ mid.physical = p /\ mid.committed \in Nat
    BY <1>7, <1>10, <1>13, <1>15, Zenon DEF CommitsInTime
  <2> QED
    BY ONLY RuntimeConfig, <1>2, CacheOk(d), r \in Requests, <1>16, <2>1, <2>2,
            snap = Snapshot(mid, d, copied), SnapshotOk
<1>18. MemoryOk(answer.engine, kv)
  BY <1>2, <1>11, Zenon DEF Advances, MemoryOk
<1>19. ASSUME ~(snap.due /\ snap.generation = NoGeneration)
       PROVE  Alive(note, to, memory, 0, <<>>)
  <2>1. CommitsInTime(to)
    BY ONLY RuntimeConfig, <1>3, <1>4, <1>7, <1>8, <1>9, <1>10, <1>17, <1>19, CommitsOk
  <2>2. memory = SubSeq(TokensOf(to), 1, to.n_past + 0)
    <3>1. to.n_past = st.n_past + item.physical /\ TokensOf(to) = TokensOf(st)
          /\ to.physical = p /\ to.physical = to.n_past
      <4>1. /\ to.n_past = st.n_past + item.physical /\ TokensOf(to) = TokensOf(st)
            /\ to.physical = st.physical + item.physical
        BY ONLY <1>9 DEF BookedOk
      <4>2. st.n_past = st.physical
        BY ONLY <1>14
      <4> QED
        BY ONLY <1>15, <4>1, <4>2
    <3>2. p + 0 = p
      BY <1>16
    <3>3. to.n_past + 0 = st.n_past + item.physical
      BY <3>1, <3>2, Zenon
    <3> QED
      BY <1>7, <3>1, <3>3, Zenon
  <2>3. Told(note, to, <<>>)
    <3>1. to.failed = st.failed /\ to.utf8 = st.utf8 /\ to.final_bytes = st.final_bytes
      BY <1>9, Zenon DEF BookedOk
    <3> QED
      BY <1>3, <1>6, <3>1, Zenon DEF Told
  <2> QED
    BY <2>1, <2>2, <2>3, Zenon DEF Alive, Remembers
<1>20. /\ answer.status = "applied" /\ Books(answer.engine) /\ CacheOk(snap.cache)
       /\ Progress(to) /\ ~to.terminal
  BY <1>9, <1>11, <1>17, Zenon DEF Advances, SnapshotSound, BookedOk
<1> QED
  BY <1>1, <1>6, <1>12, <1>18, <1>19, <1>20, Zenon DEF ItemBooked

-----------------------------------------------------------------------------
\* The handles after an item, the item's own apart: as they were.
LEMMA OthersKept ==
  ASSUME NEW sts, NEW m, NEW c, NEW hd, NEW g, HandleOk(g, sts, m, c, hd),
         NEW d, TextOf(d, g) = TextOf(c, g), Ahead(d, g) = Ahead(c, g), g \in Stepped(c) <=> g \in Stepped(d),
         NEW sts1, sts1[g.slot] = sts[g.slot]
  PROVE  HandleOk(g, sts1, m, d, hd)
BY HandleKept, Zenon

HandlesOk(f, sts, m, k, hd) ==
  SlotsAgree(f, sts, hd) /\ \A g \in DOMAIN hd : HandleOk(g, sts, m, k, hd)

\* The reply, once every item is booked.
LEMMA ReplyPrefillOk ==
  ASSUME RuntimeConfig, NEW f, NEW sts1, NEW m, NEW c, NEW hd, SlotsAgree(f, sts1, hd),
         NEW steps, c.type = "prefill", Stepped(c) = Range(steps),
         \A g \in DOMAIN hd : HandleOk(g, sts1, m, c, hd) /\ Ahead(c, g) = 0,
         \A g \in Range(steps) : hd[g].mode = "prefill" /\ ~sts1[g.slot].terminal,
         NEW hd1, hd1 = Replied(hd, steps, sts1)
  PROVE  HandlesOk(f, sts1, m, Idle, hd1)
<1>1. /\ DOMAIN hd1 = DOMAIN hd
      /\ \A g \in DOMAIN hd : hd1[g] = IF g \in Range(steps) /\ sts1[g.slot].logical = Len(PromptOf[g.key])
                                       THEN [hd[g] EXCEPT !.mode = "decode"] ELSE hd[g]
  BY DEF Replied
<1>2. SlotsAgree(f, sts1, hd1)
  BY <1>1 DEF SlotsAgree
<1>3. ASSUME NEW g \in DOMAIN hd PROVE HandleOk(g, sts1, m, Idle, hd1)
  <2>1. HandleOk(g, sts1, m, c, hd) /\ Ahead(c, g) = 0 /\ TextOf(c, g) = <<>>
    BY DEF TextOf
  <2>2. CASE g \in Range(steps)
    <3>1. PICK note, st, memory, to :
            note = hd[g] /\ st = sts1[g.slot] /\ memory = m[g.slot] /\ to = hd1[g]
      OBVIOUS
    <3>2. NoteShape(note) /\ note.mode = "prefill" /\ ~st.terminal /\ Alive(note, st, memory, 0, <<>>)
      BY <2>1, <2>2, <3>1, HandleOkIs
    <3>3. Progress(st) /\ Prompt(st) = PromptOf[g.key]
      <4>1. /\ Fills(f.slots[g.slot], sts1[g.slot], g.slot) /\ g = HandleIn(f, g.slot)
            /\ Progress(st)
        BY <3>1, HandleSlot
      <4>2. f.slots[g.slot].key = st.request
        BY <3>1, <4>1 DEF Fills
      <4>3. g.key = f.slots[g.slot].key
        BY <4>1, HandleParts DEF HandleIn
      <4> QED
        BY <4>1, <4>2, <4>3 DEF Prompt
    <3>4. to = (IF st.logical = Len(Prompt(st)) THEN [note EXCEPT !.mode = "decode"] ELSE note)
      BY <1>1, <2>2, <3>1, <3>3
    <3>5. NoteShape(to) /\ Alive(to, st, memory, 0, <<>>) /\ Resting(to, st)
      BY ONLY RuntimeConfig, <3>2, <3>3, <3>4, RepliedOk
    <3> QED
      BY <3>1, <3>5, IdleParts, HandleOkIs
  <2>3. CASE g \notin Range(steps)
    <3>1. hd1[g] = hd[g]
      BY <1>1, <2>3
    <3> QED
      BY <2>1, <2>3, <3>1, IdleParts, HandleKept
  <2> QED
    BY <2>2, <2>3
<1> QED
  BY <1>1, <1>2, <1>3 DEF HandlesOk

LEMMA PrefillItemOk ==
  ASSUME RuntimeConfig, ~invalid, InvOf(engine, states, kv, cache, cmd, held), PrefillItem
  PROVE  ~invalid' /\ InvOf(engine', states', kv', cache', cmd', held')
<1>1. PICK e, sts, hd, c : e = engine /\ sts = states /\ hd = held /\ c = cmd
  OBVIOUS
<1>2. /\ Books(e) /\ SlotsAgree(e, sts, hd) /\ MemoryOk(e, kv) /\ CacheOk(cache)
      /\ \A g \in DOMAIN hd : HandleOk(g, sts, kv, c, hd)
      /\ CommandOk(c, sts, hd) /\ c.type = "prefill" /\ InvOf(e, sts, kv, cache, c, hd)
  BY <1>1, Zenon DEF InvOf, PrefillItem
<1>3. PICK steps, work : c = PrefillCommand(steps, work) /\ PrefillOk(steps, work, sts, hd)
  <2>1. c # Idle
    BY <1>2, IdleParts
  <2>2. c # DecodeCommand(c.steps, c.budget, c.round, c.taken, c.text)
    BY <1>2, DecodeParts
  <2> QED
    BY <1>2, <2>1, <2>2, CommandIs
<1>4. PICK item, h, s, mid : /\ item = Head(work) /\ h = item.handle /\ s = h.slot
                             /\ mid = Booked(sts[h.slot], item)
  OBVIOUS
<1>5. PICK expired \in 0 .. Len(cache), copied \in BOOLEAN :
           LET snap == Snapshot(mid, Pruned(cache, expired), copied)
               to == Committed(mid, snap.generation)
           IN  ItemStep(steps, work, states[s], AdvancePrefill(engine, mid.internal, item.logical),
                        snap, Put(states, s, to))
  <2>1. cmd = PrefillCommand(steps, work) /\ s = item.handle.slot /\ mid = Booked(states[s], item)
    BY <1>1, <1>3, <1>4
  <2> QED
    BY ONLY PrefillItem, <1>4, <2>1, PrefillItemIs
<1>6. PICK d, snap, to, answer, sts1 :
        /\ d = Pruned(cache, expired) /\ snap = Snapshot(mid, d, copied)
        /\ to = Committed(mid, snap.generation)
        /\ answer = AdvancePrefill(e, mid.internal, item.logical) /\ sts1 = Put(sts, h.slot, to)
  OBVIOUS
<1>7. ItemStep(steps, work, states[s], answer, snap, sts1)
  BY <1>1, <1>4, <1>5, <1>6, Zenon
<1>8. CacheOk(d)
  BY <1>2, <1>6, Config, PrunedOk
<1>9. ItemBooked(e, sts, kv, hd, h, item, answer, snap, to, sts1)
  BY ONLY RuntimeConfig, <1>2, <1>3, <1>4, <1>6, <1>8, ItemIsBooked, Zenon
<1>10. PICK f, c1 : f = answer.engine /\ c1 = snap.cache
  OBVIOUS
<1>11. /\ answer.status = "applied" /\ Books(f) /\ MemoryOk(f, kv) /\ CacheOk(c1)
       /\ NoteShape(hd[h]) /\ SlotsAgree(f, sts1, hd) /\ sts1[h.slot] = to
       /\ \A g \in DOMAIN hd \ {h} : sts1[g.slot] = sts[g.slot] /\ g.slot # h.slot
       /\ Progress(to) /\ ~to.terminal
       /\ ~(snap.due /\ snap.generation = NoGeneration) => Alive(hd[h], to, kv[h.slot], 0, <<>>)
  BY <1>9, <1>10 DEF ItemBooked, MovedSlots
<1>12. /\ h \in Range(steps) /\ h \in DOMAIN hd /\ hd[h].mode = "prefill"
       /\ Len(work) = 1 => Leaves(c, Idle, h)
  BY <1>3, <1>4, WorkHead
<1>13. /\ engine' = f /\ ~invalid' /\ cache' = c1 /\ states' = sts1 /\ kv' = kv
  BY <1>7, <1>10, <1>11 DEF ItemStep
<1>14. /\ Stepped(c) = Range(steps) /\ \A g : TextOf(c, g) = <<>>
  BY <1>3, PrefillParts
<1>15. CASE cmd' = Idle /\ held' = DoomedIn(held, Range(steps))
  <2>1. PICK hd1, S : hd1 = DoomedIn(hd, S) /\ S = Range(steps)
    OBVIOUS
  <2>2. \A g \in DOMAIN hd : NoteShape(hd[g])
    BY <1>2, HandleOkIs
  <2>3. ASSUME NEW g \in DOMAIN hd, g \notin S
        PROVE  /\ HandleOk(g, sts1, kv, c, hd) /\ g \notin Stepped(c)
               /\ Ahead(c, g) = 0 /\ TextOf(c, g) = <<>>
    <3>1. g \notin Stepped(c) /\ sts1[g.slot] = sts[g.slot]
      BY <1>11, <1>12, <1>14, <2>1, <2>3
    <3>2. Ahead(c, g) = 0
      BY <1>2, <3>1, Quiet
    <3>3. HandleOk(g, sts1, kv, c, hd)
      BY <1>2, <3>1, OthersKept
    <3> QED
      BY <1>14, <3>1, <3>2, <3>3
  <2>4. InvOf(f, sts1, kv, c1, Idle, hd1)
    BY ONLY <1>11, <2>1, <2>2, <2>3, ErrorOk
  <2> QED
    BY <1>1, <1>13, <1>15, <2>1, <2>4
<1>16. CASE /\ ~(snap.due /\ snap.generation = NoGeneration) /\ Len(work) = 1
            /\ cmd' = Idle /\ held' = Replied(held, steps, sts1)
  <2>1. PICK k : k = PrefillCommand(steps, <<>>)
    OBVIOUS
  <2>2. /\ k.type = "prefill" /\ Stepped(k) = Range(steps) /\ \A g : TextOf(k, g) = <<>>
        /\ Pending(k) = {}
    BY <2>1, PrefillParts
  <2>3. \A g : Ahead(k, g) = 0
    BY <2>2 DEF Ahead
  <2>4. ASSUME NEW g \in DOMAIN hd PROVE HandleOk(g, sts1, kv, k, hd)
    <3>1. CASE g = h
      BY <1>11, <1>12, <1>16, <2>2, <2>3, <3>1, HandleOkIs
    <3>2. CASE g # h
      <4>1. Ahead(c, g) = 0
        BY <1>12, <1>16, <3>2, IdleParts DEF Leaves
      <4> QED
        BY <1>2, <1>11, <1>14, <2>2, <2>3, <3>2, <4>1, OthersKept
    <3> QED
      BY <3>1, <3>2
  <2>5. \A g \in Range(steps) : hd[g].mode = "prefill" /\ ~sts1[g.slot].terminal
    <3>1. \A g \in Range(steps) : hd[g].mode = "prefill" /\ ~sts[g.slot].terminal /\ g \in DOMAIN hd
      BY <1>3, RangeIs DEF PrefillOk
    <3> QED
      BY <1>11, <3>1
  <2>6. PICK hd1 : hd1 = Replied(hd, steps, sts1)
    OBVIOUS
  <2>7. HandlesOk(f, sts1, kv, Idle, hd1)
    BY ONLY RuntimeConfig, <1>11, <2>2, <2>3, <2>4, <2>5, <2>6, ReplyPrefillOk
  <2>8. CommandOk(Idle, sts1, hd1)
    BY DEF CommandOk
  <2>9. InvOf(f, sts1, kv, c1, Idle, hd1)
    BY <1>11, <2>7, <2>8 DEF InvOf, HandlesOk
  <2> QED
    BY <1>1, <1>13, <1>16, <2>6, <2>9
<1>17. CASE /\ ~(snap.due /\ snap.generation = NoGeneration) /\ Len(work) # 1
            /\ cmd' = PrefillCommand(steps, Tail(work)) /\ held' = held
  <2>1. PICK rest, k : rest = Tail(work) /\ k = PrefillCommand(steps, rest)
    OBVIOUS
  <2>2. LeftOver(steps, work, rest, sts1, hd, h)
    <3>1. \A g \in DOMAIN hd \ {h} : sts1[g.slot] = sts[g.slot]
      BY <1>11
    <3>2. ~sts1[h.slot].terminal /\ Len(work) # 1
      BY <1>11, <1>17
    <3> QED
      BY ONLY <1>3, <1>4, <2>1, <3>1, <3>2, WorkLeft, Zenon
  <2>3. k.steps = steps /\ k.work = rest /\ Stepped(k) = Range(steps) /\ \A g : TextOf(k, g) = <<>>
    <3>1. k = PrefillCommand(steps, rest)
      BY <2>1
    <3> QED
      BY ONLY <3>1, PrefillParts
  <2>4. Leaves(c, k, h) /\ PrefillOk(steps, rest, sts1, hd)
    BY <1>3, <2>1, <2>2 DEF LeftOver
  <2>5. ASSUME NEW g \in DOMAIN hd PROVE HandleOk(g, sts1, kv, k, hd)
    <3>1. CASE g = h
      <4>1. Ahead(k, h) = 0 /\ h \in Stepped(k) /\ TextOf(k, h) = <<>>
        BY <1>12, <2>3, <2>4 DEF Leaves
      <4> QED
        BY <1>11, <1>17, <3>1, <4>1, HandleOkIs
    <3>2. CASE g # h
      <4>1. Ahead(k, g) = Ahead(c, g)
        BY <2>4, <3>2 DEF Leaves
      <4> QED
        BY <1>2, <1>11, <1>14, <2>3, <3>2, <4>1, OthersKept
    <3> QED
      BY <3>1, <3>2
  <2>6. CommandOk(k, sts1, hd)
    <3>1. k = PrefillCommand(k.steps, k.work) /\ PrefillOk(k.steps, k.work, sts1, hd)
      BY <2>1, <2>3, <2>4, Zenon
    <3> QED
      BY <3>1, CommandIs
  <2>7. InvOf(f, sts1, kv, c1, k, hd)
    BY <1>11, <2>5, <2>6 DEF InvOf
  <2> QED
    BY <1>1, <1>13, <1>17, <2>1, <2>7
<1>18. \/ cmd' = Idle /\ held' = DoomedIn(held, Range(steps))
       \/ /\ ~(snap.due /\ snap.generation = NoGeneration) /\ Len(work) = 1
          /\ cmd' = Idle /\ held' = Replied(held, steps, sts1)
       \/ /\ ~(snap.due /\ snap.generation = NoGeneration) /\ Len(work) # 1
          /\ cmd' = PrefillCommand(steps, Tail(work)) /\ held' = held
  BY <1>7 DEF ItemStep
<1> QED
  BY <1>15, <1>16, <1>17, <1>18

-----------------------------------------------------------------------------
(***************************************************************************)
(* decode_batch                                                            *)
(***************************************************************************)

LEMMA DecodeBatchIs ==
  ASSUME NEW e, NEW sts, SlotsAgree(e, sts, held), NEW steps \in DecodeBatches
  PROVE  steps \in Seq(DOMAIN held) /\ \A h \in Range(steps) : held[h].mode = "decode"
<1>1. PICK b \in SUBSET Able("decode") : steps = SetToSeq(b)
  BY DEF DecodeBatches
<1>2. b \in SUBSET DOMAIN held /\ \A h \in b : held[h].mode = "decode"
  BY DEF Able
<1>3. IsFiniteSet(b)
  BY <1>2, HandlesFinite, FS_Subset
<1>4. steps \in Seq(b)
  BY <1>1, <1>3, SetToSeqIs
<1>5. Range(steps) \subseteq b /\ \A i \in DOMAIN steps : steps[i] \in b
  BY <1>4, RangeIs, ElementOfSeq, LenProperties
<1>6. steps \in Seq(DOMAIN held)
  <2>1. PICK D : D = DOMAIN held
    OBVIOUS
  <2>2. b \in SUBSET D
    BY <1>2, <2>1
  <2>3. steps \in Seq(D)
    <3>1. Len(steps) \in Nat /\ DOMAIN steps = 1 .. Len(steps) /\ steps = [i \in DOMAIN steps |-> steps[i]]
      BY ONLY <1>4, LenProperties
    <3>2. \A i \in DOMAIN steps : steps[i] \in D
      BY <1>5, <2>2
    <3>3. PICK n \in Nat : n = Len(steps)
      BY <3>1
    <3>4. steps \in [1 .. n -> D]
      BY ONLY <3>1, <3>2, <3>3
    <3> QED
      BY ONLY <3>3, <3>4, SeqDef
  <2> QED
    BY <2>1, <2>3
<1> QED
  BY <1>2, <1>5, <1>6

NoneTaken(S) == [k \in S |-> 0]

NoText(S) == [k \in S |-> <<>>]

LEMMA NoRange == Range(<<>>) = {}
<1>1. PICK q : q = <<>>
  OBVIOUS
<1>2. q \in Seq({})
  BY <1>1, EmptySeq
<1>3. Range(q) \subseteq {}
  BY <1>2, RangeIs
<1> QED
  BY <1>1, <1>3

\* decode_batch: the rounds of a batch begin, or it was refused.
LEMMA DecodeBatchOk ==
  ASSUME RuntimeConfig, ~invalid, InvOf(engine, states, kv, cache, cmd, held),
         NEW steps \in DecodeBatches, NEW budget, DecodeBatch(steps, budget)
  PROVE  ~invalid' /\ InvOf(engine', states', kv', cache', cmd', held')
<1>1. PICK S, taken, text : S = Range(steps) /\ taken = NoneTaken(S) /\ text = NoText(S)
  OBVIOUS
<1>2. /\ cmd = Idle
      /\ engine' = engine /\ states' = states /\ kv' = kv /\ cache' = cache /\ invalid' = invalid
      /\ \/ cmd' = DecodeCommand(steps, budget, <<>>, taken, text) /\ held' = held
         \/ cmd' = Idle /\ held' = DoomedIn(held, S)
  <2>1. PICK ok \in BOOLEAN :
          ok <=> \A i \in DOMAIN steps : Steppable(steps[i], "decode") /\ ~states[steps[i].slot].terminal
    BY Zenon
  <2>2. /\ cmd = Idle
        /\ engine' = engine /\ states' = states /\ kv' = kv /\ cache' = cache /\ invalid' = invalid
        /\ IF ok
           THEN /\ cmd' = DecodeCommand(steps, budget, <<>>, NoneTaken(Range(steps)), NoText(Range(steps)))
                /\ held' = held
           ELSE ReplyError(steps)
    BY <2>1 DEF DecodeBatch, DecodeCommand, NoneTaken, NoText
  <2>3. ReplyError(steps) => cmd' = Idle /\ held' = DoomedIn(held, Range(steps))
    BY DEF ReplyError, Doomed, DoomedIn
  <2> QED
    BY <1>1, <2>2, <2>3
<1>3. PICK e, sts, m, hd : e = engine /\ sts = states /\ m = kv /\ hd = held
  OBVIOUS
<1>4. InvOf(e, sts, m, cache, Idle, hd)
  BY <1>2, <1>3
<1>5. CASE cmd' = Idle /\ held' = DoomedIn(held, S)
  <2>1. PICK hd1 : hd1 = DoomedIn(hd, S)
    OBVIOUS
  <2>2. Stepped(Idle) \subseteq S
    BY IdleParts
  <2>3. InvOf(e, sts, m, cache, Idle, hd1)
    BY ONLY <1>4, <2>1, <2>2, ErrorKeeps
  <2> QED
    BY <1>2, <1>3, <1>5, <2>1, <2>3
<1>6. CASE cmd' = DecodeCommand(steps, budget, <<>>, taken, text) /\ held' = held
  <2>1. PICK c, none : c = DecodeCommand(steps, budget, none, taken, text) /\ none = <<>>
    OBVIOUS
  <2>2. /\ Books(e) /\ SlotsAgree(e, sts, hd) /\ MemoryOk(e, m) /\ CacheOk(cache)
        /\ \A g \in DOMAIN hd : HandleOk(g, sts, m, Idle, hd)
    BY <1>4 DEF InvOf
  <2>3. steps \in Seq(DOMAIN hd) /\ \A h \in S : hd[h].mode = "decode"
    BY <1>1, <1>3, <2>2, DecodeBatchIs
  <2>4. /\ c.steps = steps /\ c.budget = budget /\ c.round = none /\ c.taken = taken
        /\ c.text = text /\ Stepped(c) = Range(steps)
        /\ \A h : /\ TextOf(c, h) = (IF h \in Range(steps) THEN text[h] ELSE <<>>)
                  /\ Ahead(c, h) = (IF h \in Range(none) THEN 1 ELSE 0)
    BY ONLY <2>1, DecodeParts
  <2>5. /\ Range(none) = {} /\ none \in Seq(S) /\ DOMAIN none = {}
    <3>1. none \in Seq(S) /\ Range(none) = {} /\ Len(none) = 0
      BY <2>1, NoRange, EmptySeq
    <3>2. DOMAIN none = 1 .. 0
      BY <3>1, LenProperties
    <3> QED
      BY <3>1, <3>2
  <2>6. /\ text \in [S -> Seq(Tokens)] /\ taken \in [S -> Nat] /\ \A h \in S : text[h] = <<>>
    <3>1. <<>> \in Seq(Tokens)
      BY EmptySeq
    <3> QED
      BY <1>1, <3>1 DEF NoneTaken, NoText
  <2>7. \A h : TextOf(c, h) = <<>> /\ Ahead(c, h) = 0
    BY <1>1, <2>4, <2>5, <2>6
  <2>8. ASSUME NEW h \in DOMAIN hd PROVE HandleOk(h, sts, m, c, hd)
    <3>1. /\ HandleOk(h, sts, m, Idle, hd) /\ h \notin Stepped(Idle)
          /\ Ahead(Idle, h) = 0 /\ TextOf(Idle, h) = <<>>
      BY <2>2, IdleParts
    <3>2. CASE h \in S
      <4>1. hd[h].mode = "decode"
        BY <2>3, <3>2
      <4>2. NoteShape(hd[h]) /\ Alive(hd[h], sts[h.slot], m[h.slot], 0, <<>>)
        BY <3>1, <4>1, HandleOkIs
      <4>3. h \in Stepped(c)
        BY <1>1, <2>4, <3>2
      <4> QED
        BY <2>7, <4>2, <4>3, HandleOkIs
    <3>3. CASE h \notin S
      <4>1. h \notin Stepped(c)
        BY <1>1, <2>4, <3>3
      <4> QED
        BY <2>7, <3>1, <4>1, HandleKept
    <3> QED
      BY <3>2, <3>3
  <2>9. CommandOk(c, sts, hd)
    <3>1. c = DecodeCommand(c.steps, c.budget, c.round, c.taken, c.text)
      BY <2>1, <2>4
    <3>2. DecodeOk(c.steps, c.round, c.taken, c.text, sts, hd)
      BY <1>1, <2>3, <2>4, <2>5, <2>6 DEF DecodeOk
    <3> QED
      BY <3>1, <3>2, CommandIs
  <2>10. InvOf(e, sts, m, cache, c, hd)
    BY <2>2, <2>8, <2>9 DEF InvOf
  <2> QED
    BY <1>2, <1>3, <1>6, <2>1, <2>10
<1> QED
  BY <1>2, <1>5, <1>6

-----------------------------------------------------------------------------
\* A sequence that is being decoded: its last token is still to be fed.
LEMMA DecodeState ==
  ASSUME RuntimeConfig, NEW st, Progress(st), ~st.terminal, st.logical = Len(Prompt(st)),
         NEW t, t = TokensOf(st)
  PROVE  /\ t \in Seq(Tokens) /\ Len(t) \in Nat /\ st.n_past \in 0 .. Len(t) - 1
         /\ st.n_past + 1 = Len(t) /\ st.pending = t[st.n_past + 1] /\ Prompt(st) \in Seq(Tokens)
         /\ st.n_past = Len(Prompt(st)) + Len(st.sampled) - 1
         /\ st.sampled \in Seq(Tokens) /\ Len(st.sampled) \in Nat /\ Len(Prompt(st)) \in Nat \ {0}
<1>1. PICK p, q, n, lo : p = Prompt(st) /\ q = st.sampled /\ n = st.n_past /\ lo = st.logical
  OBVIOUS
<1>2. p \in Seq(Tokens) /\ q \in Seq(Tokens) /\ Len(p) > 0 /\ st.pending = Last(t)
  BY <1>1, Config DEF Progress, Prompt
<1>3. t \in Seq(Tokens) /\ Len(t) = Len(p) + Len(q) /\ Len(p) \in Nat /\ Len(q) \in Nat
  <2>1. t = p \o q
    BY <1>1 DEF TokensOf
  <2> QED
    BY ONLY <1>2, <2>1, ConcatProperties, LenProperties
<1>4. PICK a, b : a = Len(p) /\ b = Len(q)
  OBVIOUS
<1>5. n = a - 1 + b
  <2>1. lo = a /\ st.physical = lo - 1 /\ st.n_past = st.physical + Len(st.sampled)
    BY <1>1, <1>4 DEF Progress
  <2> QED
    BY <1>1, <1>4, <2>1
<1>6. n \in 0 .. a + b - 1 /\ n + 1 = a + b /\ n = a + b - 1
  BY ONLY <1>2, <1>3, <1>4, <1>5
<1>7. Last(t) = t[Len(t)]
  BY DEF Last
<1>8. /\ n \in 0 .. Len(t) - 1 /\ n + 1 = Len(t) /\ n = Len(p) + Len(q) - 1 /\ Len(t) \in Nat
      /\ Len(p) \in Nat \ {0} /\ Len(q) \in Nat
  BY ONLY <1>2, <1>3, <1>4, <1>6
<1> QED
  BY <1>1, <1>2, <1>3, <1>7, <1>8, Zenon

\* llama.cpp remembers the pending token it is fed.
LEMMA FeedsPending ==
  ASSUME RuntimeConfig, NEW st, Progress(st), ~st.terminal, st.logical = Len(Prompt(st)),
         NEW memory, Remembers(st, memory, 0), NEW more, more = Append(memory, st.pending)
  PROVE  Remembers(st, more, 1)
<1>1. PICK t, n : t = TokensOf(st) /\ n = st.n_past
  OBVIOUS
<1>2. t \in Seq(Tokens) /\ Len(t) \in Nat /\ n \in 0 .. Len(t) - 1 /\ st.pending = t[n + 1]
  BY <1>1, DecodeState
<1>3. n + 0 = n
  BY <1>2
<1>4. memory = SubSeq(t, 1, n)
  BY <1>1, <1>3 DEF Remembers
<1>5. Append(SubSeq(t, 1, n), t[n + 1]) = SubSeq(t, 1, n + 1)
  BY ONLY <1>2, FrontAppend
<1>6. more = SubSeq(TokensOf(st), 1, st.n_past + 1)
  BY <1>1, <1>2, <1>4, <1>5, Zenon
<1> QED
  BY <1>6 DEF Remembers

\* A sequence a decode command steps.
LEMMA Decoding ==
  ASSUME RuntimeConfig, NEW e, NEW sts, NEW m, NEW c, NEW d, NEW hd, InvOf(e, sts, m, d, c, hd),
         NEW h \in Stepped(c), hd[h].mode = "decode", NEW st, st = sts[h.slot]
  PROVE  /\ h \in DOMAIN hd /\ h.slot \in LiveSlots(e) /\ h.slot \in Slots
         /\ Progress(st) /\ st.logical = Len(Prompt(st)) /\ NoteShape(hd[h])
         /\ Alive(hd[h], st, m[h.slot], Ahead(c, h), TextOf(c, h))
         /\ Remembers(st, m[h.slot], Ahead(c, h)) /\ Told(hd[h], st, TextOf(c, h))
<1>1. SlotsAgree(e, sts, hd) /\ CommandOk(c, sts, hd) /\ \A g \in DOMAIN hd : HandleOk(g, sts, m, c, hd)
  BY DEF InvOf
<1>2. h \in DOMAIN hd
  BY <1>1, PendingSteps
<1>3. NoteShape(hd[h]) /\ Alive(hd[h], st, m[h.slot], Ahead(c, h), TextOf(c, h))
  BY <1>1, <1>2, HandleOkIs
<1>4. Progress(st) /\ h.slot \in LiveSlots(e) /\ h.slot \in Slots
  BY <1>1, <1>2, HandleSlot
<1> QED
  BY <1>2, <1>3, <1>4, Zenon DEF Alive, Told

\* The sequences a round feeds.
ActiveIn(sts, steps, taken, budget) ==
  {k \in Range(steps) : ~sts[k.slot].terminal /\ taken[k] < budget}

LEMMA ActiveIs ==
  ASSUME NEW D, NEW steps \in Seq(D), NEW sts, NEW taken, NEW budget,
         NEW q, q = SetToSeq(ActiveIn(sts, steps, taken, budget))
  PROVE  /\ q \in Seq(Range(steps)) /\ \A i, j \in DOMAIN q : q[i] = q[j] => i = j
         /\ Range(q) \subseteq Range(steps)
         /\ \A h \in Range(q) : ~sts[h.slot].terminal
<1>1. PICK A : A = ActiveIn(sts, steps, taken, budget)
  OBVIOUS
<1>2. A \in SUBSET Range(steps) /\ \A h \in A : ~sts[h.slot].terminal
  BY <1>1 DEF ActiveIn
<1>3. IsFiniteSet(Range(steps))
  BY RangeIs
<1>4. IsFiniteSet(A)
  BY <1>2, <1>3, FS_Subset
<1>5. q \in Seq(A) /\ \A i, j \in DOMAIN q : q[i] = q[j] => i = j
  BY <1>1, <1>4, SetToSeqIs
<1>6. Range(q) \subseteq A
  BY <1>5, RangeIs
<1>7. q \in Seq(Range(steps))
  <2>1. PICK R : R = Range(steps)
    OBVIOUS
  <2>2. /\ Len(q) \in Nat /\ DOMAIN q = 1 .. Len(q) /\ q = [i \in DOMAIN q |-> q[i]]
        /\ \A i \in DOMAIN q : q[i] \in A
    BY ONLY <1>5, LenProperties, ElementOfSeq
  <2>3. PICK n \in Nat : n = Len(q)
    BY <2>2
  <2>4. q \in [1 .. n -> R]
    BY ONLY <1>2, <2>1, <2>2, <2>3
  <2>5. q \in Seq(R)
    BY ONLY <2>3, <2>4, SeqDef
  <2> QED
    BY <2>1, <2>5
<1> QED
  BY <1>2, <1>5, <1>6, <1>7

-----------------------------------------------------------------------------
\* The memory after a round was fed.
FedRound(m, sts, q) ==
  [s \in Slots |-> IF \E k \in Range(q) : k.slot = s THEN Append(m[s], sts[s].pending) ELSE m[s]]

LEMMA DecodeRoundIs ==
  ASSUME DecodeRound, NEW c, c = cmd, NEW steps, NEW budget, NEW taken, NEW text, NEW none,
         none = <<>>, c = DecodeCommand(steps, budget, c.round, taken, text),
         NEW q, q = SetToSeq(ActiveIn(states, steps, taken, budget))
  PROVE  /\ c.round = none
         /\ engine' = engine /\ states' = states /\ cache' = cache /\ invalid' = invalid
         /\ \/ /\ kv' = FedRound(kv, states, q) /\ cmd' = DecodeCommand(steps, budget, q, taken, text)
               /\ held' = held
            \/ cmd' = Idle /\ held' = DoomedIn(held, Range(steps)) /\ kv' = kv
<1>1. PICK r : r = c.round
  OBVIOUS
<1>2. c = DecodeCommand(steps, budget, r, taken, text)
  BY <1>1
<1>3. c.steps = steps /\ c.budget = budget /\ c.taken = taken
  BY ONLY <1>2, DecodeParts
<1>4. Active = q
  BY <1>3 DEF Active, ActiveIn
<1>5. /\ cmd.round = <<>>
      /\ \/ /\ kv' = [s \in Slots |-> IF \E k \in Range(q) : k.slot = s
                                      THEN Append(kv[s], states[s].pending) ELSE kv[s]]
            /\ cmd' = [cmd EXCEPT !.round = q] /\ held' = held
         \/ ReplyError(cmd.steps) /\ kv' = kv
      /\ engine' = engine /\ states' = states /\ cache' = cache /\ invalid' = invalid
  BY <1>4 DEF DecodeRound
<1>6. [c EXCEPT !.round = q] = DecodeCommand(steps, budget, q, taken, text)
  BY ONLY <1>2 DEF DecodeCommand
<1>7. ReplyError(cmd.steps) => cmd' = Idle /\ held' = DoomedIn(held, Range(steps))
  BY <1>3 DEF ReplyError, Doomed, DoomedIn
<1> QED
  BY <1>5, <1>6, <1>7 DEF FedRound

\* A round: the pending token of every active sequence is fed.
LEMMA DecodeRoundOk ==
  ASSUME RuntimeConfig, ~invalid, InvOf(engine, states, kv, cache, cmd, held), DecodeRound
  PROVE  ~invalid' /\ InvOf(engine', states', kv', cache', cmd', held')
<1>1. PICK e, sts, m, hd, c, none : /\ e = engine /\ sts = states /\ m = kv /\ hd = held
                                    /\ c = cmd /\ none = <<>>
  OBVIOUS
<1>2. /\ Books(e) /\ SlotsAgree(e, sts, hd) /\ MemoryOk(e, m) /\ CacheOk(cache)
      /\ \A g \in DOMAIN hd : HandleOk(g, sts, m, c, hd)
      /\ CommandOk(c, sts, hd) /\ c.type = "decode" /\ InvOf(e, sts, m, cache, c, hd)
  BY <1>1 DEF InvOf, DecodeRound
<1>3. c # Idle
  BY <1>2, IdleParts
<1>4. PICK steps, budget, round, taken, text :
        /\ c = DecodeCommand(steps, budget, round, taken, text) /\ round = c.round
        /\ DecodeOk(steps, round, taken, text, sts, hd)
  <2>1. c # PrefillCommand(c.steps, c.work)
    BY <1>2, PrefillParts
  <2> QED
    BY <1>2, <1>3, <2>1, CommandIs
<1>5. PICK q : q = SetToSeq(ActiveIn(sts, steps, taken, budget))
  OBVIOUS
<1>6. /\ round = none
      /\ engine' = engine /\ states' = states /\ cache' = cache /\ invalid' = invalid
      /\ \/ /\ kv' = FedRound(kv, states, q) /\ cmd' = DecodeCommand(steps, budget, q, taken, text)
            /\ held' = held
         \/ cmd' = Idle /\ held' = DoomedIn(held, Range(steps)) /\ kv' = kv
  <2>1. c = cmd /\ none = <<>> /\ c = DecodeCommand(steps, budget, c.round, taken, text)
        /\ q = SetToSeq(ActiveIn(states, steps, taken, budget))
    BY <1>1, <1>4, <1>5
  <2>2. /\ c.round = none
        /\ engine' = engine /\ states' = states /\ cache' = cache /\ invalid' = invalid
        /\ \/ /\ kv' = FedRound(kv, states, q) /\ cmd' = DecodeCommand(steps, budget, q, taken, text)
              /\ held' = held
           \/ cmd' = Idle /\ held' = DoomedIn(held, Range(steps)) /\ kv' = kv
    BY ONLY <2>1, DecodeRound, DecodeRoundIs
  <2> QED
    BY <1>4, <2>2
<1>7. /\ Stepped(c) = Range(steps)
      /\ \A h : /\ TextOf(c, h) = (IF h \in Range(steps) THEN text[h] ELSE <<>>)
                /\ Ahead(c, h) = (IF h \in Range(round) THEN 1 ELSE 0)
  BY <1>4, DecodeParts
<1>8. CASE cmd' = Idle /\ held' = DoomedIn(held, Range(steps)) /\ kv' = kv
  <2>1. PICK hd1, S : hd1 = DoomedIn(hd, S) /\ S = Range(steps)
    OBVIOUS
  <2>2. Stepped(c) \subseteq S
    BY <1>7, <2>1
  <2>3. InvOf(e, sts, m, cache, Idle, hd1)
    BY ONLY <1>2, <2>1, <2>2, ErrorKeeps
  <2> QED
    BY <1>1, <1>6, <1>8, <2>1, <2>3
<1>9. CASE /\ kv' = FedRound(kv, states, q) /\ cmd' = DecodeCommand(steps, budget, q, taken, text)
           /\ held' = held
  <2>1. PICK m1, k : m1 = FedRound(m, sts, q) /\ k = DecodeCommand(steps, budget, q, taken, text)
    OBVIOUS
  <2>2. /\ steps \in Seq(DOMAIN hd) /\ text \in [Range(steps) -> Seq(Tokens)]
        /\ taken \in [Range(steps) -> Nat] /\ \A h \in Range(steps) : hd[h].mode = "decode"
    BY <1>4 DEF DecodeOk
  <2>3. /\ q \in Seq(Range(steps)) /\ \A i, j \in DOMAIN q : q[i] = q[j] => i = j
        /\ Range(q) \subseteq Range(steps)
        /\ \A h \in Range(q) : ~sts[h.slot].terminal
    BY <1>5, <2>2, ActiveIs
  <2>4. Range(round) = {}
    BY <1>1, <1>6, NoRange
  <2>5. /\ k.steps = steps /\ k.budget = budget /\ k.round = q /\ k.taken = taken /\ k.text = text
        /\ Stepped(k) = Range(steps)
        /\ \A h : /\ TextOf(k, h) = (IF h \in Range(steps) THEN text[h] ELSE <<>>)
                  /\ Ahead(k, h) = (IF h \in Range(q) THEN 1 ELSE 0)
    <3>1. k = DecodeCommand(steps, budget, q, taken, text)
      BY <2>1
    <3> QED
      BY ONLY <3>1, DecodeParts
  <2>6. \A h : TextOf(k, h) = TextOf(c, h) /\ Ahead(c, h) = 0
    BY <1>7, <2>4, <2>5
  <2>7. /\ m1 = [s \in Slots |-> m1[s]]
        /\ \A s \in Slots : m1[s] = IF \E g \in Range(q) : g.slot = s
                                    THEN Append(m[s], sts[s].pending) ELSE m[s]
    BY <2>1 DEF FedRound
  <2>8. ASSUME NEW h \in DOMAIN hd PROVE HandleOk(h, sts, m1, k, hd)
    <3>1. h.slot \in Slots
      BY <1>2, HandleSlot
    <3>2. CASE h \in Range(q)
      <4>1. PICK st, s, note, memory : st = sts[h.slot] /\ s = h.slot /\ note = hd[h] /\ memory = m[s]
        OBVIOUS
      <4>2. h \in Stepped(c) /\ note.mode = "decode" /\ ~st.terminal
        BY <1>7, <2>2, <2>3, <3>2, <4>1
      <4>3. /\ Progress(st) /\ st.logical = Len(Prompt(st)) /\ NoteShape(note)
            /\ Remembers(st, memory, 0) /\ Told(note, st, TextOf(c, h))
        BY <1>2, <2>6, <4>1, <4>2, Decoding
      <4>4. m1[s] = Append(memory, st.pending)
        BY <2>7, <3>1, <3>2, <4>1
      <4>5. Remembers(st, m1[s], 1)
        BY ONLY RuntimeConfig, <4>2, <4>3, <4>4, FeedsPending
      <4>6. Ahead(k, h) = 1 /\ TextOf(k, h) = TextOf(c, h) /\ h \in Stepped(k)
        BY <2>2, <2>3, <2>5, <2>6, <3>2
      <4>7. Alive(note, st, m1[s], Ahead(k, h), TextOf(k, h))
        BY <4>3, <4>5, <4>6 DEF Alive
      <4> QED
        BY <4>1, <4>3, <4>6, <4>7, HandleOkIs
    <3>3. CASE h \notin Range(q)
      <4>1. \A g \in Range(q) : g.slot # h.slot
        <5> TAKE g \in Range(q)
        <5>1. g \in DOMAIN hd
          BY <2>2, <2>3, RangeIs
        <5> QED
          BY <1>2, <3>3, <5>1, SameSlot
      <4>2. m1[h.slot] = m[h.slot]
        BY <2>7, <3>1, <4>1
      <4>3. Ahead(k, h) = Ahead(c, h) /\ TextOf(k, h) = TextOf(c, h) /\ (h \in Stepped(k) <=> h \in Stepped(c))
        BY <1>7, <2>5, <2>6, <3>3
      <4> QED
        BY <1>2, <4>2, <4>3, HandleKept
    <3> QED
      BY <3>2, <3>3
  <2>9. MemoryOk(e, m1)
    <3>1. ASSUME NEW s \in Slots \ LiveSlots(e) PROVE m1[s] = <<>>
      <4>1. \A g \in Range(q) : g.slot # s
        <5> TAKE g \in Range(q)
        <5>1. g \in DOMAIN hd
          BY <2>2, <2>3, RangeIs
        <5> QED
          BY <1>2, <5>1, HandleSlot
      <4> QED
        BY <1>2, <2>7, <4>1 DEF MemoryOk
    <3> QED
      BY <2>7, <3>1 DEF MemoryOk
  <2>10. CommandOk(k, sts, hd)
    <3>1. k = DecodeCommand(k.steps, k.budget, k.round, k.taken, k.text)
      BY <2>1, <2>5
    <3>2. DecodeOk(k.steps, k.round, k.taken, k.text, sts, hd)
      BY <2>2, <2>3, <2>5 DEF DecodeOk
    <3> QED
      BY <3>1, <3>2, CommandIs
  <2>11. InvOf(e, sts, m1, cache, k, hd)
    BY <1>2, <2>8, <2>9, <2>10 DEF InvOf
  <2> QED
    BY <1>1, <1>6, <1>9, <2>1, <2>11
<1> QED
  BY <1>6, <1>8, <1>9

-----------------------------------------------------------------------------
\* A token is counted in the slot ledger.
SlotIs(e, f, s, cell) ==
  Books(f) /\ LiveSlots(f) = LiveSlots(e) /\ OnlySlot(e, f, s) /\ f.slots[s] = cell

DecodedIn(e, answer, s, cell) ==
  answer.status = "applied" /\ SlotIs(e, answer.engine, s, cell)

LEMMA DecodeAdvances ==
  ASSUME RuntimeConfig, NEW e, NEW sts, NEW hd, Books(e), SlotsAgree(e, sts, hd),
         NEW h \in DOMAIN hd, NEW st, st = sts[h.slot], NEW x, Sampling(st, x),
         NEW answer, answer = AdvanceDecode(e, st.internal, 1),
         NEW s, s = h.slot, NEW slot, slot = e.slots[s]
  PROVE  DecodedIn(e, answer, s, CellTo(slot, "decode", slot.prompt_tokens_processed, Len(st.sampled) + 1))
<1>1. /\ s \in LiveSlots(e) /\ s \in Slots /\ st.internal = h /\ h = HandleIn(e, s)
      /\ Fills(slot, st, s)
  BY HandleSlot
<1>2. ~st.terminal /\ st.logical = Len(Prompt(st)) /\ Len(st.sampled) < total_budget /\ Len(st.sampled) \in Nat
  BY SamplingParts DEF Sampling
<1>3. slot.lifecycle = "decode"
  BY ONLY <1>1, <1>2 DEF Fills
<1>4. slot.decoded_tokens = Len(st.sampled) /\ slot.output_token_budget = total_budget
  BY ONLY <1>1 DEF Fills
<1>5. slot.decoded_tokens \in Nat /\ slot.decoded_tokens < slot.output_token_budget
  BY <1>2, <1>4
<1>6. PICK f, n, d : f = MoveTo(e, s, "decode", n, d) /\ n = slot.prompt_tokens_processed
                     /\ d = Len(st.sampled) + 1
  OBVIOUS
<1>7. answer = AdvanceDecode(e, h, 1)
  BY <1>1
<1>8. Applied(answer, MoveTo(e, s, "decode", slot.prompt_tokens_processed, slot.decoded_tokens + 1))
  BY ONLY Books(e), slot = e.slots[s], <1>1, <1>3, <1>5, <1>7, AdvanceDecodeMoves
<1>9. answer.status = "applied" /\ answer.engine = f
  BY <1>4, <1>6, <1>8 DEF Applied
<1>10. "decode" # "released"
  OBVIOUS
<1>11. /\ Books(f) /\ LiveSlots(f) = LiveSlots(e) /\ OnlySlot(e, f, s)
       /\ f.slots[s] = CellTo(e.slots[s], "decode", n, d)
  BY ONLY Books(e), <1>1, <1>6, <1>10, MovesTo
<1> QED
  BY <1>6, <1>9, <1>11, Zenon DEF DecodedIn, SlotIs

LEMMA CellToParts ==
  ASSUME NEW slot, NEW l, NEW n, NEW d, NEW cell, cell = CellTo(slot, l, n, d)
  PROVE  /\ cell.generation = slot.generation /\ cell.key = slot.key /\ cell.lifecycle = l
         /\ cell.prompt_tokens = slot.prompt_tokens
         /\ cell.output_token_budget = slot.output_token_budget
         /\ cell.prompt_tokens_processed = n /\ cell.decoded_tokens = d
         /\ \A k, n2, d2 : CellTo(cell, k, n2, d2) = CellTo(slot, k, n2, d2)
BY DEF CellTo, Cell

\* A token that ends the sequence ends it in the ledger too.
LEMMA TokenAdvances ==
  ASSUME NEW e, NEW s \in LiveSlots(e), NEW h, h = HandleIn(e, s), NEW slot, slot = e.slots[s],
         NEW n, NEW d, NEW f, SlotIs(e, f, s, CellTo(slot, "decode", n, d)),
         NEW g, g = Finish(f, h).engine
  PROVE  SlotIs(e, g, s, CellTo(slot, "terminal", n, d))
<1>1. PICK cell : cell = CellTo(slot, "decode", n, d)
  OBVIOUS
<1>2. /\ cell.generation = slot.generation /\ cell.key = slot.key /\ cell.lifecycle = "decode"
      /\ cell.prompt_tokens_processed = n /\ cell.decoded_tokens = d
      /\ CellTo(cell, "terminal", n, d) = CellTo(slot, "terminal", n, d)
  BY ONLY <1>1, CellToParts
<1>3. Books(f) /\ LiveSlots(f) = LiveSlots(e) /\ OnlySlot(e, f, s) /\ f.slots[s] = cell
  BY <1>1 DEF SlotIs
<1>4. h = HandleIn(f, s) /\ s \in LiveSlots(f)
  BY <1>2, <1>3 DEF HandleIn
<1>5. Applied(Finish(f, h), MoveTo(f, s, "terminal", cell.prompt_tokens_processed, cell.decoded_tokens))
  <2>1. cell = f.slots[s]
    BY <1>3
  <2>2. Books(f) /\ cell.lifecycle = "decode"
    BY <1>2, <1>3
  <2> QED
    BY ONLY <1>4, <2>1, <2>2, EndsMoves
<1>6. g = MoveTo(f, s, "terminal", n, d)
  BY <1>2, <1>5 DEF Applied
<1>7. /\ Books(g) /\ LiveSlots(g) = LiveSlots(f) /\ OnlySlot(f, g, s)
      /\ g.slots[s] = CellTo(f.slots[s], "terminal", n, d)
  <2>1. "terminal" # "released"
    OBVIOUS
  <2> QED
    BY ONLY <1>3, <1>4, <1>6, <2>1, MovesTo
<1>8. OnlySlot(e, g, s)
  BY <1>3, <1>7 DEF OnlySlot
<1> QED
  BY <1>2, <1>3, <1>7, <1>8 DEF SlotIs

\* The sequence after a token, in its slot.
LEMMA SampledOccupies ==
  ASSUME RuntimeConfig, NEW e, NEW sts, NEW hd, SlotsAgree(e, sts, hd),
         NEW h \in DOMAIN hd, NEW st, st = sts[h.slot], NEW x, Sampling(st, x),
         NEW n, NEW text, SampledOk(st, n, text, x), NEW s, s = h.slot, NEW slot, slot = e.slots[s],
         NEW l, l = (IF n.terminal THEN "terminal" ELSE "decode"),
         NEW cell, cell = CellTo(slot, l, slot.prompt_tokens_processed, Len(st.sampled) + 1)
  PROVE  SequenceIn(cell, n, s)
<1>1. st.internal = h /\ Fills(slot, st, s) /\ h = HandleIn(e, s)
  BY HandleSlot
<1>2. /\ n.internal = st.internal /\ n.request = st.request /\ n.logical = st.logical
      /\ n.sampled = Append(st.sampled, x) /\ StateShape(n) /\ Progress(n) /\ Spoken(n)
  BY DEF SampledOk
<1>3. st.logical = Len(Prompt(st)) /\ st.sampled \in Seq(Tokens) /\ x \in Tokens
  BY DEF Sampling, Progress
<1>4. Len(Append(st.sampled, x)) = Len(st.sampled) + 1
  BY ONLY <1>3, AppendProperties
<1>5. /\ cell.generation = slot.generation /\ cell.key = slot.key /\ cell.lifecycle = l
      /\ cell.prompt_tokens = slot.prompt_tokens
      /\ cell.output_token_budget = slot.output_token_budget
      /\ cell.prompt_tokens_processed = slot.prompt_tokens_processed
      /\ cell.decoded_tokens = Len(st.sampled) + 1
  BY ONLY cell = CellTo(slot, l, slot.prompt_tokens_processed, Len(st.sampled) + 1), CellToParts
<1>6. Prompt(n) = Prompt(st)
  BY <1>2 DEF Prompt
<1>7. /\ cell.key = n.request /\ cell.prompt_tokens = Len(Prompt(n))
      /\ cell.output_token_budget = total_budget
      /\ cell.prompt_tokens_processed = n.logical
  BY <1>1, <1>2, <1>5, <1>6, Zenon DEF Fills
<1>8. cell.decoded_tokens = Len(n.sampled)
  BY <1>2, <1>4, <1>5, Zenon
<1>9. n.internal = Handle(s, cell.generation, cell.key)
  <2>1. h = Handle(s, e.slots[s].generation, e.slots[s].key)
    BY ONLY <1>1 DEF HandleIn
  <2>2. cell.generation = e.slots[s].generation /\ cell.key = e.slots[s].key
    BY ONLY <1>5, slot = e.slots[s]
  <2> QED
    BY ONLY <1>1, <1>2, <2>1, <2>2
<1>10. cell.lifecycle = (IF n.terminal THEN "terminal"
                         ELSE IF n.logical = Len(Prompt(n)) THEN "decode" ELSE "prefill")
  <2>1. n.logical = Len(Prompt(n))
    BY <1>2, <1>3, <1>6
  <2> QED
    BY <1>5, <2>1, Zenon
<1>11. Fills(cell, n, s)
  BY <1>7, <1>8, <1>9, <1>10, Zenon DEF Fills
<1> QED
  BY <1>2, <1>11, RealState DEF SequenceIn

-----------------------------------------------------------------------------
\* The first of a round is left behind.
RoundLeft(R, round, rest, k) ==
  /\ k \in R /\ k \in Range(round) /\ k \notin Range(rest) /\ rest \in Seq(R)
  /\ \A i, j \in DOMAIN rest : rest[i] = rest[j] => i = j
  /\ Range(rest) \subseteq Range(round)
  /\ \A g : g # k => (g \in Range(rest) <=> g \in Range(round))

LEMMA RoundHead ==
  ASSUME NEW R, NEW round \in Seq(R), \A i, j \in DOMAIN round : round[i] = round[j] => i = j,
         round # <<>>, NEW k, k = Head(round), NEW rest, rest = Tail(round)
  PROVE  RoundLeft(R, round, rest, k)
<1>1. Len(round) \in Nat \ {0} /\ DOMAIN round = 1 .. Len(round) /\ \A i \in DOMAIN round : round[i] \in R
  BY LenProperties, ElementOfSeq, EmptySeq
<1>2. 1 \in DOMAIN round /\ k = round[1]
  BY <1>1
<1>3. /\ rest \in Seq(R) /\ Len(rest) = Len(round) - 1
      /\ \A i \in 1 .. Len(rest) : rest[i] = round[i + 1]
  BY HeadTailProperties
<1>4. /\ DOMAIN rest = 1 .. Len(rest)
      /\ \A i \in DOMAIN rest : i + 1 \in DOMAIN round /\ rest[i] = round[i + 1] /\ i \in Nat /\ i + 1 # 1
  <2>1. Len(rest) \in Nat /\ DOMAIN rest = 1 .. Len(rest)
    BY <1>3, LenProperties
  <2> QED
    BY <1>1, <1>3, <2>1
<1>5. ASSUME NEW i \in DOMAIN rest, NEW j \in DOMAIN rest, rest[i] = rest[j] PROVE i = j
  <2>1. i + 1 = j + 1
    BY <1>4, <1>5
  <2> QED
    BY <1>4, <2>1
<1>6. /\ \A g \in Range(rest) : \E i \in DOMAIN rest : g = rest[i]
      /\ \A i \in DOMAIN rest : rest[i] \in Range(rest)
      /\ \A g \in Range(round) : \E i \in DOMAIN round : g = round[i]
      /\ \A i \in DOMAIN round : round[i] \in Range(round)
  <2>1. rest \in Seq(R) /\ round \in Seq(R)
    BY <1>3
  <2> QED
    BY ONLY <2>1, RangeIs
<1>7. k \notin Range(rest)
  BY <1>2, <1>4, <1>6
<1>8. Range(rest) \subseteq Range(round)
  BY <1>4, <1>6
<1>9. ASSUME NEW g \in Range(round), g # k PROVE g \in Range(rest)
  <2>1. PICK i \in DOMAIN round : g = round[i]
    BY <1>6
  <2>2. i - 1 \in DOMAIN rest /\ rest[i - 1] = round[i]
    BY <1>1, <1>2, <1>3, <1>4, <1>9, <2>1
  <2> QED
    BY <1>6, <2>1, <2>2
<1> QED
  BY <1>1, <1>2, <1>3, <1>5, <1>6, <1>7, <1>8, <1>9 DEF RoundLeft

\* The token fed in the round is the sampled sequence's last but one.
LEMMA OneMoreRemembered ==
  ASSUME RuntimeConfig, NEW st, NEW x, Sampling(st, x), NEW memory, Remembers(st, memory, 1),
         NEW n, NEW text, SampledOk(st, n, text, x)
  PROVE  Remembers(n, memory, 0)
<1>1. Progress(st) /\ ~st.terminal /\ st.logical = Len(Prompt(st)) /\ x \in Tokens
  BY DEF Sampling
<1>2. PICK p, sa, t, len : p = Prompt(st) /\ sa = st.sampled /\ t = TokensOf(st) /\ len = Len(t)
  OBVIOUS
<1>3. /\ len \in Nat /\ st.n_past + 1 = len /\ p \in Seq(Tokens) /\ sa \in Seq(Tokens)
      /\ t = p \o sa
  BY <1>1, <1>2, DecodeState DEF TokensOf
<1>4. /\ n.request = st.request /\ n.physical = st.physical /\ n.cached = st.cached
      /\ n.committed = st.committed /\ n.sampled = Append(sa, x) /\ n.n_past = len
  BY <1>2, <1>3 DEF SampledOk
<1>5. TokensOf(n) = p \o Append(sa, x)
  BY <1>2, <1>4 DEF TokensOf, Prompt
<1>6. SubSeq(p \o Append(sa, x), 1, len) = SubSeq(t, 1, len)
  <2>1. len \in 0 .. Len(p \o sa)
    BY <1>2, <1>3
  <2>2. SubSeq(p \o Append(sa, x), 1, len) = SubSeq(p \o sa, 1, len)
    BY ONLY <1>1, <1>3, <2>1, OneMore
  <2> QED
    BY <1>3, <2>2
<1>7. memory = SubSeq(t, 1, len)
  BY <1>2, <1>3 DEF Remembers
<1>8. n.n_past + 0 = len
  BY <1>3, <1>4
<1>9. memory = SubSeq(TokensOf(n), 1, n.n_past + 0)
  BY <1>5, <1>6, <1>7, <1>8
<1>10. CommitsInTime(n)
  BY <1>4 DEF Remembers, CommitsInTime
<1> QED
  BY <1>9, <1>10 DEF Remembers

\* The client has what it was told so far and what the command has for it.
LEMMA OneMoreTold ==
  ASSUME NEW st, NEW x, Sampling(st, x), NEW note, note.mode = "decode", NEW said \in Seq(Tokens),
         Told(note, st, said), NEW n, NEW text, SampledOk(st, n, text, x), Continues(st, n, text),
         NEW more, more = said \o text
  PROVE  Told(note, n, more)
<1>1. st.logical = Len(Prompt(st)) /\ note.text \in Seq(Tokens) /\ ~st.failed
  BY SamplingParts DEF Sampling, Told
<1>2. PICK a, b : a = note.text /\ b = note.text \o said
  OBVIOUS
<1>3. a \in Seq(Tokens) /\ text \in Seq(Tokens) /\ b = a \o said
  BY <1>1, <1>2 DEF SampledOk
<1>4. b \in Seq(Tokens) /\ a \o more = b \o text
  <2>1. b \in Seq(Tokens)
    BY ONLY <1>3, said \in Seq(Tokens), ConcatProperties
  <2>2. a \o (said \o text) = (a \o said) \o text
    BY ONLY <1>3, said \in Seq(Tokens), ConcatAssociative
  <2> QED
    BY ONLY <1>3, more = said \o text, <2>1, <2>2
<1>5. b \o st.utf8.pending = st.final_bytes
  BY <1>1, <1>2, Zenon DEF Told
<1>6. ~n.failed => (b \o text) \o n.utf8.pending = n.final_bytes
  BY <1>4, <1>5, Zenon DEF Continues
<1>7. n.logical = Len(Prompt(n))
  BY <1>1 DEF SampledOk, Prompt
<1>8. note.mode # "finished" /\ note.mode # "failed"
  OBVIOUS
<1>9. ~n.failed => (note.text \o more) \o n.utf8.pending = n.final_bytes
  BY <1>2, <1>4, <1>6, Zenon
<1> QED
  BY <1>1, <1>7, <1>8, <1>9, Zenon DEF Told

-----------------------------------------------------------------------------
\* What a token adds to the count and to the text of its command.
MoreTaken(taken, k) == [taken EXCEPT ![k] = @ + 1]

MoreText(text, k, piece) == [text EXCEPT ![k] = @ \o piece]

TokenStep(steps, budget, rest, taken, text, k, st, answer, next) ==
  /\ states' = Put(states, k.slot, next.state)
  /\ engine' = (IF next.state.terminal THEN Finish(answer.engine, st.internal).engine
                ELSE answer.engine)
  /\ invalid' = (invalid \/ answer.status # "applied")
  /\ cmd' = DecodeCommand(steps, budget, rest, MoreTaken(taken, k), MoreText(text, k, next.text))
  /\ kv' = kv /\ cache' = cache /\ held' = held

\* A decode command, updated.
MoreOf(c, q, t, u) == [c EXCEPT !.round = q, !.taken = t, !.text = u]

LEMMA CommandMoves ==
  ASSUME NEW c, NEW steps, NEW budget, NEW round, NEW taken, NEW text,
         c = DecodeCommand(steps, budget, round, taken, text), NEW q, NEW t, NEW u,
         NEW more, more = MoreOf(c, q, t, u)
  PROVE  more = DecodeCommand(steps, budget, q, t, u)
<1>1. PICK d : d = [c EXCEPT !.round = q]
  OBVIOUS
<1>2. d = DecodeCommand(steps, budget, q, taken, text)
  BY ONLY <1>1, c = DecodeCommand(steps, budget, round, taken, text) DEF DecodeCommand
<1>3. PICK f : f = [d EXCEPT !.taken = t]
  OBVIOUS
<1>4. f = DecodeCommand(steps, budget, q, t, text)
  BY ONLY <1>2, <1>3 DEF DecodeCommand
<1>5. [f EXCEPT !.text = u] = DecodeCommand(steps, budget, q, t, u)
  BY ONLY <1>4 DEF DecodeCommand
<1>6. [[[c EXCEPT !.round = q] EXCEPT !.taken = t] EXCEPT !.text = u]
      = [c EXCEPT !.round = q, !.taken = t, !.text = u]
  BY Zenon
<1> QED
  BY <1>1, <1>3, <1>5, <1>6 DEF MoreOf

LEMMA DecodeSampleIs ==
  ASSUME NEW x, DecodeSample(x), NEW c, c = cmd, NEW steps, NEW budget, NEW round, NEW taken, NEW text,
         c = DecodeCommand(steps, budget, round, taken, text),
         NEW k, k = Head(round), NEW rest, rest = Tail(round), NEW st, st = states[k.slot],
         NEW answer, answer = AdvanceDecode(engine, st.internal, 1),
         NEW next, next = Sampled(st, x, answer.engine.slots[k.slot].decoded_tokens)
  PROVE  TokenStep(steps, budget, rest, taken, text, k, st, answer, next)
<1>1. c.round = round
  BY ONLY c = DecodeCommand(steps, budget, round, taken, text), DecodeParts
<1>2. LET g == Head(cmd.round)
          s == states[g.slot]
          a == AdvanceDecode(engine, s.internal, 1)
          n == Sampled(s, x, a.engine.slots[g.slot].decoded_tokens)
      IN  /\ states' = Put(states, g.slot, n.state)
          /\ engine' = IF n.state.terminal THEN Finish(a.engine, s.internal).engine ELSE a.engine
          /\ invalid' = (invalid \/ a.status # "applied")
          /\ cmd' = [cmd EXCEPT !.round = Tail(@), !.taken[g] = @ + 1, !.text[g] = @ \o n.text]
  BY Zenon DEF DecodeSample, Put
<1>3. /\ states' = Put(states, k.slot, next.state)
      /\ engine' = (IF next.state.terminal THEN Finish(answer.engine, st.internal).engine
                    ELSE answer.engine)
      /\ invalid' = (invalid \/ answer.status # "applied")
      /\ cmd' = [cmd EXCEPT !.round = Tail(@), !.taken[k] = @ + 1, !.text[k] = @ \o next.text]
  <2> DEFINE g == Head(cmd.round)
             s == states[g.slot]
             a == AdvanceDecode(engine, s.internal, 1)
             n == Sampled(s, x, a.engine.slots[g.slot].decoded_tokens)
  <2>1. /\ states' = Put(states, g.slot, n.state)
        /\ engine' = (IF n.state.terminal THEN Finish(a.engine, s.internal).engine ELSE a.engine)
        /\ invalid' = (invalid \/ a.status # "applied")
        /\ cmd' = [cmd EXCEPT !.round = Tail(@), !.taken[g] = @ + 1, !.text[g] = @ \o n.text]
    BY <1>2, Zenon
  <2>2. g = k
    BY <1>1, Zenon
  <2> HIDE DEF g
  <2>3. s = st
    BY <2>2, Zenon
  <2> HIDE DEF s
  <2>4. a = answer
    BY <2>3, Zenon
  <2> HIDE DEF a
  <2>5. n = next
    BY <2>2, <2>3, <2>4, Zenon
  <2> HIDE DEF n
  <2> QED
    BY ONLY <2>1, <2>2, <2>3, <2>4, <2>5, Zenon
<1>4. PICK piece : piece = next.text
  BY Zenon
<1>5. [c EXCEPT !.round = Tail(@), !.taken[k] = @ + 1, !.text[k] = @ \o piece]
      = DecodeCommand(steps, budget, rest, MoreTaken(taken, k), MoreText(text, k, piece))
  <2>1. c.taken = taken /\ c.text = text
    BY ONLY c = DecodeCommand(steps, budget, round, taken, text), DecodeParts
  <2>2. PICK q, i, y : q = rest /\ i = taken[k] + 1 /\ y = text[k] \o piece
    BY Zenon
  <2>3. PICK now, said : now = [taken EXCEPT ![k] = i] /\ said = [text EXCEPT ![k] = y]
    BY Zenon
  <2>6. [c EXCEPT !.round = q, !.taken[k] = i, !.text[k] = y]
        = [c EXCEPT !.round = q, !.taken = now, !.text = said]
    <3>1. now = [c.taken EXCEPT ![k] = i] /\ said = [c.text EXCEPT ![k] = y]
      BY <2>1, <2>3, Zenon
    <3> QED
      BY ONLY <3>1, Zenon
  <2>7. PICK more : more = MoreOf(c, q, now, said)
    BY Zenon
  <2>8. more = DecodeCommand(steps, budget, q, now, said)
    BY ONLY c = DecodeCommand(steps, budget, round, taken, text), <2>7, CommandMoves
  <2>4. [c EXCEPT !.round = Tail(@), !.taken[k] = @ + 1, !.text[k] = @ \o piece]
        = [c EXCEPT !.round = q, !.taken[k] = i, !.text[k] = y]
    BY <1>1, <2>1, <2>2, Zenon
  <2>5. MoreTaken(taken, k) = now /\ MoreText(text, k, piece) = said
    BY <2>2, <2>3, Zenon DEF MoreTaken, MoreText
  <2> QED
    BY <2>2, <2>4, <2>5, <2>6, <2>7, <2>8, Zenon DEF MoreOf
<1>6. cmd' = DecodeCommand(steps, budget, rest, MoreTaken(taken, k), MoreText(text, k, next.text))
  <2>1. cmd' = [c EXCEPT !.round = Tail(@), !.taken[k] = @ + 1, !.text[k] = @ \o piece]
    BY <1>3, <1>4, Zenon
  <2> QED
    BY <1>4, <1>5, <2>1, Zenon
<1>7. kv' = kv /\ cache' = cache /\ held' = held
  BY Zenon DEF DecodeSample
<1> QED
  BY <1>3, <1>6, <1>7, Zenon DEF TokenStep

\* A token is sampled: the sequence, its slot and its memory.
TokenBooked(e, sts, m, hd, k, said, more, x, answer, next, f, sts1) ==
  /\ answer.status = "applied" /\ Books(f) /\ MemoryOk(f, m)
  /\ MovedSlots(f, sts, sts1, hd, hd, k, next.state)
  /\ NoteShape(hd[k]) /\ more \in Seq(Tokens)
  /\ Alive(hd[k], next.state, m[k.slot], 0, more)

\* What a token x makes of the sequence k, which has said enough so far.
TokenDrawn(e, sts, m, c, k, x, st, said, answer, next, f, sts1, more) ==
  /\ st = sts[k.slot] /\ said = TextOf(c, k)
  /\ answer = AdvanceDecode(e, st.internal, 1)
  /\ next = Sampled(st, x, answer.engine.slots[k.slot].decoded_tokens)
  /\ f = (IF next.state.terminal THEN Finish(answer.engine, st.internal).engine ELSE answer.engine)
  /\ sts1 = Put(sts, k.slot, next.state) /\ more = said \o next.text

LEMMA TokenIsBooked ==
  ASSUME RuntimeConfig, NEW e, NEW sts, NEW m, NEW c, NEW d, NEW hd, InvOf(e, sts, m, d, c, hd),
         NEW k \in Stepped(c), hd[k].mode = "decode", Ahead(c, k) = 1, NEW x \in Tokens,
         NEW st, NEW said, NEW answer, NEW next, NEW f, NEW sts1, NEW more,
         TokenDrawn(e, sts, m, c, k, x, st, said, answer, next, f, sts1, more),
         ~st.terminal, said \in Seq(Tokens)
  PROVE  TokenBooked(e, sts, m, hd, k, said, more, x, answer, next, f, sts1)
<1>a. /\ st = sts[k.slot] /\ said = TextOf(c, k)
      /\ answer = AdvanceDecode(e, st.internal, 1)
      /\ next = Sampled(st, x, answer.engine.slots[k.slot].decoded_tokens)
      /\ f = (IF next.state.terminal THEN Finish(answer.engine, st.internal).engine ELSE answer.engine)
      /\ sts1 = Put(sts, k.slot, next.state) /\ more = said \o next.text
  BY Zenon DEF TokenDrawn
<1> USE <1>a
<1>1. PICK s, n, text, note, memory, slot :
        /\ s = k.slot /\ n = next.state /\ text = next.text /\ note = hd[k] /\ memory = m[k.slot]
        /\ slot = e.slots[k.slot]
  BY Zenon
<1>2. Books(e) /\ SlotsAgree(e, sts, hd) /\ MemoryOk(e, m)
  BY Zenon DEF InvOf
<1>3. /\ k \in DOMAIN hd /\ s \in LiveSlots(e) /\ s \in Slots
      /\ Progress(st) /\ st.logical = Len(Prompt(st)) /\ NoteShape(note)
      /\ Remembers(st, memory, 1) /\ Told(note, st, said)
  <2>1. /\ RuntimeConfig /\ InvOf(e, sts, m, d, c, hd) /\ k \in Stepped(c)
        /\ hd[k].mode = "decode" /\ st = sts[k.slot]
    BY Zenon
  <2>2. /\ k \in DOMAIN hd /\ k.slot \in LiveSlots(e) /\ k.slot \in Slots
        /\ Progress(st) /\ st.logical = Len(Prompt(st)) /\ NoteShape(hd[k])
        /\ Remembers(st, m[k.slot], Ahead(c, k)) /\ Told(hd[k], st, TextOf(c, k))
    BY ONLY <2>1, Decoding
  <2> QED
    BY ONLY <1>1, <2>2, Ahead(c, k) = 1, said = TextOf(c, k)
<1>4. StateShape(st) /\ Spoken(st) /\ st.internal = k /\ k = HandleIn(e, s)
  BY ONLY <1>1, <1>2, <1>3, st = sts[k.slot], HandleSlot
<1>5. Sampling(st, x)
  <2>1. Prompt(st) \in Seq(Tokens)
    BY <1>3, Config, Zenon DEF Prompt, Progress
  <2> QED
    BY <1>3, <1>4, <2>1, Zenon DEF Sampling
<1>6. DecodedIn(e, answer, s, CellTo(slot, "decode", slot.prompt_tokens_processed, Len(st.sampled) + 1))
  BY ONLY RuntimeConfig, <1>1, <1>2, <1>3, <1>5, st = sts[k.slot],
          answer = AdvanceDecode(e, st.internal, 1), DecodeAdvances, Zenon
<1>7. PICK cell0, p, count : /\ cell0 = CellTo(slot, "decode", p, count)
                             /\ p = slot.prompt_tokens_processed /\ count = Len(st.sampled) + 1
  BY Zenon
<1>8. /\ answer.status = "applied" /\ SlotIs(e, answer.engine, s, cell0)
      /\ answer.engine.slots[s] = cell0
  BY <1>6, <1>7, Zenon DEF DecodedIn, SlotIs
<1>9. cell0.decoded_tokens = count
  BY ONLY <1>7, CellToParts
<1>10. next = Sampled(st, x, count)
  BY <1>1, <1>8, <1>9, Zenon
<1>11. SampledOk(st, n, text, x) /\ Continues(st, n, text)
  <2>1. total_budget \in Nat
    BY Config, Zenon
  <2> QED
    BY ONLY <2>1, <1>1, <1>5, <1>7, <1>10, SampledState
<1>12. n.internal = k /\ text \in Seq(Tokens) /\ n.terminal \in BOOLEAN
  BY <1>4, <1>11, Zenon DEF SampledOk, Spoken
<1>13. PICK l, cell : l = (IF n.terminal THEN "terminal" ELSE "decode") /\ cell = CellTo(slot, l, p, count)
  BY Zenon
<1>14. SlotIs(e, f, s, cell)
  <2>1. CASE n.terminal
    <3>1. f = Finish(answer.engine, k).engine /\ cell = CellTo(slot, "terminal", p, count)
      BY <1>1, <1>4, <1>13, <2>1, Zenon
    <3>2. SlotIs(e, answer.engine, s, CellTo(slot, "decode", p, count))
      BY <1>7, <1>8, Zenon
    <3>3. slot = e.slots[s]
      BY <1>1, Zenon
    <3>4. PICK f0 : f0 = answer.engine
      BY Zenon
    <3>5. SlotIs(e, f0, s, CellTo(slot, "decode", p, count)) /\ f = Finish(f0, k).engine
      BY <3>1, <3>2, <3>4, Zenon
    <3>6. SlotIs(e, f, s, CellTo(slot, "terminal", p, count))
      BY ONLY <1>3, <1>4, <3>3, <3>5, TokenAdvances
    <3> QED
      BY <3>1, <3>6, Zenon
  <2>2. CASE ~n.terminal
    <3>1. f = answer.engine /\ cell = cell0
      BY <1>1, <1>7, <1>13, <2>2, Zenon
    <3> QED
      BY <1>8, <3>1, Zenon
  <2> QED
    BY <2>1, <2>2, Zenon
<1>15. SequenceIn(cell, n, s)
  <2>1. cell = CellTo(slot, l, slot.prompt_tokens_processed, Len(st.sampled) + 1) /\ slot = e.slots[s]
    BY <1>1, <1>7, <1>13, Zenon
  <2> QED
    BY ONLY RuntimeConfig, <1>1, <1>2, <1>3, <1>5, <1>11, <1>13, <2>1, st = sts[k.slot], SampledOccupies, Zenon
<1>16. MovedSlots(f, sts, sts1, hd, hd, k, n)
  <2>1. LiveSlots(f) = LiveSlots(e) /\ OnlySlot(e, f, k.slot) /\ SequenceIn(f.slots[k.slot], n, k.slot)
    BY <1>1, <1>14, <1>15, Zenon DEF SlotIs
  <2>2. sts1 = Put(sts, k.slot, n) /\ DOMAIN hd = DOMAIN hd
    BY <1>1, Zenon
  <2> QED
    BY ONLY <1>2, <1>3, <1>12, <2>1, <2>2, SequenceMoves
<1>17. Books(f) /\ MemoryOk(f, m)
  BY <1>2, <1>14, Zenon DEF SlotIs, MemoryOk
<1>18. Remembers(n, memory, 0)
  BY ONLY RuntimeConfig, <1>3, <1>5, <1>11, OneMoreRemembered
<1>19. Told(note, n, more) /\ more \in Seq(Tokens)
  <2>1. more = said \o text /\ note.mode = "decode"
    BY <1>1, Zenon
  <2>2. more \in Seq(Tokens)
    BY ONLY <1>12, <2>1, said \in Seq(Tokens), ConcatProperties
  <2> QED
    BY ONLY <1>3, <1>5, <1>11, <2>1, <2>2, said \in Seq(Tokens), OneMoreTold
<1> QED
  BY <1>1, <1>3, <1>8, <1>16, <1>17, <1>18, <1>19, Zenon DEF TokenBooked, Alive

-----------------------------------------------------------------------------
\* decode_batch: a token is sampled for the next sequence of the round.
LEMMA DecodeSampleOk ==
  ASSUME RuntimeConfig, ~invalid, InvOf(engine, states, kv, cache, cmd, held),
         NEW x \in SampledTokens, DecodeSample(x)
  PROVE  ~invalid' /\ InvOf(engine', states', kv', cache', cmd', held')
<1>1. PICK e, sts, m, hd, c, none : /\ e = engine /\ sts = states /\ m = kv /\ hd = held
                                    /\ c = cmd /\ none = <<>>
  OBVIOUS
<1>2. /\ Books(e) /\ SlotsAgree(e, sts, hd) /\ MemoryOk(e, m) /\ CacheOk(cache)
      /\ \A g \in DOMAIN hd : HandleOk(g, sts, m, c, hd)
      /\ CommandOk(c, sts, hd) /\ c.type = "decode" /\ InvOf(e, sts, m, cache, c, hd)
      /\ c.round # <<>>
  BY <1>1, Zenon DEF InvOf, DecodeSample
<1>3. c # Idle
  BY <1>2, IdleParts
<1>4. PICK steps, budget, round, taken, text :
        /\ c = DecodeCommand(steps, budget, round, taken, text) /\ round = c.round
        /\ DecodeOk(steps, round, taken, text, sts, hd)
  <2>1. c # PrefillCommand(c.steps, c.work)
    BY <1>2, PrefillParts
  <2> QED
    BY <1>2, <1>3, <2>1, CommandIs
<1>5. PICK R : R = Range(steps)
  OBVIOUS
<1>6. /\ steps \in Seq(DOMAIN hd) /\ \A g \in R : hd[g].mode = "decode" /\ g \in DOMAIN hd
      /\ round \in Seq(R) /\ round # <<>> /\ \A i, j \in DOMAIN round : round[i] = round[j] => i = j
      /\ \A g \in Range(round) : ~sts[g.slot].terminal
      /\ text \in [R -> Seq(Tokens)] /\ taken \in [R -> Nat]
  BY <1>2, <1>4, <1>5, RangeIs DEF DecodeOk
<1>7. /\ Stepped(c) = R
      /\ \A h : /\ TextOf(c, h) = (IF h \in R THEN text[h] ELSE <<>>)
                /\ Ahead(c, h) = (IF h \in Range(round) THEN 1 ELSE 0)
  BY <1>4, <1>5, DecodeParts
<1>8. PICK k, rest, st, said : /\ k = Head(round) /\ rest = Tail(round) /\ st = sts[k.slot]
                               /\ said = text[k]
  OBVIOUS
<1>9. RoundLeft(R, round, rest, k)
  <2>1. round \in Seq(R) /\ round # <<>> /\ \A i, j \in DOMAIN round : round[i] = round[j] => i = j
    BY <1>6
  <2> QED
    BY ONLY <1>8, <2>1, RoundHead
<1>10. /\ k \in R /\ k \in Range(round) /\ k \notin Range(rest) /\ rest \in Seq(R)
       /\ \A i, j \in DOMAIN rest : rest[i] = rest[j] => i = j
       /\ Range(rest) \subseteq Range(round)
       /\ \A g : g # k => (g \in Range(rest) <=> g \in Range(round))
  BY <1>9 DEF RoundLeft
<1>11. /\ k \in Stepped(c) /\ hd[k].mode = "decode" /\ ~st.terminal /\ Ahead(c, k) = 1
       /\ said = TextOf(c, k) /\ said \in Seq(Tokens) /\ k \in DOMAIN hd
  BY <1>6, <1>7, <1>8, <1>10, Zenon
<1>12. PICK answer : answer = AdvanceDecode(e, st.internal, 1)
  OBVIOUS
<1>13. PICK next : next = Sampled(st, x, answer.engine.slots[k.slot].decoded_tokens)
  OBVIOUS
<1>14. PICK f, sts1, more :
         /\ f = (IF next.state.terminal THEN Finish(answer.engine, st.internal).engine ELSE answer.engine)
         /\ sts1 = Put(sts, k.slot, next.state) /\ more = said \o next.text
  OBVIOUS
<1>15. TokenStep(steps, budget, rest, taken, text, k, st, answer, next)
  <2>1. /\ c = cmd /\ c = DecodeCommand(steps, budget, round, taken, text)
        /\ st = states[k.slot] /\ answer = AdvanceDecode(engine, st.internal, 1)
    BY <1>1, <1>4, <1>8, <1>12
  <2> QED
    BY ONLY DecodeSample(x), <1>8, <1>13, <2>1, DecodeSampleIs, Zenon
<1>16. TokenBooked(e, sts, m, hd, k, said, more, x, answer, next, f, sts1)
  <2>1. x \in Tokens
    BY Config
  <2>2. TokenDrawn(e, sts, m, c, k, x, st, said, answer, next, f, sts1, more)
    BY ONLY <1>8, <1>11, <1>12, <1>13, <1>14, Zenon DEF TokenDrawn
  <2>3. InvOf(e, sts, m, cache, c, hd)
    BY <1>2
  <2>4. k \in Stepped(c) /\ hd[k].mode = "decode" /\ ~st.terminal /\ Ahead(c, k) = 1
        /\ said \in Seq(Tokens)
    BY <1>11
  <2> QED
    BY ONLY RuntimeConfig, <2>1, <2>2, <2>3, <2>4, TokenIsBooked
<1>17. PICK text1, taken1 : text1 = MoreText(text, k, next.text) /\ taken1 = MoreTaken(taken, k)
  OBVIOUS
<1>18. PICK d : d = DecodeCommand(steps, budget, rest, taken1, text1)
  OBVIOUS
<1>19. /\ states' = sts1 /\ engine' = f /\ ~invalid' /\ cmd' = d
       /\ kv' = m /\ cache' = cache /\ held' = hd
  BY <1>1, <1>14, <1>15, <1>16, <1>17, <1>18, Zenon DEF TokenStep, TokenBooked
<1>20. /\ Books(f) /\ MemoryOk(f, m) /\ SlotsAgree(f, sts1, hd) /\ sts1[k.slot] = next.state
       /\ \A g \in DOMAIN hd \ {k} : sts1[g.slot] = sts[g.slot]
       /\ NoteShape(hd[k]) /\ more \in Seq(Tokens)
       /\ Alive(hd[k], next.state, m[k.slot], 0, more)
  BY <1>16 DEF TokenBooked, MovedSlots
<1>21. /\ text1 \in [R -> Seq(Tokens)] /\ text1[k] = more
       /\ \A g \in R \ {k} : text1[g] = text[g]
  <2>1. text1 = [text EXCEPT ![k] = more]
    BY <1>8, <1>14, <1>17 DEF MoreText
  <2> QED
    BY ONLY <1>6, <1>10, <1>20, <2>1
<1>22. taken1 \in [R -> Nat]
  BY <1>6, <1>10, <1>17 DEF MoreTaken
<1>23. /\ d.steps = steps /\ d.budget = budget /\ d.round = rest /\ d.taken = taken1 /\ d.text = text1
       /\ Stepped(d) = Range(steps)
       /\ \A h : /\ TextOf(d, h) = (IF h \in Range(steps) THEN text1[h] ELSE <<>>)
                 /\ Ahead(d, h) = (IF h \in Range(rest) THEN 1 ELSE 0)
  BY ONLY <1>18, DecodeParts
<1>24. ASSUME NEW g \in DOMAIN hd PROVE HandleOk(g, sts1, m, d, hd)
  <2>1. CASE g = k
    <3>1. Ahead(d, k) = 0 /\ TextOf(d, k) = more /\ k \in Stepped(d)
      BY <1>5, <1>10, <1>21, <1>23
    <3> QED
      BY <1>20, <2>1, <3>1, HandleOkIs
  <2>2. CASE g # k
    <3>1. Ahead(d, g) = Ahead(c, g)
      BY <1>7, <1>10, <1>23, <2>2
    <3>2. TextOf(d, g) = TextOf(c, g)
      BY <1>5, <1>7, <1>21, <1>23, <2>2
    <3>3. g \in Stepped(c) <=> g \in Stepped(d)
      BY <1>5, <1>7, <1>23
    <3>4. HandleOk(g, sts, m, c, hd) /\ sts1[g.slot] = sts[g.slot]
      BY <1>2, <1>20, <2>2
    <3> QED
      BY ONLY <3>1, <3>2, <3>3, <3>4, OthersKept
  <2> QED
    BY <2>1, <2>2
<1>25. CommandOk(d, sts1, hd)
  <2>1. d = DecodeCommand(d.steps, d.budget, d.round, d.taken, d.text)
    BY <1>18, <1>23
  <2>2. ASSUME NEW g \in Range(rest) PROVE ~sts1[g.slot].terminal
    <3>1. g \in R /\ g # k /\ g \in Range(round)
      BY <1>10, RangeIs
    <3> QED
      BY <1>6, <1>20, <3>1
  <2>3. DecodeOk(d.steps, d.round, d.taken, d.text, sts1, hd)
    BY <1>5, <1>6, <1>10, <1>21, <1>22, <1>23, <2>2, Zenon DEF DecodeOk
  <2> QED
    BY <2>1, <2>3, CommandIs
<1>26. InvOf(f, sts1, m, cache, d, hd)
  BY <1>2, <1>20, <1>24, <1>25 DEF InvOf
<1> QED
  BY <1>19, <1>26

-----------------------------------------------------------------------------
\* What the reply to a decode batch tells the client of a sequence.
ReplyNote(note, st, said) ==
  [mode |-> IF st.failed THEN "failed" ELSE IF st.terminal THEN "finished" ELSE "decode",
   text |-> note.text \o said,
   final_text |-> IF st.terminal THEN st.final_bytes ELSE <<>>]

AllAnswered(hd, R, text, sts) ==
  [k \in DOMAIN hd |-> IF k \notin R THEN hd[k] ELSE ReplyNote(hd[k], sts[k.slot], text[k])]

LEMMA ReplyNoteOk ==
  ASSUME NEW note, note.mode = "decode", NEW st, Spoken(st), NEW memory, NEW said \in Seq(Tokens),
         Alive(note, st, memory, 0, said), NEW to, to = ReplyNote(note, st, said)
  PROVE  NoteShape(to) /\ Alive(to, st, memory, 0, <<>>) /\ Resting(to, st)
<1>1. PICK mode, all, final, none :
        /\ mode = (IF st.failed THEN "failed" ELSE IF st.terminal THEN "finished" ELSE "decode")
        /\ all = note.text \o said /\ final = (IF st.terminal THEN st.final_bytes ELSE <<>>)
        /\ none = <<>>
  OBVIOUS
<1>2. to = [mode |-> mode, text |-> all, final_text |-> final]
  BY <1>1 DEF ReplyNote
<1>3. NoteShape(to) /\ to.mode = mode /\ to.text = all /\ to.final_text = final
  BY ONLY <1>2 DEF NoteShape
<1>4. /\ Remembers(st, memory, 0) /\ note.text \in Seq(Tokens) /\ st.logical = Len(Prompt(st))
      /\ ~st.failed => all \o st.utf8.pending = st.final_bytes
  BY <1>1 DEF Alive, Told
<1>5. st.terminal \in BOOLEAN /\ st.failed \in BOOLEAN /\ (st.failed => st.terminal)
  BY DEF Spoken
<1>6. /\ mode \in {"decode", "finished", "failed"}
      /\ mode = "finished" => st.terminal /\ ~st.failed /\ final = st.final_bytes
      /\ mode = "failed" => st.failed
  BY <1>1, <1>5
<1>7. all \in Seq(Tokens) /\ all \o none = all
  <2>1. all \in Seq(Tokens)
    BY <1>1, <1>4, ConcatProperties
  <2> QED
    BY <1>1, <2>1, ConcatEmptySeq
<1>8. mode = "decode" => ~st.terminal
  BY <1>1, <1>5
<1>9. Told(to, st, none)
  <2>1. ~st.failed => (to.text \o none) \o st.utf8.pending = st.final_bytes
    BY <1>3, <1>4, <1>7
  <2>2. to.mode \in {"prefill", "decode", "finished", "failed"}
    BY <1>3, <1>6
  <2> QED
    BY ONLY <1>3, <1>4, <1>6, <1>7, <2>1, <2>2 DEF Told
<1> QED
  BY <1>1, <1>3, <1>4, <1>6, <1>8, <1>9 DEF Alive, Resting

\* decode_batch: the reply, once no sequence of the batch has a round to come.
LEMMA DecodeReplyOk ==
  ASSUME RuntimeConfig, ~invalid, InvOf(engine, states, kv, cache, cmd, held), DecodeReply
  PROVE  ~invalid' /\ InvOf(engine', states', kv', cache', cmd', held')
<1>1. PICK e, sts, m, hd, c, none : /\ e = engine /\ sts = states /\ m = kv /\ hd = held
                                    /\ c = cmd /\ none = <<>>
  OBVIOUS
<1>2. /\ Books(e) /\ SlotsAgree(e, sts, hd) /\ MemoryOk(e, m) /\ CacheOk(cache)
      /\ \A g \in DOMAIN hd : HandleOk(g, sts, m, c, hd)
      /\ CommandOk(c, sts, hd) /\ c.type = "decode" /\ InvOf(e, sts, m, cache, c, hd)
      /\ c.round = none
  BY <1>1 DEF InvOf, DecodeReply
<1>3. c # Idle
  BY <1>2, IdleParts
<1>4. PICK steps, budget, round, taken, text :
        /\ c = DecodeCommand(steps, budget, round, taken, text) /\ round = c.round
        /\ DecodeOk(steps, round, taken, text, sts, hd)
  <2>1. c # PrefillCommand(c.steps, c.work)
    BY <1>2, PrefillParts
  <2> QED
    BY <1>2, <1>3, <2>1, CommandIs
<1>5. PICK R, hd1 : R = Range(steps) /\ hd1 = AllAnswered(hd, R, text, sts)
  OBVIOUS
<1>6. /\ \A g \in R : hd[g].mode = "decode" /\ g \in DOMAIN hd
      /\ text \in [R -> Seq(Tokens)]
  BY <1>4, <1>5, RangeIs DEF DecodeOk
<1>7. /\ c.steps = steps /\ c.text = text /\ Stepped(c) = R
      /\ \A h : TextOf(c, h) = (IF h \in R THEN text[h] ELSE <<>>)
      /\ \A h : Ahead(c, h) = (IF h \in Range(round) THEN 1 ELSE 0)
  BY <1>4, <1>5, DecodeParts
<1>8. \A h : Ahead(c, h) = 0
  BY <1>1, <1>2, <1>4, <1>7, NoRange
<1>9. /\ engine' = e /\ states' = sts /\ kv' = m /\ cache' = cache /\ ~invalid' /\ cmd' = Idle
      /\ held' = hd1
  <2>1. /\ engine' = engine /\ states' = states /\ kv' = kv /\ cache' = cache
        /\ invalid' = invalid /\ cmd' = Idle
        /\ held' = [k \in DOMAIN held |->
             IF k \notin Range(cmd.steps) THEN held[k]
             ELSE ReplyNote(held[k], states[k.slot], cmd.text[k])]
    BY DEF DecodeReply, ReplyNote
  <2> QED
    BY <1>1, <1>5, <1>7, <2>1 DEF AllAnswered
<1>10. /\ DOMAIN hd1 = DOMAIN hd
       /\ \A g \in DOMAIN hd : hd1[g] = IF g \notin R THEN hd[g]
                                        ELSE ReplyNote(hd[g], sts[g.slot], text[g])
  BY <1>5 DEF AllAnswered
<1>11. SlotsAgree(e, sts, hd1)
  BY <1>2, <1>10 DEF SlotsAgree
<1>12. ASSUME NEW g \in DOMAIN hd PROVE HandleOk(g, sts, m, Idle, hd1)
  <2>1. HandleOk(g, sts, m, c, hd) /\ Ahead(c, g) = 0
    BY <1>2, <1>8
  <2>2. g \notin Stepped(Idle) /\ Ahead(Idle, g) = 0 /\ TextOf(Idle, g) = <<>>
    BY IdleParts
  <2>3. CASE g \in R
    <3>1. PICK note, st, memory, said, to :
            /\ note = hd[g] /\ st = sts[g.slot] /\ memory = m[g.slot] /\ said = text[g]
            /\ to = ReplyNote(note, st, said)
      OBVIOUS
    <3>2. note.mode = "decode" /\ said \in Seq(Tokens)
      BY <1>6, <2>3, <3>1
    <3>3. Alive(note, st, memory, 0, said)
      BY <1>7, <2>1, <2>3, <3>1, <3>2, HandleOkIs
    <3>4. Spoken(st)
      BY <1>2, <3>1, HandleSlot
    <3>5. NoteShape(to) /\ Alive(to, st, memory, 0, <<>>) /\ Resting(to, st)
      BY ONLY <3>1, <3>2, <3>3, <3>4, ReplyNoteOk
    <3>6. hd1[g] = to
      BY <1>10, <2>3, <3>1
    <3> QED
      BY <2>2, <3>1, <3>5, <3>6, HandleOkIs
  <2>4. CASE g \notin R
    <3>1. hd1[g] = hd[g] /\ TextOf(c, g) = <<>> /\ g \notin Stepped(c)
      BY <1>7, <1>10, <2>4
    <3> QED
      BY <2>1, <2>2, <3>1, HandleKept
  <2> QED
    BY <2>3, <2>4
<1>13. CommandOk(Idle, sts, hd1)
  BY DEF CommandOk
<1>14. InvOf(e, sts, m, cache, Idle, hd1)
  BY <1>2, <1>10, <1>11, <1>12, <1>13 DEF InvOf
<1> QED
  BY <1>9, <1>14

-----------------------------------------------------------------------------
\* Every step of the command loop keeps its invariant.
LEMMA RuntimeStep ==
  ASSUME RuntimeConfig, RuntimeInv, [Next]_vars
  PROVE  RuntimeInv'
<1>1. ~invalid /\ InvOf(engine, states, kv, cache, cmd, held)
  BY RuntimeInvIs
<1>2. ~invalid' /\ InvOf(engine', states', kv', cache', cmd', held')
  <2>1. CASE \E r \in Requests, parent \in Parents : OpenSequence(r, parent)
    BY <1>1, <2>1, OpenSequenceOk
  <2>2. CASE \E steps \in PrefillBatches : PrefillBatch(steps, Share(prefill_chunk_tokens, steps))
    BY <1>1, <2>2, PrefillBatchOk
  <2>3. CASE PrefillFails
    BY <1>1, <2>3, PrefillFailsOk
  <2>4. CASE PrefillItem
    BY <1>1, <2>4, PrefillItemOk
  <2>5. CASE \E steps \in DecodeBatches : DecodeBatch(steps, Share(decode_quantum_tokens, steps))
    BY <1>1, <2>5, DecodeBatchOk
  <2>6. CASE DecodeRound
    BY <1>1, <2>6, DecodeRoundOk
  <2>7. CASE \E token \in SampledTokens : DecodeSample(token)
    BY <1>1, <2>7, DecodeSampleOk
  <2>8. CASE DecodeReply
    BY <1>1, <2>8, DecodeReplyOk
  <2>9. CASE \E h \in DOMAIN held : ReleaseSequence(h)
    BY <1>1, <2>9, ReleaseSequenceOk
  <2>10. CASE CacheClear
    BY <1>1, <2>10, CacheClearOk
  <2>11. CASE UNCHANGED vars
    BY <1>1, <2>11 DEF vars
  <2> QED
    BY <2>1, <2>2, <2>3, <2>4, <2>5, <2>6, <2>7, <2>8, <2>9, <2>10, <2>11 DEF Next
<1> QED
  BY <1>2 DEF RuntimeInv, InvOf, MemoryOk

\* The ledger, the states, the memory, the handles and the snapshots fit together
\* after every step of the command loop (the loop of main over its input lines).
THEOREM RuntimeInvariant == Spec => []RuntimeInv
<1>1. RuntimeConfig
  BY RuntimeAssumption
<1>2. Init => RuntimeInv
  BY <1>1, InitOk, RuntimeInvIs
<1>3. RuntimeInv /\ [Next]_vars => RuntimeInv'
  BY <1>1, RuntimeStep
<1> QED
  BY <1>2, <1>3, PTL DEF Spec

-----------------------------------------------------------------------------
(***************************************************************************)
(* What the invariant says of each part.                                   *)
(***************************************************************************)

LEMMA AgreesHere ==
  ASSUME RuntimeConfig, RuntimeInv
  PROVE  EngineAgrees
<1>1. /\ ~invalid /\ Books(engine) /\ SlotsAgree(engine, states, held)
      /\ \A h \in DOMAIN held : HandleOk(h, states, kv, cmd, held)
  BY DEF RuntimeInv
<1>2. /\ LiveSlots(engine) = {s \in Slots : Live(s)}
      /\ \A s \in Slots : Live(s) <=> s \in LiveSlots(engine)
  BY DEF LiveSlots, Live
<1>3. engine.active_sequences = Cardinality(LiveSlots(engine))
      /\ engine.reserved_tokens = ReservedIn(engine) /\ engine.reserved_tokens <= token_capacity
  BY <1>1 DEF Books
<1>4. ASSUME NEW s \in Slots PROVE Live(s) <=> states[s] # NoState
  BY <1>1, <1>2 DEF SlotsAgree
<1>5. ASSUME NEW s \in Slots, NEW e, e = engine, NEW h, NEW slot, slot = e.slots[s],
             h = Handle(s, slot.generation, slot.key), slot.lifecycle # "released"
      PROVE  Finds(engine, h)
  <2>1. h.slot = s /\ h.generation = slot.generation /\ h.key = slot.key
    BY <1>5, HandleParts
  <2> QED
    BY <1>5, <2>1 DEF Finds
<1>6. ASSUME NEW s \in Slots, Live(s), NEW st, st = states[s], NEW slot, slot = engine.slots[s]
      PROVE  /\ Finds(engine, st.internal) /\ st.internal \in DOMAIN held
             /\ slot.prompt_tokens_processed = st.logical
             /\ slot.decoded_tokens = Len(st.sampled)
             /\ slot.lifecycle = (IF st.terminal THEN "terminal"
                                  ELSE IF st.logical = Len(PromptOf[st.request])
                                  THEN "decode" ELSE "prefill")
  <2>1. Fills(slot, st, s) /\ st.internal \in DOMAIN held
    BY <1>1, <1>2, <1>6 DEF SlotsAgree
  <2>2. slot.lifecycle # "released"
    BY <1>6 DEF Live
  <2>3. st.internal = Handle(s, slot.generation, slot.key)
    BY <2>1 DEF Fills
  <2>4. Finds(engine, st.internal)
    BY <1>5, <1>6, <2>2, <2>3
  <2> QED
    BY <2>1, <2>4 DEF Fills, Prompt
<1>7. ASSUME NEW h \in DOMAIN held PROVE Finds(engine, h)
  <2>1. h.slot \in LiveSlots(engine) /\ h.slot \in Slots /\ h = HandleIn(engine, h.slot)
    BY <1>1, HandleSlot
  <2>2. engine.slots[h.slot].lifecycle # "released"
    BY <2>1 DEF LiveSlots
  <2> QED
    BY <1>5, <2>1, <2>2 DEF HandleIn
<1> QED
  BY <1>1, <1>2, <1>3, <1>4, <1>6, <1>7 DEF EngineAgrees, ReservedIn

LEMMA MatchesHere ==
  ASSUME RuntimeConfig, RuntimeInv
  PROVE  KvMatches
<1>1. PICK none : none = <<>>
  OBVIOUS
<1>2. /\ SlotsAgree(engine, states, held) /\ \A s \in Slots \ LiveSlots(engine) : kv[s] = none
      /\ \A h \in DOMAIN held : HandleOk(h, states, kv, cmd, held)
  BY <1>1 DEF RuntimeInv
<1>3. ASSUME NEW s \in Slots, ~Live(s) PROVE kv[s] = none
  BY <1>2, <1>3 DEF LiveSlots, Live
<1>4. ASSUME NEW s \in Slots, NEW h \in DOMAIN held, cmd = Idle, h.slot = s, held[h].mode # "doomed",
             NEW st, st = states[s]
      PROVE  /\ kv[s] = SubSeq(PromptOf[st.request] \o st.sampled, 1, st.n_past)
             /\ held[h].mode = "decode" => st.n_past = Len(PromptOf[st.request]) + Len(st.sampled) - 1
  <2>1. Progress(st)
    BY <1>2, <1>4, HandleSlot
  <2>2. Alive(held[h], st, kv[s], 0, none) /\ Resting(held[h], st)
    BY <1>1, <1>2, <1>4, HandleOkIs, IdleParts
  <2>3. st.n_past + 0 = st.n_past
    <3>1. Len(Prompt(st)) \in Nat
      BY <2>1, Config DEF Progress, Prompt
    <3>2. Len(st.sampled) \in Nat
      BY <2>1, LenProperties DEF Progress
    <3>3. st.physical \in Int
      BY <2>1, <3>1 DEF Progress
    <3> QED
      BY <2>1, <3>2, <3>3 DEF Progress
  <2>4. kv[s] = SubSeq(TokensOf(st), 1, st.n_past)
    BY <2>2, <2>3 DEF Alive, Remembers
  <2>5. ASSUME held[h].mode = "decode"
        PROVE  st.n_past = Len(PromptOf[st.request]) + Len(st.sampled) - 1
    <3>1. ~st.terminal /\ st.logical = Len(Prompt(st))
      BY <2>2, <2>5 DEF Alive, Told, Resting
    <3>2. PICK t : t = TokensOf(st)
      OBVIOUS
    <3>3. st.n_past = Len(Prompt(st)) + Len(st.sampled) - 1
      BY ONLY RuntimeConfig, <2>1, <3>1, <3>2, DecodeState
    <3> QED
      BY <3>3 DEF Prompt
  <2> QED
    BY <2>4, <2>5 DEF TokensOf, Prompt
<1> QED
  BY <1>1, <1>3, <1>4, Zenon DEF KvMatches

LEMMA SnapshotsHere ==
  ASSUME RuntimeInv
  PROVE  SnapshotsFaithful
<1>1. CacheOk(cache)
  BY DEF RuntimeInv
<1>2. \A i, j \in DOMAIN cache : i # j => Distinct(cache[i], cache[j])
  BY <1>1 DEF CacheOk
<1>3. /\ \A i \in DOMAIN cache : cache[i].state = cache[i].tokens
      /\ BytesUsed(cache) <= byte_budget /\ Len(cache) <= max_entries
  BY <1>1 DEF CacheOk, EntryOk
<1> QED
  BY <1>2, <1>3 DEF SnapshotsFaithful, Distinct

LEMMA WholeHere ==
  ASSUME RuntimeConfig, RuntimeInv
  PROVE  CompletionIsWhole
<1>1. PICK none : none = <<>>
  OBVIOUS
<1>2. /\ SlotsAgree(engine, states, held) /\ CommandOk(cmd, states, held)
      /\ \A h \in DOMAIN held : HandleOk(h, states, kv, cmd, held)
  BY DEF RuntimeInv
<1>3. ASSUME NEW h \in DOMAIN held, held[h].mode = "finished", NEW st, st = states[h.slot]
      PROVE  /\ held[h].text = held[h].final_text
             /\ st.phase.phase = "done"
             /\ st.phase.reasoning + st.phase.final + 1 = Len(st.sampled)
             /\ Len(st.sampled) <= total_budget
             /\ InSession(st.request) /\ CommitOf[st.request] =>
                   st.committed # NoGeneration \/ st.cached >= PrefixOf[st.request]
  <2>1. h \notin Stepped(cmd)
    <3>1. CASE cmd = Idle
      BY <3>1, IdleParts
    <3>2. CASE cmd = PrefillCommand(cmd.steps, cmd.work) /\ PrefillOk(cmd.steps, cmd.work, states, held)
      <4>1. Stepped(cmd) = Range(cmd.steps)
        BY <3>2, PrefillParts
      <4> QED
        BY <1>3, <3>2, <4>1 DEF PrefillOk
    <3>3. CASE /\ cmd = DecodeCommand(cmd.steps, cmd.budget, cmd.round, cmd.taken, cmd.text)
               /\ DecodeOk(cmd.steps, cmd.round, cmd.taken, cmd.text, states, held)
      <4>1. Stepped(cmd) = Range(cmd.steps)
        BY <3>3, DecodeParts
      <4> QED
        BY <1>3, <3>3, <4>1 DEF DecodeOk
    <3> QED
      BY <1>2, <3>1, <3>2, <3>3, CommandIs
  <2>2. Ahead(cmd, h) = 0 /\ TextOf(cmd, h) = none
    BY <1>1, <1>2, <2>1, Quiet
  <2>3. Remembers(st, kv[h.slot], 0) /\ Told(held[h], st, none)
    <3>1. Alive(held[h], st, kv[h.slot], 0, none)
      BY <1>2, <1>3, <2>2, HandleOkIs
    <3> QED
      BY <3>1 DEF Alive
  <2>4. Progress(st) /\ Spoken(st)
    BY <1>2, <1>3, HandleSlot
  <2>5. PICK text, final : text = held[h].text /\ final = held[h].final_text
    OBVIOUS
  <2>6. /\ st.terminal /\ ~st.failed /\ final = st.final_bytes /\ text \in Seq(Tokens)
        /\ st.logical = Len(Prompt(st)) /\ (text \o none) \o st.utf8.pending = final
    BY <1>3, <2>3, <2>5, Zenon DEF Told
  <2>7. /\ st.phase.phase = "done" /\ st.utf8.pending = none
        /\ st.phase.reasoning + st.phase.final + 1 = Len(st.sampled)
        /\ Len(st.sampled) <= total_budget
    BY <1>1, <2>4, <2>6 DEF Spoken
  <2>8. text \o none = text
    BY <1>1, <2>6, ConcatEmptySeq
  <2>9. text = final
    BY <2>6, <2>7, <2>8
  <2>10. ASSUME InSession(st.request), CommitOf[st.request]
         PROVE  st.committed # NoGeneration \/ st.cached >= PrefixOf[st.request]
    <3>1. PICK len, p, n : len = Len(Prompt(st)) /\ p = st.physical /\ n = PrefixOf[st.request]
      OBVIOUS
    <3>2. p = len - 1
      BY <2>4, <2>6, <3>1 DEF Progress
    <3>3. len \in Nat /\ n \in 1 .. len - 1
      BY <2>4, <2>10, <3>1, Config DEF Progress, Prompt
    <3>4. ~(p < n)
      BY ONLY <3>2, <3>3
    <3>5. CommitsInTime(st)
      BY <2>3 DEF Remembers
    <3> QED
      BY <2>10, <3>1, <3>4, <3>5 DEF CommitsInTime
  <2> QED
    BY <2>5, <2>7, <2>9, <2>10
<1> QED
  BY <1>3 DEF CompletionIsWhole

\* No slot or reservation is lost or counted twice, progress is counted alike in
\* the ledger and in the states, and "sequence_state_invalid" is never thrown.
THEOREM RuntimeAgrees == Spec => []EngineAgrees
<1>1. RuntimeInv => EngineAgrees
  BY RuntimeAssumption, AgreesHere
<1> QED
  BY <1>1, RuntimeInvariant, PTL

\* The KV memory a sequence is continued from is exactly the tokens of its own
\* prompt and answer (open_sequence, prefill_batch, decode_batch, release_sequence).
THEOREM RuntimeRemembers == Spec => []KvMatches
<1>1. RuntimeInv => KvMatches
  BY RuntimeAssumption, MatchesHere
<1> QED
  BY <1>1, RuntimeInvariant, PTL

\* Every snapshot is the memory of the tokens it is filed under, within the limits
\* of the cache (capture, store, store_session).
THEOREM RuntimeSnapshots == Spec => []SnapshotsFaithful
<1>1. RuntimeInv => SnapshotsFaithful
  BY RuntimeAssumption, SnapshotsHere
<1> QED
  BY <1>1, RuntimeInvariant, PTL

\* What a client was sent piece by piece is the final text of the completion,
\* within the budgets, and a session sequence that was to commit did (decode_batch).
THEOREM RuntimeCompletes == Spec => []CompletionIsWhole
<1>1. RuntimeInv => CompletionIsWhole
  BY RuntimeAssumption, WholeHere
<1> QED
  BY <1>1, RuntimeInvariant, PTL

=============================================================================
