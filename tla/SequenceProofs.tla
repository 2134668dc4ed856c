--------------------------- MODULE SequenceProofs ---------------------------
(***************************************************************************)
(* What TLAPS proves of the two parts that keep sequences of the native    *)
(* runtime.  The llama.cpp adapter: no sequence is leaked in the runtime,  *)
(* and an outcome is the own sequence's, for any number of requests,       *)
(* slots, processes and failures.  Then the sequence-state cache, for any  *)
(* number of clients, keys, scopes and entries and any bounds.             *)
(***************************************************************************)
EXTENDS SequenceAdapter, SequenceCache, TLAPS, FiniteSetTheorems, NaturalsInduction,
        WellFoundedInduction

-----------------------------------------------------------------------------
(***************************************************************************)
(* The slot ledger.  The adapter only ever sees it between commands, where *)
(* a slot is vacant or holds a sequence that has started to prefill.       *)
(***************************************************************************)

Natives == Slots \X Nat

Slot == [generation : Nat, key : Requests \cup {NoKey}, lifecycle : {"released", "prefill"},
         prompt_tokens : Nat, output_token_budget : Nat,
         prompt_tokens_processed : Nat, decoded_tokens : Nat]

Live(slots) == {s \in Slots : slots[s].lifecycle # "released"}

EngineInv(engine) ==
  /\ engine = [slots |-> engine.slots, reserved_tokens |-> engine.reserved_tokens,
               active_sequences |-> engine.active_sequences]
  /\ engine.slots \in [Slots -> Slot]
  /\ engine.active_sequences = Cardinality(Live(engine.slots))

\* The slots are finitely many.
LEMMA SlotsFinite ==
  /\ IsFiniteSet(Slots) /\ Cardinality(Slots) = max_sequences /\ Slots \subseteq Nat
<1>1. max_sequences \in Nat \ {0} /\ 0 \in Nat /\ max_sequences - 1 \in Nat
  BY EngineAssumption
<1>2. IsFiniteSet(0 .. max_sequences - 1)
      /\ Cardinality(0 .. max_sequences - 1) = max_sequences
  BY <1>1, FS_Interval
<1> QED
  BY <1>1, <1>2 DEF Slots

\* Every nonempty set of naturals has a least element.
LEMMA LeastNat ==
  ASSUME NEW B \in SUBSET Nat, B # {}
  PROVE  \E n \in B : \A m \in B : n <= m
<1>1. \E n \in B : \A m \in B : ~(<<m, n>> \in OpToRel(<, Nat))
  BY NatLessThanWellFounded, WFMin, Zenon
<1>2. \A m, n \in Nat : m < n => <<m, n>> \in OpToRel(<, Nat)
  BY DEF OpToRel
<1>3. \E n \in B : \A m \in B : ~(m < n)
  BY <1>1, <1>2, Zenon
<1> QED
  BY <1>3

\* The live slots are finitely many, as many as there are slots at most.
LEMMA LiveFinite ==
  ASSUME NEW slots
  PROVE  /\ IsFiniteSet(Live(slots)) /\ Live(slots) \subseteq Slots
         /\ Cardinality(Live(slots)) \in Nat /\ Cardinality(Live(slots)) <= max_sequences
         /\ Cardinality(Live(slots)) = max_sequences => Live(slots) = Slots
<1>1. Live(slots) \in SUBSET Slots
  BY DEF Live
<1> QED
  BY <1>1, SlotsFinite, FS_Subset, FS_CardinalityType

\* An engine with a sequence to spare has a first vacant slot.
LEMMA VacantSlot ==
  ASSUME NEW engine, EngineInv(engine), engine.active_sequences # max_sequences
  PROVE  FirstVacant(engine) \in Slots
         /\ engine.slots[FirstVacant(engine)].lifecycle = "released"
<1> DEFINE B == {s \in Slots : engine.slots[s].lifecycle = "released"}
<1>1. B # {}
  <2>1. Live(engine.slots) # Slots
    BY SlotsFinite DEF EngineInv
  <2> QED
    BY <2>1 DEF Live
<1>2. B \in SUBSET Nat
  BY SlotsFinite
<1>3. \E s \in B : \A t \in B : s <= t
  BY <1>1, <1>2, LeastNat
<1> QED
  BY <1>3 DEF FirstVacant

\* A new engine is in order, and all its slots are vacant.
LEMMA NewEngineInv ==
  EngineInv(NewEngine) /\ \A s \in Slots : NewEngine.slots[s].lifecycle = "released"
<1>1. NewEngine.slots = [s \in Slots |-> Vacant(0)]
  BY DEF NewEngine
<1>2. NewEngine.slots \in [Slots -> Slot]
  BY <1>1 DEF Vacant, Slot
<1>3. \A s \in Slots : NewEngine.slots[s].lifecycle = "released"
  BY <1>1 DEF Vacant
<1>4. Live(NewEngine.slots) = {}
  BY <1>3 DEF Live
<1>5. Cardinality(Live(NewEngine.slots)) = 0
  BY <1>4, FS_EmptySet
<1>6. NewEngine.active_sequences = 0
  BY DEF NewEngine
<1>7. NewEngine = [slots |-> NewEngine.slots, reserved_tokens |-> NewEngine.reserved_tokens,
                   active_sequences |-> NewEngine.active_sequences]
  BY DEF NewEngine
<1> QED
  BY <1>2, <1>3, <1>5, <1>6, <1>7 DEF EngineInv

\* The next generation is a positive number.
LEMMA NextGenerationType ==
  ASSUME NEW generation \in Nat PROVE NextGeneration(generation) \in Nat \ {0}
BY EngineAssumption DEF NextGeneration

\* A sequence in a vacant slot is one more.
LEMMA LiveAdd ==
  ASSUME NEW slots \in [Slots -> Slot], NEW s \in Slots, slots[s].lifecycle = "released",
         NEW v \in Slot, v.lifecycle = "prefill"
  PROVE  Cardinality(Live([slots EXCEPT ![s] = v])) = Cardinality(Live(slots)) + 1
<1>1. Live([slots EXCEPT ![s] = v]) = Live(slots) \cup {s} /\ s \notin Live(slots)
  BY DEF Live
<1> QED
  BY <1>1, LiveFinite, FS_AddElement

\* A slot that is vacated is one less.
LEMMA LiveRemove ==
  ASSUME NEW slots \in [Slots -> Slot], NEW s \in Slots, slots[s].lifecycle = "prefill",
         NEW v \in Slot, v.lifecycle = "released"
  PROVE  Cardinality(Live([slots EXCEPT ![s] = v])) = Cardinality(Live(slots)) - 1
<1>1. Live([slots EXCEPT ![s] = v]) = Live(slots) \ {s} /\ s \in Live(slots)
  BY DEF Live
<1> QED
  BY <1>1, LiveFinite, FS_RemoveElement

-----------------------------------------------------------------------------
(***************************************************************************)
(* What the commands do to the process.                                    *)
(***************************************************************************)

ProcessInv(process) ==
  \/ process = NoProcess
  \/ /\ process = [up |-> process.up, engine |-> process.engine]
     /\ process.up \in BOOLEAN /\ EngineInv(process.engine)

SlotOf(process, s) == process.engine.slots[s]

\* A process keeps its engine in one field.
LEMMA WithEngine ==
  ASSUME NEW up, NEW old, NEW new
  PROVE  [[up |-> up, engine |-> old] EXCEPT !.engine = new] = [up |-> up, engine |-> new]
OBVIOUS

\* The first vacant slot is all that an opened sequence changes.
Opens(process, r, n) ==
  /\ ProcessInv(n.process) /\ n.process.up
  /\ n.handle \in Natives
  /\ LET s == n.handle[1]
     IN  /\ SlotOf(n.process, s).generation = n.handle[2]
         /\ SlotOf(n.process, s).lifecycle = "prefill" /\ SlotOf(n.process, s).key = r
         /\ SlotOf(process, s).lifecycle = "released"
         /\ \A t \in Slots \ {s} : SlotOf(n.process, t) = SlotOf(process, t)

\* An opened sequence gets a vacant slot; a refusal changes nothing.
LEMMA NativeOpens ==
  ASSUME NEW process, ProcessInv(process), process.up, NEW r \in Requests
  PROVE  \/ NativeOpen(process, r).answer = "opened" /\ Opens(process, r, NativeOpen(process, r))
         \/ NativeOpen(process, r).answer = "error" /\ NativeOpen(process, r).process = process
<1>1. PICK engine : engine = process.engine
  OBVIOUS
<1>2. EngineInv(engine) /\ process = [up |-> TRUE, engine |-> engine]
  BY <1>1 DEF ProcessInv, NoProcess
<1>3. CASE AdmissionStatus(engine, r, 1, 1) # "admitted"
  BY <1>1, <1>3 DEF NativeOpen, Admit
<1>4. CASE AdmissionStatus(engine, r, 1, 1) = "admitted"
  <2>1. PICK s : s = FirstVacant(engine)
    OBVIOUS
  <2>2. s \in Slots /\ engine.slots[s].lifecycle = "released"
    BY <1>2, <1>4, <2>1, VacantSlot DEF AdmissionStatus
  <2>3. PICK g : g = NextGeneration(engine.slots[s].generation)
    OBVIOUS
  <2>4. g \in Nat
    BY <1>2, <2>2, <2>3, NextGenerationType DEF EngineInv, Slot
  <2>5. PICK v : v = [Vacant(g) EXCEPT !.key = r, !.lifecycle = "admitted",
                        !.prompt_tokens = 1, !.output_token_budget = 1]
    OBVIOUS
  <2>6. v = [generation |-> g, key |-> r, lifecycle |-> "admitted",
             prompt_tokens |-> 1, output_token_budget |-> 1,
             prompt_tokens_processed |-> 0, decoded_tokens |-> 0]
    BY <2>5 DEF Vacant
  <2>7. PICK w : w = [v EXCEPT !.lifecycle = "prefill"]
    OBVIOUS
  <2>8. w = [generation |-> g, key |-> r, lifecycle |-> "prefill",
             prompt_tokens |-> 1, output_token_budget |-> 1,
             prompt_tokens_processed |-> 0, decoded_tokens |-> 0]
    BY <2>6, <2>7
  <2>9. w \in Slot /\ w.lifecycle = "prefill" /\ w.generation = g /\ w.key = r
    BY <2>4, <2>8 DEF Slot
  <2>10. PICK mid : mid = [slots |-> [engine.slots EXCEPT ![s] = v],
                           reserved_tokens |-> engine.reserved_tokens + 1 + 1,
                           active_sequences |-> engine.active_sequences + 1]
    OBVIOUS
  <2>11. Admit(engine, r, 1, 1) =
           [status |-> "admitted", handle |-> Handle(s, g, r), engine |-> mid]
    BY <1>4, <2>1, <2>3, <2>5, <2>10 DEF Admit
  <2>12. engine.slots \in [Slots -> Slot] /\ mid.slots[s] = v
    BY <1>2, <2>2, <2>10 DEF EngineInv
  <2>13. Finds(mid, Handle(s, g, r)) /\ mid.slots[s].lifecycle = "admitted"
    BY <2>6, <2>12 DEF Finds, Handle
  <2>14. PICK new : new = [mid EXCEPT !.slots[s] = w]
    OBVIOUS
  <2>15. StartPrefill(mid, Handle(s, g, r)).engine = new
    BY <2>7, <2>12, <2>13, <2>14 DEF StartPrefill, Operate, Handle
  <2>16. /\ new.slots = [engine.slots EXCEPT ![s] = w]
         /\ new.active_sequences = engine.active_sequences + 1
         /\ new = [slots |-> new.slots, reserved_tokens |-> new.reserved_tokens,
                   active_sequences |-> new.active_sequences]
    BY <2>2, <2>10, <2>12, <2>14
  <2>17. EngineInv(new)
    <3>1. new.slots \in [Slots -> Slot]
      BY <2>9, <2>12, <2>16
    <3>2. Cardinality(Live(new.slots)) = Cardinality(Live(engine.slots)) + 1
      BY <2>2, <2>9, <2>12, <2>16, LiveAdd
    <3> QED
      BY <1>2, <2>16, <3>1, <3>2 DEF EngineInv
  <2>18. NativeOpen(process, r) = [process |-> [up |-> TRUE, engine |-> new],
                                   answer |-> "opened", handle |-> <<s, g>>]
    <3>1. PICK adm : adm = Admit(process.engine, r, 1, 1)
      OBVIOUS
    <3>2. adm.status = "admitted" /\ adm.handle = Handle(s, g, r) /\ adm.engine = mid
      BY <1>1, <2>11, <3>1
    <3>3. adm.handle.slot = s /\ adm.handle.generation = g
      BY <3>2 DEF Handle
    <3>4. [process EXCEPT !.engine = new] = [up |-> TRUE, engine |-> new]
      BY <1>2, WithEngine, Zenon
    <3>5. NativeOpen(process, r) =
            [process |-> [process EXCEPT !.engine = StartPrefill(adm.engine, adm.handle).engine],
             answer |-> "opened", handle |-> <<adm.handle.slot, adm.handle.generation>>]
      BY <3>1, <3>2 DEF NativeOpen
    <3> QED
      BY <2>15, <3>2, <3>3, <3>4, <3>5
  <2>19. ProcessInv([up |-> TRUE, engine |-> new])
    BY <2>17 DEF ProcessInv
  <2>20. /\ new.slots[s] = w /\ \A t \in Slots \ {s} : new.slots[t] = engine.slots[t]
         /\ <<s, g>> \in Natives
    BY <2>2, <2>4, <2>12, <2>16 DEF Natives
  <2> QED
    BY <1>1, <2>2, <2>9, <2>18, <2>19, <2>20 DEF Opens, SlotOf
<1> QED
  BY <1>3, <1>4

\* A native handle that is released no longer names a sequence, and every
\* other slot is as before.
Frees(process, native, n) ==
  /\ n.answer \in {"released", "already_released", "stale_handle"}
  /\ ProcessInv(n.process) /\ n.process.up
  /\ ~Occupied(n.process, native)
  /\ \A t \in Slots : SlotOf(n.process, t).lifecycle # "released" =>
                        SlotOf(n.process, t) = SlotOf(process, t)

\* A sequence that is released is cancelled first, so that it is always
\* terminal; a handle that names no sequence changes nothing.
LEMMA NativeReleases ==
  ASSUME NEW process, ProcessInv(process), process.up, NEW native \in Natives
  PROVE  Frees(process, native, NativeRelease(process, native))
<1>1. PICK engine : engine = process.engine
  OBVIOUS
<1>2. EngineInv(engine) /\ process = [up |-> TRUE, engine |-> engine]
  BY <1>1 DEF ProcessInv, NoProcess
<1>3. PICK s, g : s \in Slots /\ g \in Nat /\ native = <<s, g>> /\ native[1] = s /\ native[2] = g
  BY DEF Natives
<1>4. engine.slots \in [Slots -> Slot] /\ engine.slots[s] \in Slot
  BY <1>2, <1>3 DEF EngineInv
<1>5. CASE ~Occupied(process, native)
  <2>1. ~Finds(engine, Handle(s, g, NoKey))
    BY <1>1, <1>3, <1>5 DEF Occupied, Finds, Handle
  <2>2. PICK st \in {"already_released", "stale_handle"} :
          Release(engine, Handle(s, g, NoKey)) = [status |-> st, engine |-> engine]
    BY <2>1 DEF Release
  <2>3. NativeRelease(process, native) = [process |-> process, answer |-> st, handle |-> native]
    <3>1. PICK rel : rel = Release(engine, Handle(s, g, NoKey))
      OBVIOUS
    <3>2. NativeRelease(process, native) =
            [process |-> [process EXCEPT !.engine = rel.engine],
             answer |-> rel.status, handle |-> native]
      BY <1>1, <1>3, <1>5, <3>1 DEF NativeRelease
    <3>3. [process EXCEPT !.engine = engine] = process
      BY <1>2, WithEngine, Zenon
    <3> QED
      BY <2>2, <3>1, <3>2, <3>3
  <2> QED
    BY <1>5, <2>2, <2>3 DEF Frees
<1>6. CASE Occupied(process, native)
  <2>1. PICK k : k = engine.slots[s].key
    OBVIOUS
  <2>2. PICK h : h = Handle(s, g, k)
    OBVIOUS
  <2>3. h.slot = s /\ h.generation = g /\ h.key = k
    BY <2>2 DEF Handle
  <2>4. engine.slots[s].lifecycle = "prefill" /\ engine.slots[s].generation = g
    BY <1>1, <1>3, <1>4, <1>6 DEF Occupied, Slot
  <2>5. PICK v : v = [engine.slots[s] EXCEPT !.lifecycle = "terminal"]
    OBVIOUS
  <2>6. v.lifecycle = "terminal" /\ v.generation = g /\ v.key = k
    BY <1>4, <2>1, <2>4, <2>5 DEF Slot
  <2>7. PICK mid : mid = [engine EXCEPT !.slots[s] = v]
    OBVIOUS
  <2>8. /\ mid.slots = [engine.slots EXCEPT ![s] = v] /\ mid.slots[s] = v
        /\ mid.active_sequences = engine.active_sequences
    BY <1>2, <1>3, <1>4, <2>7 DEF EngineInv
  <2>9. Finds(engine, h)
    BY <2>1, <2>3, <2>4 DEF Finds
  <2>10. Cancel(engine, h).engine = mid
    BY <2>3, <2>4, <2>5, <2>7, <2>9 DEF Cancel, Operate
  <2>11. Finds(mid, h) /\ mid.slots[s].lifecycle = "terminal"
    BY <2>3, <2>6, <2>8 DEF Finds
  <2>12. PICK new : new = [slots |-> [mid.slots EXCEPT ![s] = Vacant(g)],
                           reserved_tokens |-> mid.reserved_tokens - Reservation(v),
                           active_sequences |-> mid.active_sequences - 1]
    OBVIOUS
  <2>13. Release(mid, h) = [status |-> "released", engine |-> new]
    BY <2>3, <2>6, <2>8, <2>11, <2>12 DEF Release
  <2>14. NativeRelease(process, native) =
           [process |-> [up |-> TRUE, engine |-> new], answer |-> "released", handle |-> native]
    <3>1. PICK rel : rel = Release(Cancel(engine, h).engine, h)
      OBVIOUS
    <3>2. NativeRelease(process, native) =
            [process |-> [process EXCEPT !.engine = rel.engine],
             answer |-> rel.status, handle |-> native]
      BY <1>1, <1>3, <1>6, <2>1, <2>2, <3>1 DEF NativeRelease
    <3>3. [process EXCEPT !.engine = new] = [up |-> TRUE, engine |-> new]
      BY <1>2, WithEngine, Zenon
    <3> QED
      <4>1. rel.status = "released" /\ rel.engine = new
        BY <2>10, <2>13, <3>1
      <4> QED
        BY <3>2, <3>3, <4>1, Zenon
  <2>15. PICK z : z = Vacant(g)
    OBVIOUS
  <2>16. z \in Slot /\ z.lifecycle = "released"
    BY <1>3, <2>15 DEF Vacant, Slot
  <2>17. /\ new.slots = [engine.slots EXCEPT ![s] = z]
         /\ new.active_sequences = engine.active_sequences - 1
         /\ new = [slots |-> new.slots, reserved_tokens |-> new.reserved_tokens,
                   active_sequences |-> new.active_sequences]
    BY <1>3, <1>4, <2>8, <2>12, <2>15
  <2>18. EngineInv(new)
    <3>1. new.slots \in [Slots -> Slot]
      BY <1>4, <2>16, <2>17
    <3>2. Cardinality(Live(new.slots)) = Cardinality(Live(engine.slots)) - 1
      BY <1>3, <1>4, <2>4, <2>16, <2>17, LiveRemove
    <3> QED
      BY <1>2, <2>17, <3>1, <3>2 DEF EngineInv
  <2>19. ProcessInv([up |-> TRUE, engine |-> new])
    BY <2>18 DEF ProcessInv
  <2>20. new.slots[s] = z /\ \A t \in Slots \ {s} : new.slots[t] = engine.slots[t]
    BY <1>3, <1>4, <2>17
  <2> QED
    <3>1. PICK p : p = [up |-> TRUE, engine |-> new]
      OBVIOUS
    <3>2. p.up /\ ProcessInv(p) /\ p.engine = new
      BY <2>19, <3>1
    <3>3. ~Occupied(p, native)
      BY <1>3, <2>16, <2>20, <3>2 DEF Occupied
    <3>4. \A t \in Slots : SlotOf(p, t).lifecycle # "released" => SlotOf(p, t) = SlotOf(process, t)
      BY <1>1, <2>16, <2>20, <3>2 DEF SlotOf
    <3> QED
      <4>1. PICK n : n = NativeRelease(process, native)
        OBVIOUS
      <4>2. n.process = p /\ n.answer = "released"
        BY <2>14, <3>1, <4>1
      <4>3. Frees(process, native, n)
        BY <3>2, <3>3, <3>4, <4>2 DEF Frees
      <4> QED
        BY <4>1, <4>3
<1> QED
  BY <1>5, <1>6

-----------------------------------------------------------------------------
(***************************************************************************)
(* The adapter, and what time may do to it while a call is under way:      *)
(* nothing, the end of its process, or a new one.                          *)
(***************************************************************************)

\* Every active handle is the public name, at this generation of the process,
\* of the native handle it stands for.
AdapterInv(a) ==
  /\ a = [process |-> a.process, state |-> a.state, generation |-> a.generation,
          active |-> a.active, released |-> a.released]
  /\ ProcessInv(a.process)
  /\ a.process.up => a.state = "READY"
  /\ a.generation \in Nat
  /\ DOMAIN a.active \subseteq Natives
  /\ \A h \in DOMAIN a.active : a.active[h] \in Natives /\ h = Public(a, a.active[h])

NoHandles(active) == DOMAIN active = {}

Ages(a, b) ==
  \/ /\ b.active = a.active /\ b.generation = a.generation
     /\ b.process.up => b.process = a.process
  \/ /\ NoHandles(b.active) /\ b.generation \in Nat /\ b.generation >= a.generation
     /\ ~b.process.up
  \/ /\ NoHandles(b.active) /\ b.generation \in Nat /\ b.generation > a.generation
     /\ b.process = NewProcess

\* A process without handles and one that was just started are in order.
LEMMA NewProcessInv ==
  /\ ProcessInv(NewProcess) /\ NewProcess.up
  /\ \A s \in Slots : SlotOf(NewProcess, s).lifecycle = "released"
  /\ ProcessInv(NoProcess) /\ ~NoProcess.up
<1>1. NewProcess.up /\ NewProcess.engine = NewEngine
      /\ NewProcess = [up |-> NewProcess.up, engine |-> NewProcess.engine]
  BY DEF NewProcess
<1>2. ~NoProcess.up
  BY DEF NoProcess
<1> QED
  BY <1>1, <1>2, NewEngineInv DEF ProcessInv, SlotOf

\* An adapter without handles is in order if its process is.
LEMMA EmptyAdapter ==
  ASSUME NEW p, ProcessInv(p), NEW st, p.up => st = "READY", NEW g \in Nat
  PROVE  AdapterInv([process |-> p, state |-> st, generation |-> g,
                     active |-> << >>, released |-> <<>>])
<1> DEFINE a == [process |-> p, state |-> st, generation |-> g,
                 active |-> << >>, released |-> <<>>]
<1>1. /\ a.process = p /\ a.state = st /\ a.generation = g /\ DOMAIN a.active = {}
      /\ a = [process |-> a.process, state |-> a.state, generation |-> a.generation,
              active |-> a.active, released |-> a.released]
  OBVIOUS
<1> HIDE DEF a
<1>2. AdapterInv(a)
  BY <1>1 DEF AdapterInv
<1> QED
  BY <1>2 DEF a

\* Another process in the place of the one before.
LEMMA WithProcess ==
  ASSUME NEW a, AdapterInv(a), NEW p, ProcessInv(p), p.up => a.state = "READY",
         NEW b, b = [a EXCEPT !.process = p]
  PROVE  AdapterInv(b) /\ b.process = p /\ b.active = a.active /\ b.generation = a.generation
<1>1. a = [process |-> a.process, state |-> a.state, generation |-> a.generation,
           active |-> a.active, released |-> a.released]
  BY DEF AdapterInv
<1>2. b = [process |-> p, state |-> a.state, generation |-> a.generation,
           active |-> a.active, released |-> a.released]
  BY <1>1
<1>3. /\ b.process = p /\ b.state = a.state /\ b.active = a.active /\ b.generation = a.generation
      /\ b = [process |-> b.process, state |-> b.state, generation |-> b.generation,
              active |-> b.active, released |-> b.released]
  BY <1>2
<1>4. \A h \in DOMAIN b.active : b.active[h] \in Natives /\ h = Public(b, b.active[h])
  BY <1>3 DEF AdapterInv, Public
<1> QED
  BY <1>3, <1>4 DEF AdapterInv

\* start() keeps a process that runs, and forgets every handle otherwise.
LEMMA StartedAges ==
  ASSUME NEW a, AdapterInv(a)
  PROVE  /\ AdapterInv(Started(a)) /\ Ages(a, Started(a)) /\ Started(a).process.up
         /\ Started(a).state = "READY"
<1>1. CASE Running(a)
  BY <1>1 DEF Started, Running, Ages, AdapterInv
<1>2. CASE ~Running(a)
  <2>1. Started(a) = [process |-> NewProcess, state |-> "READY", generation |-> a.generation + 1,
                      active |-> << >>, released |-> <<>>]
    BY <1>2 DEF Started
  <2>2. a.generation \in Nat /\ a.generation + 1 \in Nat
    BY DEF AdapterInv
  <2>3. AdapterInv(Started(a))
    BY <2>1, <2>2, NewProcessInv, EmptyAdapter
  <2>4. /\ Started(a).process = NewProcess /\ Started(a).generation = a.generation + 1
        /\ DOMAIN Started(a).active = {} /\ Started(a).state = "READY"
    BY <2>1
  <2> QED
    BY <2>2, <2>3, <2>4, NewProcessInv DEF Ages, NoHandles
<1> QED
  BY <1>1, <1>2

\* A process that is failed leaves no handle behind.
LEMMA FailedAges ==
  ASSUME NEW a, AdapterInv(a), NEW p, NEW c, c = [a EXCEPT !.process = p] \/ c = a
  PROVE  /\ AdapterInv(ProcessFailed(c)) /\ ~ProcessFailed(c).process.up
         /\ NoHandles(ProcessFailed(c).active) /\ ProcessFailed(c).generation = a.generation
<1>1. a = [process |-> a.process, state |-> a.state, generation |-> a.generation,
           active |-> a.active, released |-> a.released] /\ a.generation \in Nat
  BY DEF AdapterInv
<1>2. ProcessFailed(c) = [process |-> NoProcess, state |-> "DEGRADED",
                          generation |-> a.generation, active |-> << >>, released |-> <<>>]
  <2>1. c = [process |-> c.process, state |-> a.state, generation |-> a.generation,
             active |-> a.active, released |-> a.released]
    BY <1>1
  <2>2. PICK d : d = [c EXCEPT !.process = NoProcess, !.state = "DEGRADED",
                               !.active = << >>, !.released = <<>>]
    OBVIOUS
  <2>3. d = [process |-> NoProcess, state |-> "DEGRADED", generation |-> a.generation,
             active |-> << >>, released |-> <<>>]
    BY <2>1, <2>2
  <2> QED
    BY <2>2, <2>3 DEF ProcessFailed
<1>3. /\ ProcessFailed(c).process = NoProcess /\ DOMAIN ProcessFailed(c).active = {}
      /\ ProcessFailed(c).generation = a.generation
  BY <1>2
<1>4. AdapterInv(ProcessFailed(c))
  BY <1>1, <1>2, NewProcessInv, EmptyAdapter
<1> QED
  BY <1>3, <1>4, NewProcessInv DEF NoHandles

\* _protocol_failure() leaves no process.
LEMMA ProtocolFails ==
  ASSUME NEW a, AdapterInv(a)
  PROVE  /\ AdapterInv(ProtocolFailure(a)) /\ ~ProtocolFailure(a).process.up
         /\ Ages(a, ProtocolFailure(a))
<1>1. CASE a.process = NoProcess
  BY <1>1, NewProcessInv DEF ProtocolFailure, Ages
<1>2. CASE a.process # NoProcess
  <2>1. ProtocolFailure(a) = ProcessFailed(a)
    BY <1>2 DEF ProtocolFailure
  <2>2. a.generation \in Nat
    BY DEF AdapterInv
  <2> QED
    BY <2>1, <2>2, FailedAges DEF Ages
<1> QED
  BY <1>1, <1>2

\* A command is answered by the process it was written to, or ends with no
\* process at all.
LEMMA CommandEnds ==
  ASSUME NEW a, AdapterInv(a), NEW cmd, NEW result \in Command(a, cmd)
  PROVE  \/ result = Answered(a, cmd)
         \/ /\ result.answer = "error" /\ AdapterInv(result.adapter)
            /\ Ages(a, result.adapter) /\ ~result.adapter.process.up
<1>1. result = Answered(a, cmd) \/ result \in Unanswered(a, cmd)
  BY DEF Command
<1>2. CASE result \in Unanswered(a, cmd)
  <2> DEFINE s == Started(a)
             handled == [s EXCEPT !.process = Native(s.process, cmd).process]
  <2>1. PICK b : /\ result.answer = "error" /\ result.adapter = b
                 /\ \/ b = ProcessFailed(s) \/ b = ProcessFailed(handled)
                    \/ b = StartFailed(a)
    BY <1>2 DEF Unanswered, Result
  <2>2. AdapterInv(s) /\ s.generation >= a.generation /\ s.generation \in Nat
    BY StartedAges DEF Ages, AdapterInv
  <2>3. CASE b = ProcessFailed(s) \/ b = ProcessFailed(handled)
    <3>1. /\ AdapterInv(b) /\ ~b.process.up /\ NoHandles(b.active)
          /\ b.generation = s.generation
      BY <2>2, <2>3, FailedAges
    <3> QED
      BY <2>1, <2>2, <3>1 DEF Ages
  <2>4. CASE b = StartFailed(a)
    <3>1. PICK c : c = [a EXCEPT !.process = NoProcess]
      OBVIOUS
    <3>2. AdapterInv(c) /\ c.process = NoProcess /\ c.active = a.active /\ c.generation = a.generation
      BY <3>1, NewProcessInv, WithProcess
    <3>3. a = [process |-> a.process, state |-> a.state, generation |-> a.generation,
               active |-> a.active, released |-> a.released]
      BY DEF AdapterInv
    <3>4. b = [process |-> NoProcess, state |-> "DEGRADED", generation |-> a.generation,
               active |-> a.active, released |-> a.released]
      BY <2>4, <3>3 DEF StartFailed
    <3>5. /\ b.process = NoProcess /\ b.active = a.active /\ b.generation = a.generation
          /\ b = [process |-> b.process, state |-> b.state, generation |-> b.generation,
                  active |-> b.active, released |-> b.released]
      BY <3>4
    <3>6. \A h \in DOMAIN b.active : b.active[h] \in Natives /\ h = Public(b, b.active[h])
      BY <3>5 DEF AdapterInv, Public
    <3>7. AdapterInv(b) /\ ~b.process.up
      BY <3>5, <3>6, NewProcessInv DEF AdapterInv
    <3> QED
      BY <2>1, <3>5, <3>7 DEF Ages
  <2> QED
    BY <2>1, <2>3, <2>4
<1> QED
  BY <1>1, <1>2

\* What is answered, is answered for the process that start() leaves.
LEMMA AnsweredBy ==
  ASSUME NEW a, NEW cmd
  PROVE  /\ Answered(a, cmd).answer = Native(Started(a).process, cmd).answer
         /\ Answered(a, cmd).handle = Native(Started(a).process, cmd).handle
         /\ Answered(a, cmd).adapter =
              [Started(a) EXCEPT !.process = Native(Started(a).process, cmd).process]
BY DEF Answered, Result

-----------------------------------------------------------------------------
(***************************************************************************)
(* Who holds the sequences of the running process.  The invariant is an    *)
(* operator of the adapter, the call and the scheduler's view, so that     *)
(* what happens to one of them can be said with the others fixed.          *)
(***************************************************************************)

SchedInv(sch) == sch \in [Requests -> [st : {"new", "open", "done"}, handle : Natives]]

OpenCall(c) ==
  /\ c = [op |-> "open", request |-> c.request, pc |-> c.pc, native |-> c.native]
  /\ c.request \in Requests /\ c.pc \in {"command", "register"} /\ c.native \in Natives

StepsCall(c) ==
  /\ c = [op |-> "steps", pc |-> c.pc, batch |-> c.batch, native |-> c.native,
          origin |-> c.origin]
  /\ c.pc \in {"command", "verify"} /\ c.batch \subseteq Requests /\ c.batch # {}
  /\ \A r \in c.batch : c.native[r] \in Natives

ReleaseCall(c) ==
  /\ c = [op |-> "release", request |-> c.request, pc |-> c.pc, native |-> c.native,
          status |-> c.status]
  /\ c.request \in Requests /\ c.pc \in {"command", "verify", "forget"}
  /\ c.native \in Natives

CallInv(c) == c = NoCall \/ OpenCall(c) \/ StepsCall(c) \/ ReleaseCall(c)

\* The open call that has the sequence of slot s and not yet its handle.
Registering(c, slot, n) ==
  c.op = "open" /\ c.pc = "register" /\ c.request = slot.key /\ c.native = n

HeldBy(a, sch, slot, n) == sch[slot.key].st = "open" /\ Correlates(a, sch[slot.key].handle, n)

Held(a, c, sch) ==
  \A s \in Slots :
    LET slot == SlotOf(a.process, s)
    IN  slot.lifecycle # "released" =>
          /\ slot.key \in Requests
          /\ \/ HeldBy(a, sch, slot, <<s, slot.generation>>)
             \/ Registering(c, slot, <<s, slot.generation>>)

\* The handle that is being released still stands for the same sequence, and
\* the sequence is gone once the command has been answered.
ReleaseInv(a, c, sch) ==
  /\ sch[c.request].st = "open"
  /\ sch[c.request].handle \in DOMAIN a.active =>
       a.active[sch[c.request].handle] = c.native
  /\ c.pc # "command" =>
       /\ c.status # "invalid_state"
       /\ a.process.up => ~Occupied(a.process, c.native)

Ledger(a, c, sch) ==
  /\ AdapterInv(a) /\ SchedInv(sch) /\ CallInv(c)
  /\ a.process.up => Held(a, c, sch)
  /\ c.op = "open" => sch[c.request].st = "new"
  /\ c.op = "release" => ReleaseInv(a, c, sch)

\* The kinds of calls exclude each other.
LEMMA CallKinds ==
  ASSUME NEW c, CallInv(c)
  PROVE  /\ c = NoCall <=> c.op = "none"
         /\ OpenCall(c) <=> c.op = "open"
         /\ StepsCall(c) <=> c.op = "steps"
         /\ ReleaseCall(c) <=> c.op = "release"
<1>1. NoCall.op = "none"
  BY DEF NoCall
<1>2. OpenCall(c) => c.op = "open"
  BY DEF OpenCall
<1>3. StepsCall(c) => c.op = "steps"
  BY DEF StepsCall
<1>4. ReleaseCall(c) => c.op = "release"
  BY DEF ReleaseCall
<1> QED
  BY <1>1, <1>2, <1>3, <1>4 DEF CallInv

\* Without a process there is nothing to hold.
LEMMA LedgerDead ==
  ASSUME NEW b, AdapterInv(b), ~b.process.up, NEW sch, SchedInv(sch)
  PROVE  Ledger(b, NoCall, sch)
<1>1. NoCall.op = "none"
  BY DEF NoCall
<1> QED
  BY <1>1 DEF Ledger, CallInv

\* The end of the process and the start of another take nothing from anyone.
LEMMA LedgerAges ==
  ASSUME NEW a, NEW c, NEW sch, Ledger(a, c, sch), NEW b, AdapterInv(b), Ages(a, b)
  PROVE  Ledger(b, c, sch)
<1>1. CASE b.active = a.active /\ (b.process.up => b.process = a.process)
  <2>1. b.process.up => Held(b, c, sch)
    BY <1>1 DEF Ledger, Held, HeldBy, Correlates
  <2>2. c.op = "release" => ReleaseInv(b, c, sch)
    BY <1>1 DEF Ledger, ReleaseInv
  <2> QED
    BY <2>1, <2>2 DEF Ledger
<1>2. CASE NoHandles(b.active) /\ (~b.process.up \/ b.process = NewProcess)
  <2>1. b.process.up => \A s \in Slots : SlotOf(b.process, s).lifecycle = "released"
    BY <1>2, NewProcessInv
  <2>2. b.process.up => Held(b, c, sch)
    BY <2>1 DEF Held
  <2>3. ASSUME c.op = "release" PROVE ReleaseInv(b, c, sch)
    <3>1. c.native \in Natives /\ ReleaseInv(a, c, sch)
      BY <2>3, CallKinds DEF Ledger, ReleaseCall
    <3>2. c.native[1] \in Slots
      BY <3>1 DEF Natives
    <3>3. b.process.up => ~Occupied(b.process, c.native)
      BY <2>1, <3>2 DEF Occupied, SlotOf
    <3> QED
      BY <1>2, <3>1, <3>3 DEF ReleaseInv, NoHandles
  <2> QED
    BY <2>2, <2>3 DEF Ledger
<1> QED
  BY <1>1, <1>2 DEF Ages

\* A call that has no sequence of its own can be dropped.
LEMMA LedgerDrop ==
  ASSUME NEW a, NEW c, NEW sch, Ledger(a, c, sch), ~(c.op = "open" /\ c.pc = "register")
  PROVE  Ledger(a, NoCall, sch)
<1>1. NoCall.op = "none"
  BY DEF NoCall
<1>2. a.process.up => Held(a, NoCall, sch)
  BY DEF Ledger, Held, Registering
<1> QED
  BY <1>1, <1>2 DEF Ledger, CallInv

\* The calls that give up on a request only touch that request.
LEMMA GivingUp ==
  ASSUME SchedInv(sched), NEW r \in Requests
  PROVE  /\ SchedInv(Lost(r)) /\ Lost(r)[r].st = "done"
         /\ SchedInv(Closed(r)) /\ Closed(r)[r].st = "done"
         /\ \A q \in Requests \ {r} : Lost(r)[q] = sched[q] /\ Closed(r)[q] = sched[q]
         /\ Closed(r)[r].handle = sched[r].handle
<1>1. NoNative \in Natives
  BY EngineAssumption DEF NoNative, Natives, Slots
<1>2. sched \in [Requests -> [st : {"new", "open", "done"}, handle : Natives]]
  BY DEF SchedInv
<1>3. Lost(r) \in [Requests -> [st : {"new", "open", "done"}, handle : Natives]]
      /\ Lost(r)[r].st = "done"
  BY <1>1, <1>2 DEF Lost
<1>4. /\ Closed(r) \in [Requests -> [st : {"new", "open", "done"}, handle : Natives]]
      /\ Closed(r)[r].st = "done" /\ Closed(r)[r].handle = sched[r].handle
  BY <1>2 DEF Closed
<1>5. \A q \in Requests \ {r} : Lost(r)[q] = sched[q] /\ Closed(r)[q] = sched[q]
  BY <1>2 DEF Lost, Closed
<1> QED
  BY <1>3, <1>4, <1>5 DEF SchedInv

\* A call that begins has no sequence yet.
LEMMA LedgerCallOpen ==
  ASSUME Ledger(adapter, call, sched), NEW r \in Requests, CallOpen(r)
  PROVE  Ledger(adapter', call', sched')
<1>1. PICK c : c = call'
  OBVIOUS
<1>2. /\ c = [op |-> "open", request |-> r, pc |-> "command", native |-> NoNative]
      /\ sched[r].st = "new" /\ adapter' = adapter /\ sched' = sched /\ call = NoCall
  BY <1>1 DEF CallOpen
<1>3. /\ c.op = "open" /\ c.request = r /\ c.pc = "command" /\ c.native = NoNative
      /\ NoNative \in Natives
  BY <1>2, EngineAssumption DEF NoNative, Natives, Slots
<1>4. OpenCall(c)
  BY <1>2, <1>3 DEF OpenCall
<1>5. adapter.process.up => Held(adapter, c, sched)
  BY <1>2, <1>3 DEF Ledger, Held, Registering, NoCall
<1>6. Ledger(adapter, c, sched)
  BY <1>2, <1>3, <1>4, <1>5 DEF Ledger, CallInv
<1> QED
  BY <1>1, <1>2, <1>6

\* What open_sequence gets is a new sequence, which the call holds.
LEMMA LedgerOpenCommand ==
  ASSUME Ledger(adapter, call, sched), OpenCommand
  PROVE  Ledger(adapter', call', sched')
<1>1. /\ call.op = "open" /\ call.pc = "command" /\ AdapterInv(adapter) /\ SchedInv(sched)
      /\ OpenCall(call) /\ call.request \in Requests /\ sched[call.request].st = "new"
  BY CallKinds DEF OpenCommand, Ledger, OpenCall
<1>2. PICK r, cmd : r = call.request /\ cmd = [op |-> "open", request |-> r]
  OBVIOUS
<1>3. PICK result \in Command(adapter, cmd) :
        /\ adapter' = result.adapter
        /\ IF result.answer = "opened"
           THEN /\ call' = [call EXCEPT !.pc = "register", !.native = result.handle]
                /\ sched' = sched
           ELSE call' = NoCall /\ sched' = Lost(r)
  BY <1>2 DEF OpenCommand
<1>4. CASE /\ result.answer = "error" /\ AdapterInv(result.adapter)
           /\ ~result.adapter.process.up
  BY <1>1, <1>2, <1>3, <1>4, GivingUp, LedgerDead
<1>5. CASE result = Answered(adapter, cmd)
  <2>1. PICK s : s = Started(adapter)
    OBVIOUS
  <2>2. AdapterInv(s) /\ Ages(adapter, s) /\ s.process.up /\ s.state = "READY"
    BY <1>1, <2>1, StartedAges
  <2>3. Ledger(s, call, sched)
    BY <2>2, LedgerAges
  <2>4. PICK n : n = NativeOpen(s.process, r)
    OBVIOUS
  <2>5. Native(s.process, cmd) = n
    BY <1>2, <2>4 DEF Native
  <2>6. PICK b : b = [s EXCEPT !.process = n.process]
    OBVIOUS
  <2>7. result.adapter = b /\ result.answer = n.answer /\ result.handle = n.handle
    BY <1>5, <2>1, <2>5, <2>6, AnsweredBy
  <2>8. CASE n.answer = "opened" /\ Opens(s.process, r, n)
    <3>1. /\ ProcessInv(n.process) /\ n.process.up /\ n.handle \in Natives
          /\ SlotOf(n.process, n.handle[1]).generation = n.handle[2]
          /\ SlotOf(n.process, n.handle[1]).key = r
          /\ \A t \in Slots \ {n.handle[1]} : SlotOf(n.process, t) = SlotOf(s.process, t)
      BY <2>8 DEF Opens
    <3>2. AdapterInv(b) /\ b.process = n.process /\ b.active = s.active
      BY <2>2, <2>6, <3>1, WithProcess
    <3>3. PICK c : c = [call EXCEPT !.pc = "register", !.native = n.handle]
      OBVIOUS
    <3>4. call = [op |-> "open", request |-> r, pc |-> call.pc, native |-> call.native]
      BY <1>1, <1>2 DEF OpenCall
    <3>5. c = [op |-> "open", request |-> r, pc |-> "register", native |-> n.handle]
      <4>1. PICK h : h = n.handle
        OBVIOUS
      <4>2. PICK pc, native : call = [op |-> "open", request |-> r, pc |-> pc, native |-> native]
        BY <3>4
      <4>3. c = [call EXCEPT !.pc = "register", !.native = h]
        BY <3>3, <4>1
      <4>4. c = [op |-> "open", request |-> r, pc |-> "register", native |-> h]
        BY <4>2, <4>3
      <4> QED
        BY <4>1, <4>4
    <3>6. c.op = "open" /\ c.request = r /\ c.pc = "register" /\ c.native = n.handle
      BY <3>5
    <3>7. OpenCall(c)
      BY <1>1, <1>2, <3>1, <3>5, <3>6 DEF OpenCall
    <3>8. Held(b, c, sched)
      <4> SUFFICES ASSUME NEW t \in Slots, SlotOf(n.process, t).lifecycle # "released"
                   PROVE  LET slot == SlotOf(n.process, t)
                          IN  /\ slot.key \in Requests
                              /\ \/ HeldBy(b, sched, slot, <<t, slot.generation>>)
                                 \/ Registering(c, slot, <<t, slot.generation>>)
        BY <3>2 DEF Held
      <4>1. CASE t = n.handle[1]
        <5>1. n.handle = <<n.handle[1], n.handle[2]>>
          BY <3>1 DEF Natives
        <5> QED
          BY <1>1, <1>2, <3>1, <3>6, <4>1, <5>1 DEF Registering
      <4>2. CASE t # n.handle[1]
        <5>1. SlotOf(n.process, t) = SlotOf(s.process, t)
          BY <3>1, <4>2
        <5>2. Held(s, call, sched)
          BY <2>2, <2>3 DEF Ledger
        <5> QED
          BY <1>1, <3>2, <5>1, <5>2 DEF Held, HeldBy, Correlates, Registering
      <4> QED
        BY <4>1, <4>2
    <3>9. Ledger(b, c, sched)
      BY <1>1, <1>2, <3>2, <3>6, <3>7, <3>8 DEF Ledger, CallInv
    <3> QED
      BY <1>3, <2>7, <2>8, <3>3, <3>9
  <2>9. CASE n.answer = "error" /\ n.process = s.process
    <3>1. AdapterInv(b) /\ b.process = s.process /\ b.active = s.active
      BY <2>2, <2>6, <2>9, WithProcess DEF AdapterInv
    <3>2. Held(s, call, sched)
      BY <2>2, <2>3 DEF Ledger
    <3>3. PICK sch : sch = Lost(r)
      OBVIOUS
    <3>4. SchedInv(sch) /\ \A q \in Requests \ {r} : sch[q] = sched[q]
      BY <1>1, <1>2, <3>3, GivingUp
    <3>5. NoCall.op = "none"
      BY DEF NoCall
    <3>6. Held(b, NoCall, sch)
      BY <1>1, <1>2, <3>1, <3>2, <3>4 DEF Held, HeldBy, Correlates, Registering
    <3>7. Ledger(b, NoCall, sch)
      BY <3>1, <3>4, <3>5, <3>6 DEF Ledger, CallInv
    <3> QED
      BY <1>3, <2>7, <2>9, <3>3, <3>7
  <2> QED
    BY <1>1, <1>2, <2>2, <2>4, <2>8, <2>9, NativeOpens DEF AdapterInv
<1> QED
  BY <1>1, <1>3, <1>4, <1>5, CommandEnds

\* The handle that is registered is a new one, whichever process is there by
\* then.
LEMMA LedgerOpenRegister ==
  ASSUME Ledger(adapter, call, sched), OpenRegister
  PROVE  Ledger(adapter', call', sched')
<1>1. /\ call.op = "open" /\ call.pc = "register" /\ AdapterInv(adapter) /\ SchedInv(sched)
      /\ OpenCall(call) /\ call.request \in Requests /\ sched[call.request].st = "new"
      /\ call.native \in Natives
  BY CallKinds DEF OpenRegister, Ledger, OpenCall
<1>2. PICK r, p : r = call.request /\ p = Public(adapter, call.native)
  OBVIOUS
<1>3. call' = NoCall
  BY DEF OpenRegister
<1>4. CASE InUse(adapter, p)
  <2>1. adapter' = ProtocolFailure(adapter) /\ sched' = Lost(r)
    BY <1>2, <1>4 DEF OpenRegister
  <2> QED
    BY <1>1, <1>2, <1>3, <2>1, GivingUp, ProtocolFails, LedgerDead
<1>5. CASE ~InUse(adapter, p)
  <2>1. PICK b, act : /\ act = [k \in DOMAIN adapter.active \cup {p} |->
                                  IF k = p THEN call.native ELSE adapter.active[k]]
                      /\ b = [adapter EXCEPT !.active = act] /\ adapter' = b
    BY <1>2, <1>5 DEF OpenRegister
  <2>2. PICK sch : sch = [sched EXCEPT ![r] = [st |-> "open", handle |-> p]] /\ sched' = sch
    BY <1>2, <1>5 DEF OpenRegister
  <2>3. adapter = [process |-> adapter.process, state |-> adapter.state,
                   generation |-> adapter.generation, active |-> adapter.active,
                   released |-> adapter.released]
    BY <1>1 DEF AdapterInv
  <2>4. b = [process |-> adapter.process, state |-> adapter.state,
             generation |-> adapter.generation, active |-> act, released |-> adapter.released]
    BY <2>1, <2>3
  <2>5. /\ b.process = adapter.process /\ b.state = adapter.state /\ b.active = act
        /\ b.generation = adapter.generation
        /\ b = [process |-> b.process, state |-> b.state, generation |-> b.generation,
                active |-> b.active, released |-> b.released]
    BY <2>4
  <2>6. p \in Natives /\ \A n : Public(b, n) = Public(adapter, n)
    BY <1>1, <1>2, <2>5, AdapterAssumption DEF Public, Natives, AdapterInv
  <2>7. /\ DOMAIN act = DOMAIN adapter.active \cup {p} /\ act[p] = call.native
        /\ p \notin DOMAIN adapter.active
        /\ \A k \in DOMAIN adapter.active : act[k] = adapter.active[k]
    BY <1>5, <2>1 DEF InUse
  <2>8. AdapterInv(b)
    BY <1>1, <1>2, <2>5, <2>6, <2>7 DEF AdapterInv
  <2>9. /\ SchedInv(sch) /\ sch[r].st = "open" /\ sch[r].handle = p
        /\ \A q \in Requests \ {r} : sch[q] = sched[q]
    BY <1>1, <1>2, <2>2, <2>6 DEF SchedInv
  <2>10. ASSUME adapter.process.up PROVE Held(b, NoCall, sch)
    <3> SUFFICES ASSUME NEW t \in Slots, SlotOf(adapter.process, t).lifecycle # "released"
                 PROVE  LET slot == SlotOf(adapter.process, t)
                        IN  /\ slot.key \in Requests
                            /\ HeldBy(b, sch, slot, <<t, slot.generation>>)
      BY <2>5 DEF Held
    <3>1. PICK slot : slot = SlotOf(adapter.process, t)
      OBVIOUS
    <3>2. /\ slot.key \in Requests
          /\ \/ HeldBy(adapter, sched, slot, <<t, slot.generation>>)
             \/ Registering(call, slot, <<t, slot.generation>>)
      BY <2>10, <3>1 DEF Ledger, Held
    <3>3. CASE HeldBy(adapter, sched, slot, <<t, slot.generation>>)
      BY <1>1, <1>2, <2>5, <2>7, <2>9, <3>1, <3>2, <3>3 DEF HeldBy, Correlates
    <3>4. CASE Registering(call, slot, <<t, slot.generation>>)
      BY <1>2, <2>5, <2>7, <2>9, <3>1, <3>2, <3>4 DEF Registering, HeldBy, Correlates
    <3> QED
      BY <3>1, <3>2, <3>3, <3>4
  <2>11. NoCall.op = "none"
    BY DEF NoCall
  <2>12. Ledger(b, NoCall, sch)
    BY <2>5, <2>8, <2>9, <2>10, <2>11 DEF Ledger, CallInv
  <2> QED
    BY <1>3, <2>1, <2>2, <2>12
<1> QED
  BY <1>4, <1>5

\* Nor does a call on several sequences hold one of its own.
LEMMA LedgerTurn ==
  ASSUME NEW a, NEW c, NEW sch, Ledger(a, c, sch), ~(c.op = "open" /\ c.pc = "register"),
         NEW d, StepsCall(d)
  PROVE  Ledger(a, d, sch)
<1>1. d.op = "steps"
  BY DEF StepsCall
<1>2. a.process.up => Held(a, d, sch)
  BY DEF Ledger, Held, Registering
<1> QED
  BY <1>1, <1>2 DEF Ledger, CallInv

Noting(c, origin) == [c EXCEPT !.pc = "verify", !.origin = origin]

\* The answer of a batch is noted in its call.
LEMMA StepsMoves ==
  ASSUME NEW c, StepsCall(c), NEW origin, NEW d, d = Noting(c, origin)
  PROVE  /\ StepsCall(d) /\ d.pc = "verify" /\ d.origin = origin
         /\ d.batch = c.batch /\ d.native = c.native
<1>1. PICK pc, batch, native, none :
        c = [op |-> "steps", pc |-> pc, batch |-> batch, native |-> native, origin |-> none]
  BY DEF StepsCall
<1>2. d = [op |-> "steps", pc |-> "verify", batch |-> batch, native |-> native,
           origin |-> origin]
  BY <1>1 DEF Noting
<1>3. /\ d.pc = "verify" /\ d.origin = origin /\ d.batch = c.batch /\ d.native = c.native
      /\ d = [op |-> "steps", pc |-> d.pc, batch |-> d.batch, native |-> d.native,
              origin |-> d.origin]
  BY <1>1, <1>2
<1> QED
  BY <1>3 DEF StepsCall

\* And so are the outcomes that have been taken.
LEMMA StepsShrinks ==
  ASSUME NEW c, StepsCall(c), NEW r \in c.batch, c.batch # {r}, NEW d,
         d = [c EXCEPT !.batch = @ \ {r}]
  PROVE  /\ StepsCall(d) /\ d.pc = c.pc /\ d.origin = c.origin
         /\ d.batch = c.batch \ {r} /\ d.native = c.native
<1>1. PICK pc, batch, native, origin :
        c = [op |-> "steps", pc |-> pc, batch |-> batch, native |-> native, origin |-> origin]
  BY DEF StepsCall
<1>2. PICK rest : rest = batch \ {r}
  OBVIOUS
<1>3. d = [c EXCEPT !.batch = rest]
  BY <1>1, <1>2
<1>4. d = [op |-> "steps", pc |-> pc, batch |-> rest, native |-> native, origin |-> origin]
  BY <1>1, <1>3
<1>5. /\ d.pc = c.pc /\ d.origin = c.origin /\ d.batch = c.batch \ {r} /\ d.native = c.native
      /\ d = [op |-> "steps", pc |-> d.pc, batch |-> d.batch, native |-> d.native,
              origin |-> d.origin]
  BY <1>1, <1>2, <1>4
<1> QED
  BY <1>5 DEF StepsCall

\* Prefill and decode commands leave the slots as they are.
LEMMA LedgerSteps ==
  ASSUME Ledger(adapter, call, sched),
         \/ \E batch \in (SUBSET Requests) \ {{}} : CallSteps(batch)
         \/ StepsCommand
         \/ \E r \in Requests : StepsVerify(r)
  PROVE  Ledger(adapter', call', sched')
<1>0. /\ AdapterInv(adapter) /\ SchedInv(sched) /\ CallInv(call)
      /\ call = NoCall \/ call.op = "steps" => ~(call.op = "open" /\ call.pc = "register")
  <2>1. NoCall.op = "none"
    BY DEF NoCall
  <2> QED
    BY <2>1 DEF Ledger
<1>1. ASSUME NEW batch \in (SUBSET Requests) \ {{}}, CallSteps(batch)
      PROVE  Ledger(adapter', call', sched')
  <2>1. call = NoCall /\ adapter' = adapter /\ sched' = sched
    BY <1>1 DEF CallSteps
  <2>2. CASE call' = call
    BY <2>1, <2>2
  <2>3. CASE call' # call
    <3>1. PICK d : d = call'
      OBVIOUS
    <3>2. PICK nat, none : /\ nat = [r \in batch |-> adapter.active[sched[r].handle]]
                           /\ none = << >>
      OBVIOUS
    <3>3. /\ d = [op |-> "steps", pc |-> "command", batch |-> batch, native |-> nat, origin |-> none]
          /\ \A r \in batch : sched[r].handle \in DOMAIN adapter.active
      BY <1>1, <2>3, <3>1, <3>2 DEF CallSteps
    <3>4. \A r \in batch : nat[r] \in Natives
      BY <1>0, <3>2, <3>3 DEF AdapterInv
    <3>5. /\ d.pc = "command" /\ d.batch = batch /\ d.native = nat
          /\ d = [op |-> "steps", pc |-> d.pc, batch |-> d.batch, native |-> d.native,
                  origin |-> d.origin]
      BY <3>3
    <3>6. StepsCall(d)
      BY <3>4, <3>5 DEF StepsCall
    <3> QED
      BY <1>0, <2>1, <3>1, <3>6, LedgerTurn
  <2> QED
    BY <2>2, <2>3
<1>2. CASE StepsCommand
  <2>1. call.op = "steps" /\ call.pc = "command" /\ StepsCall(call) /\ sched' = sched
    BY <1>0, <1>2, CallKinds DEF StepsCommand
  <2>2. PICK cmd : cmd = [op |-> "steps", natives |-> {call.native[r] : r \in call.batch}]
    OBVIOUS
  <2>3. PICK result \in Command(adapter, cmd) :
          /\ adapter' = result.adapter
          /\ call' = IF result.answer = "ok"
                     THEN [call EXCEPT !.pc = "verify", !.origin =
                             [r \in call.batch |->
                                Origin(result.adapter.process, call.native[r])]]
                     ELSE NoCall
    BY <1>2, <2>2 DEF StepsCommand
  <2>4. CASE /\ result.answer = "error" /\ AdapterInv(result.adapter)
             /\ ~result.adapter.process.up
    BY <1>0, <2>1, <2>3, <2>4, LedgerDead
  <2>5. CASE result = Answered(adapter, cmd)
    <3>1. PICK s : s = Started(adapter)
      OBVIOUS
    <3>2. AdapterInv(s) /\ Ages(adapter, s) /\ s.process.up /\ s.state = "READY"
      BY <1>0, <3>1, StartedAges
    <3>3. Ledger(s, call, sched)
      BY <3>2, LedgerAges
    <3>4. Native(s.process, cmd).process = s.process
      BY <2>2 DEF Native, NativeSteps
    <3>5. result.adapter = [s EXCEPT !.process = s.process]
      BY <2>5, <3>1, <3>4, AnsweredBy
    <3>6. PICK b : b = result.adapter
      OBVIOUS
    <3>7. AdapterInv(b) /\ b.process = s.process /\ b.active = s.active /\ b.generation = s.generation
      BY <3>2, <3>5, <3>6, WithProcess DEF AdapterInv
    <3>8. Ages(s, b)
      BY <3>7 DEF Ages
    <3>9. Ledger(b, call, sched)
      BY <3>3, <3>7, <3>8, LedgerAges
    <3>10. CASE call' = NoCall
      BY <1>0, <2>1, <2>3, <3>6, <3>9, <3>10, LedgerDrop
    <3>11. CASE call' # NoCall
      <4>1. PICK orig : orig = [r \in call.batch |-> Origin(result.adapter.process, call.native[r])]
        OBVIOUS
      <4>2. PICK d : d = Noting(call, orig)
        OBVIOUS
      <4>3. call' = d
        BY <2>3, <3>11, <4>1, <4>2 DEF Noting
      <4>4. StepsCall(d)
        BY <2>1, <4>2, StepsMoves
      <4> QED
        BY <1>0, <2>1, <2>3, <3>6, <3>9, <4>3, <4>4, LedgerTurn
    <3> QED
      BY <3>10, <3>11
  <2> QED
    BY <1>0, <2>3, <2>4, <2>5, CommandEnds
<1>3. ASSUME NEW r \in Requests, StepsVerify(r) PROVE Ledger(adapter', call', sched')
  <2>1. /\ call.op = "steps" /\ StepsCall(call) /\ sched' = sched /\ r \in call.batch
    BY <1>0, <1>3, CallKinds DEF StepsVerify
  <2>2. \/ adapter' = ProtocolFailure(adapter) /\ call' = NoCall
        \/ adapter' = adapter /\ call' = NoCall
        \/ adapter' = adapter /\ call.batch # {r} /\ call' = [call EXCEPT !.batch = @ \ {r}]
    BY <1>3 DEF StepsVerify
  <2>3. CASE adapter' = ProtocolFailure(adapter) /\ call' = NoCall
    BY <1>0, <2>1, <2>3, ProtocolFails, LedgerDead
  <2>4. CASE adapter' = adapter /\ call' = NoCall
    BY <1>0, <2>1, <2>4, LedgerDrop
  <2>5. CASE adapter' = adapter /\ call.batch # {r} /\ call' = [call EXCEPT !.batch = @ \ {r}]
    <3>1. StepsCall(call')
      BY <2>1, <2>5, StepsShrinks
    <3> QED
      BY <1>0, <2>1, <2>5, <3>1, LedgerTurn
  <2> QED
    BY <2>2, <2>3, <2>4, <2>5
<1> QED
  BY <1>1, <1>2, <1>3

Answering(c, status) == [c EXCEPT !.pc = "verify", !.status = status]

\* The answer of a release is noted in its call.
LEMMA ReleaseAnswered ==
  ASSUME NEW c, ReleaseCall(c), NEW status, NEW d, d = Answering(c, status)
  PROVE  /\ ReleaseCall(d) /\ d.op = "release" /\ d.pc = "verify" /\ d.status = status
         /\ d.request = c.request /\ d.native = c.native
<1>1. PICK r, before, native, none :
        c = [op |-> "release", request |-> r, pc |-> before, native |-> native, status |-> none]
  BY DEF ReleaseCall
<1>2. d = [op |-> "release", request |-> r, pc |-> "verify", native |-> native,
           status |-> status]
  BY <1>1 DEF Answering
<1>3. /\ d.op = "release" /\ d.pc = "verify" /\ d.status = status
      /\ d.request = c.request /\ d.native = c.native
      /\ d = [op |-> "release", request |-> d.request, pc |-> d.pc, native |-> d.native,
              status |-> d.status]
  BY <1>1, <1>2
<1> QED
  BY <1>3 DEF ReleaseCall

\* And kept until the handle is forgotten.
LEMMA ReleaseVerified ==
  ASSUME NEW c, ReleaseCall(c), NEW d, d = [c EXCEPT !.pc = "forget"]
  PROVE  /\ ReleaseCall(d) /\ d.op = "release" /\ d.pc = "forget" /\ d.status = c.status
         /\ d.request = c.request /\ d.native = c.native
<1>1. PICK r, before, native, status :
        c = [op |-> "release", request |-> r, pc |-> before, native |-> native,
             status |-> status]
  BY DEF ReleaseCall
<1>2. d = [op |-> "release", request |-> r, pc |-> "forget", native |-> native,
           status |-> status]
  BY <1>1
<1>3. /\ d.op = "release" /\ d.pc = "forget" /\ d.status = c.status
      /\ d.request = c.request /\ d.native = c.native
      /\ d = [op |-> "release", request |-> d.request, pc |-> d.pc, native |-> d.native,
              status |-> d.status]
  BY <1>1, <1>2
<1> QED
  BY <1>3 DEF ReleaseCall

\* An inactive handle has no sequence that could be lost with it.
LEMMA LedgerCallRelease ==
  ASSUME Ledger(adapter, call, sched), NEW r \in Requests, CallRelease(r)
  PROVE  Ledger(adapter', call', sched')
<1>1. /\ call = NoCall /\ NoCall.op = "none" /\ adapter' = adapter
      /\ AdapterInv(adapter) /\ SchedInv(sched) /\ sched[r].st = "open"
      /\ adapter.process.up => Held(adapter, call, sched)
  BY DEF CallRelease, Ledger, NoCall
<1>2. CASE sched[r].handle \in DOMAIN adapter.active
  <2>1. PICK d, n : d = call' /\ n = adapter.active[sched[r].handle]
    OBVIOUS
  <2>2. /\ sched' = sched
        /\ d = [op |-> "release", request |-> r, pc |-> "command", native |-> n, status |-> "none"]
    BY <1>2, <2>1 DEF CallRelease
  <2>3. n \in Natives
    BY <1>1, <1>2, <2>1 DEF AdapterInv
  <2>4. /\ d.op = "release" /\ d.request = r /\ d.pc = "command" /\ d.native = n
        /\ d = [op |-> "release", request |-> d.request, pc |-> d.pc, native |-> d.native,
                status |-> d.status]
    BY <2>2
  <2>5. ReleaseCall(d) /\ ReleaseInv(adapter, d, sched)
    BY <1>1, <2>1, <2>3, <2>4 DEF ReleaseCall, ReleaseInv
  <2>6. adapter.process.up => Held(adapter, d, sched)
    BY <1>1, <2>4 DEF Held, Registering
  <2>7. Ledger(adapter, d, sched)
    BY <1>1, <2>4, <2>5, <2>6 DEF Ledger, CallInv
  <2> QED
    BY <1>1, <2>1, <2>2, <2>7
<1>3. CASE sched[r].handle \notin DOMAIN adapter.active
  <2>1. PICK sch : sch = Closed(r)
    OBVIOUS
  <2>2. sched' = sch /\ call' = call
    BY <1>3, <2>1 DEF CallRelease
  <2>3. SchedInv(sch) /\ \A q \in Requests \ {r} : sch[q] = sched[q]
    BY <1>1, <2>1, GivingUp
  <2>4. adapter.process.up => Held(adapter, call, sch)
    BY <1>1, <1>3, <2>3 DEF Held, HeldBy, Correlates, Registering
  <2>5. Ledger(adapter, call, sch)
    BY <1>1, <2>3, <2>4 DEF Ledger, CallInv
  <2> QED
    BY <1>1, <2>2, <2>5
<1> QED
  BY <1>2, <1>3

\* Once a release is answered, the sequence is gone.
LEMMA LedgerReleaseCommand ==
  ASSUME Ledger(adapter, call, sched), ReleaseCommand
  PROVE  Ledger(adapter', call', sched')
<1>1. /\ call.op = "release" /\ call.pc = "command" /\ AdapterInv(adapter) /\ SchedInv(sched)
      /\ ReleaseCall(call) /\ call.request \in Requests /\ call.native \in Natives
  BY CallKinds DEF ReleaseCommand, Ledger, ReleaseCall
<1>2. PICK r, cmd : r = call.request /\ cmd = [op |-> "release", native |-> call.native]
  OBVIOUS
<1>3. PICK result \in Command(adapter, cmd) :
        /\ adapter' = result.adapter
        /\ IF result.answer = "error" THEN call' = NoCall /\ sched' = Closed(r)
           ELSE /\ call' = [call EXCEPT !.pc = "verify", !.status = result.answer]
                /\ sched' = sched
  BY <1>2 DEF ReleaseCommand
<1>4. CASE /\ result.answer = "error" /\ AdapterInv(result.adapter)
           /\ ~result.adapter.process.up
  BY <1>1, <1>2, <1>3, <1>4, GivingUp, LedgerDead
<1>5. CASE result = Answered(adapter, cmd)
  <2>1. PICK s : s = Started(adapter)
    OBVIOUS
  <2>2. AdapterInv(s) /\ Ages(adapter, s) /\ s.process.up /\ s.state = "READY"
    BY <1>1, <2>1, StartedAges
  <2>3. Ledger(s, call, sched)
    BY <2>2, LedgerAges
  <2>4. PICK n, native : n = NativeRelease(s.process, native) /\ native = call.native
    OBVIOUS
  <2>5. Native(s.process, cmd) = n
    BY <1>2, <2>4 DEF Native
  <2>6. Frees(s.process, native, n)
    BY <1>1, <2>2, <2>4, NativeReleases DEF AdapterInv
  <2>7. /\ n.answer \in {"released", "already_released", "stale_handle"}
        /\ ProcessInv(n.process) /\ n.process.up /\ ~Occupied(n.process, native)
        /\ \A t \in Slots : SlotOf(n.process, t).lifecycle # "released" =>
                              SlotOf(n.process, t) = SlotOf(s.process, t)
    BY <2>6 DEF Frees
  <2>8. PICK b : b = result.adapter
    OBVIOUS
  <2>9. b = [s EXCEPT !.process = n.process] /\ result.answer = n.answer
    BY <1>5, <2>1, <2>5, <2>8, AnsweredBy
  <2>10. AdapterInv(b) /\ b.process = n.process /\ b.active = s.active
    BY <2>2, <2>7, <2>9, WithProcess
  <2>11. PICK ans, d : ans = n.answer /\ d = [call EXCEPT !.pc = "verify", !.status = ans]
    OBVIOUS
  <2>12. adapter' = b /\ call' = d /\ sched' = sched
    BY <1>3, <2>7, <2>8, <2>9, <2>11
  <2>13. /\ ReleaseCall(d) /\ d.op = "release" /\ d.pc = "verify" /\ d.status = ans
         /\ d.request = r /\ d.native = native
    <3>1. d = Answering(call, ans) /\ ReleaseCall(call)
      BY <1>1, <2>11 DEF Answering
    <3>2. /\ ReleaseCall(d) /\ d.op = "release" /\ d.pc = "verify" /\ d.status = ans
          /\ d.request = call.request /\ d.native = call.native
      BY <3>1, ReleaseAnswered
    <3> QED
      BY <1>2, <2>4, <3>2
  <2>14. ReleaseInv(s, call, sched) /\ Held(s, call, sched)
    BY <1>1, <2>2, <2>3 DEF Ledger
  <2>15. ReleaseInv(b, d, sched)
    BY <1>2, <2>4, <2>7, <2>10, <2>11, <2>13, <2>14 DEF ReleaseInv
  <2>16. Held(b, d, sched)
    BY <1>1, <2>7, <2>10, <2>14 DEF Held, HeldBy, Correlates, Registering
  <2>17. Ledger(b, d, sched)
    BY <1>1, <2>10, <2>13, <2>15, <2>16 DEF Ledger, CallInv
  <2> QED
    BY <2>12, <2>17
<1> QED
  BY <1>1, <1>3, <1>4, <1>5, CommandEnds

\* The release goes on if the handle still stands for the same sequence.
LEMMA LedgerReleaseVerify ==
  ASSUME Ledger(adapter, call, sched), ReleaseVerify
  PROVE  Ledger(adapter', call', sched')
<1>1. /\ call.op = "release" /\ call.pc = "verify" /\ AdapterInv(adapter) /\ SchedInv(sched)
      /\ ReleaseCall(call) /\ call.request \in Requests /\ ReleaseInv(adapter, call, sched)
  BY CallKinds DEF ReleaseVerify, Ledger, ReleaseCall
<1>2. \/ adapter' = adapter /\ sched' = sched /\ call' = [call EXCEPT !.pc = "forget"]
      \/ adapter' = ProtocolFailure(adapter) /\ call' = NoCall /\ sched' = Closed(call.request)
  BY DEF ReleaseVerify
<1>3. CASE adapter' = adapter /\ sched' = sched /\ call' = [call EXCEPT !.pc = "forget"]
  <2>1. PICK d : d = [call EXCEPT !.pc = "forget"]
    OBVIOUS
  <2>2. /\ ReleaseCall(d) /\ d.op = "release" /\ d.pc = "forget" /\ d.status = call.status
        /\ d.request = call.request /\ d.native = call.native
    BY <1>1, <2>1, ReleaseVerified
  <2>3. ReleaseInv(adapter, d, sched)
    BY <1>1, <2>2 DEF ReleaseInv
  <2>4. adapter.process.up => Held(adapter, d, sched)
    BY <1>1 DEF Ledger, Held, Registering
  <2>5. Ledger(adapter, d, sched)
    BY <1>1, <2>2, <2>3, <2>4 DEF Ledger, CallInv
  <2> QED
    BY <1>3, <2>1, <2>5
<1>4. CASE adapter' = ProtocolFailure(adapter) /\ call' = NoCall /\ sched' = Closed(call.request)
  BY <1>1, <1>4, GivingUp, ProtocolFails, LedgerDead
<1> QED
  BY <1>2, <1>3, <1>4

\* What is forgotten is the handle of a sequence that is gone.
LEMMA LedgerReleaseForget ==
  ASSUME Ledger(adapter, call, sched), ReleaseForget
  PROVE  Ledger(adapter', call', sched')
<1>1. /\ call.op = "release" /\ call.pc = "forget" /\ AdapterInv(adapter) /\ SchedInv(sched)
      /\ ReleaseCall(call) /\ call.request \in Requests /\ ReleaseInv(adapter, call, sched)
      /\ NoCall.op = "none"
  BY CallKinds DEF ReleaseForget, Ledger, ReleaseCall, NoCall
<1>2. PICK r, h : r = call.request /\ h = sched[r].handle
  OBVIOUS
<1>3. PICK act, rel, b :
        /\ act = [k \in DOMAIN adapter.active \ {h} |-> adapter.active[k]]
        /\ b = [adapter EXCEPT !.active = act, !.released = rel] /\ adapter' = b
  BY <1>1, <1>2 DEF ReleaseForget, ReleaseInv
<1>4. PICK sch : sch = Closed(r)
  OBVIOUS
<1>5. call' = NoCall /\ sched' = sch
  BY <1>2, <1>4 DEF ReleaseForget
<1>6. SchedInv(sch) /\ \A q \in Requests \ {r} : sch[q] = sched[q]
  BY <1>1, <1>2, <1>4, GivingUp
<1>7. PICK p, st, g, old, before :
        adapter = [process |-> p, state |-> st, generation |-> g, active |-> old,
                   released |-> before]
  BY <1>1 DEF AdapterInv
<1>8. b = [process |-> p, state |-> st, generation |-> g, active |-> act, released |-> rel]
  BY <1>3, <1>7
<1>9. /\ b.process = adapter.process /\ b.state = adapter.state /\ b.active = act
      /\ b.generation = adapter.generation
      /\ b = [process |-> b.process, state |-> b.state, generation |-> b.generation,
              active |-> b.active, released |-> b.released]
  BY <1>7, <1>8
<1>10. /\ DOMAIN act = DOMAIN adapter.active \ {h}
       /\ \A k \in DOMAIN act : act[k] = adapter.active[k]
       /\ \A n : Public(b, n) = Public(adapter, n)
  BY <1>3, <1>9 DEF Public
<1>11. AdapterInv(b)
  BY <1>1, <1>9, <1>10 DEF AdapterInv
<1>12. ASSUME adapter.process.up PROVE Held(b, NoCall, sch)
  <2> SUFFICES ASSUME NEW t \in Slots, SlotOf(adapter.process, t).lifecycle # "released"
               PROVE  LET slot == SlotOf(adapter.process, t)
                      IN  /\ slot.key \in Requests
                          /\ HeldBy(b, sch, slot, <<t, slot.generation>>)
    BY <1>9 DEF Held
  <2>1. PICK slot, n : slot = SlotOf(adapter.process, t) /\ n = <<t, slot.generation>>
    OBVIOUS
  <2>2. slot.key \in Requests /\ HeldBy(adapter, sched, slot, n)
    BY <1>1, <1>12, <2>1 DEF Ledger, Held, Registering
  <2>3. Occupied(adapter.process, n)
    BY <2>1 DEF Occupied, SlotOf
  <2>4. sched[slot.key].handle # h
    BY <1>1, <1>2, <1>12, <2>2, <2>3 DEF HeldBy, Correlates, ReleaseInv
  <2>5. slot.key # r
    BY <1>2, <2>4
  <2> QED
    BY <1>6, <1>9, <1>10, <2>1, <2>2, <2>4, <2>5, ZenonT(60) DEF HeldBy, Correlates
<1>13. Ledger(b, NoCall, sch)
  BY <1>1, <1>6, <1>9, <1>11, <1>12 DEF Ledger, CallInv
<1> QED
  BY <1>3, <1>5, <1>13

\* The cache commands touch no slot.
LEMMA CacheAnswers ==
  ASSUME NEW a, AdapterInv(a)
  PROVE  LET b == Answered(a, [op |-> "cache"]).adapter
         IN  AdapterInv(b) /\ Ages(a, b)
<1>1. PICK s, cmd : s = Started(a) /\ cmd = [op |-> "cache"]
  OBVIOUS
<1>2. AdapterInv(s) /\ Ages(a, s) /\ s.process.up /\ s.state = "READY"
  BY <1>1, StartedAges
<1>3. Native(s.process, cmd).process = s.process
  BY <1>1 DEF Native
<1>4. PICK b : b = Answered(a, cmd).adapter
  OBVIOUS
<1>5. b = [s EXCEPT !.process = s.process]
  BY <1>1, <1>3, <1>4, AnsweredBy
<1>6. AdapterInv(b) /\ b.process = s.process /\ b.active = s.active /\ b.generation = s.generation
  BY <1>2, <1>5, WithProcess DEF AdapterInv
<1>7. Ages(a, b)
  BY <1>2, <1>6 DEF Ages
<1> QED
  BY <1>1, <1>4, <1>6, <1>7

\* A process that dies keeps its memory until it is dropped.
LEMMA WithoutLife ==
  ASSUME NEW up, NEW engine, NEW down
  PROVE  [[up |-> up, engine |-> engine] EXCEPT !.up = down] = [up |-> down, engine |-> engine]
OBVIOUS

\* supervisor_state, shutdown() and the death of the process end it or leave
\* it as it is.
LEMMA ProcessEnds ==
  ASSUME AdapterInv(adapter), SupervisorState \/ Shutdown \/ ProcessDies
  PROVE  AdapterInv(adapter') /\ Ages(adapter, adapter')
<1>1. PICK p, st, g, act, rel :
        /\ adapter = [process |-> p, state |-> st, generation |-> g, active |-> act,
                      released |-> rel]
  BY DEF AdapterInv
<1>2. PICK b : b = adapter'
  OBVIOUS
<1>3. CASE Shutdown
  <2>1. PICK z \in {"STOPPED", "DEGRADED"} :
          b = [adapter EXCEPT !.process = NoProcess, !.state = z,
                              !.active = << >>, !.released = <<>>]
    BY <1>2, <1>3 DEF Shutdown
  <2>2. b = [process |-> NoProcess, state |-> z, generation |-> g,
             active |-> << >>, released |-> <<>>]
    BY <1>1, <2>1
  <2>3. g \in Nat /\ adapter.generation = g
    BY <1>1 DEF AdapterInv
  <2>4. AdapterInv(b)
    BY <2>2, <2>3, NewProcessInv, EmptyAdapter
  <2>5. b.process = NoProcess /\ b.generation = g /\ DOMAIN b.active = {}
    BY <2>2
  <2> QED
    BY <1>2, <2>3, <2>4, <2>5, NewProcessInv DEF Ages, NoHandles
<1>4. CASE SupervisorState
  <2>1. b = [adapter EXCEPT !.state = "DEGRADED"] /\ ~adapter.process.up
    BY <1>2, <1>4 DEF SupervisorState
  <2>2. b = [process |-> p, state |-> "DEGRADED", generation |-> g, active |-> act,
             released |-> rel]
    BY <1>1, <2>1
  <2>3. /\ b.process = adapter.process /\ b.active = adapter.active
        /\ b.generation = adapter.generation
        /\ b = [process |-> b.process, state |-> b.state, generation |-> b.generation,
                active |-> b.active, released |-> b.released]
    BY <1>1, <2>2
  <2>4. AdapterInv(b)
    BY <2>1, <2>3 DEF AdapterInv, Public
  <2> QED
    BY <1>2, <2>3, <2>4 DEF Ages
<1>5. CASE ProcessDies
  <2>1. PICK q : q = [adapter.process EXCEPT !.up = FALSE]
    OBVIOUS
  <2>2. adapter.process.up /\ b = [adapter EXCEPT !.process.up = FALSE]
    BY <1>2, <1>5 DEF ProcessDies
  <2>3. b = [adapter EXCEPT !.process = q]
    BY <1>1, <2>1, <2>2
  <2>4. ProcessInv(q) /\ ~q.up
    <3>1. PICK up, engine : /\ adapter.process = [up |-> up, engine |-> engine]
                            /\ EngineInv(engine)
      BY <2>2, NewProcessInv DEF AdapterInv, ProcessInv
    <3>2. q = [up |-> FALSE, engine |-> engine]
      <4>1. q = [[up |-> up, engine |-> engine] EXCEPT !.up = FALSE]
        BY <2>1, <3>1
      <4> QED
        BY <4>1, WithoutLife
    <3>3. q.up = FALSE /\ q.engine = engine /\ q = [up |-> q.up, engine |-> q.engine]
      BY <3>2
    <3> QED
      BY <3>1, <3>3 DEF ProcessInv
  <2>5. AdapterInv(b) /\ b.process = q /\ b.active = adapter.active
        /\ b.generation = adapter.generation
    BY <2>3, <2>4, WithProcess
  <2> QED
    BY <1>2, <2>4, <2>5 DEF Ages
<1> QED
  BY <1>3, <1>4, <1>5

\* The cache commands, the end of the process and a refused answer leave
\* nothing that nobody holds.
LEMMA LedgerOthers ==
  ASSUME Ledger(adapter, call, sched),
         AnswerRefused \/ CacheCommand \/ SupervisorState \/ Shutdown \/ ProcessDies
  PROVE  Ledger(adapter', call', sched')
<1>0. AdapterInv(adapter) /\ SchedInv(sched) /\ CallInv(call)
  BY DEF Ledger
<1>1. CASE AnswerRefused
  <2>1. adapter' = ProtocolFailure(adapter) /\ call' = NoCall
    BY <1>1 DEF AnswerRefused
  <2>2. \/ call.op = "open" /\ sched' = Lost(call.request)
        \/ call.op = "release" /\ sched' = Closed(call.request)
        \/ sched' = sched
    BY <1>1 DEF AnswerRefused
  <2>3. call.op \in {"open", "release"} => call.request \in Requests
    BY <1>0, CallKinds DEF OpenCall, ReleaseCall
  <2>4. SchedInv(sched')
    BY <1>0, <2>2, <2>3, GivingUp
  <2> QED
    BY <1>0, <2>1, <2>4, ProtocolFails, LedgerDead
<1>2. CASE CacheCommand
  <2>1. PICK cmd : cmd = [op |-> "cache"]
    OBVIOUS
  <2>2. PICK result \in Command(adapter, cmd) : adapter' = result.adapter
    BY <1>2, <2>1 DEF CacheCommand
  <2>3. call' = call /\ sched' = sched
    BY <1>2 DEF CacheCommand
  <2>4. AdapterInv(result.adapter) /\ Ages(adapter, result.adapter)
    <3>1. CASE result = Answered(adapter, cmd)
      BY <1>0, <2>1, <3>1, CacheAnswers
    <3> QED
      BY <1>0, <3>1, CommandEnds
  <2> QED
    BY <2>2, <2>3, <2>4, LedgerAges
<1>3. CASE SupervisorState \/ Shutdown \/ ProcessDies
  <2>1. call' = call /\ sched' = sched
    BY <1>3 DEF SupervisorState, Shutdown, ProcessDies
  <2>2. AdapterInv(adapter') /\ Ages(adapter, adapter')
    BY <1>0, <1>3, ProcessEnds
  <2> QED
    BY <2>1, <2>2, LedgerAges
<1> QED
  BY <1>1, <1>2, <1>3

LedgerInv == Ledger(adapter, call, sched)

\* In the initial state there is no process.
LEMMA LedgerInit == Init => LedgerInv
<1> SUFFICES ASSUME Init PROVE LedgerInv
  OBVIOUS
<1>1. /\ adapter = [process |-> NoProcess, state |-> "STOPPED", generation |-> 0,
                    active |-> << >>, released |-> <<>>]
      /\ call = NoCall /\ sched = [r \in Requests |-> [st |-> "new", handle |-> NoNative]]
  BY DEF Init
<1>2. AdapterInv(adapter)
  BY <1>1, NewProcessInv, EmptyAdapter
<1>3. adapter.process = NoProcess
  BY <1>1
<1>4. NoNative \in Natives
  BY EngineAssumption DEF NoNative, Natives, Slots
<1>5. SchedInv(sched)
  BY <1>1, <1>4 DEF SchedInv
<1> QED
  BY <1>1, <1>2, <1>3, <1>5, NewProcessInv, LedgerDead DEF LedgerInv

\* Every step keeps the ledger.
LEMMA LedgerStep == LedgerInv /\ [Next]_vars => LedgerInv'
<1> SUFFICES ASSUME Ledger(adapter, call, sched), [Next]_vars
             PROVE  Ledger(adapter', call', sched')
  BY DEF LedgerInv
<1>1. CASE \E r \in Requests : CallOpen(r)
  BY <1>1, LedgerCallOpen
<1>2. CASE \E r \in Requests : CallRelease(r)
  BY <1>2, LedgerCallRelease
<1>3. CASE OpenCommand
  BY <1>3, LedgerOpenCommand
<1>4. CASE OpenRegister
  BY <1>4, LedgerOpenRegister
<1>5. CASE \/ \E batch \in (SUBSET Requests) \ {{}} : CallSteps(batch)
           \/ StepsCommand
           \/ \E r \in Requests : StepsVerify(r)
  BY <1>5, LedgerSteps
<1>6. CASE ReleaseCommand
  BY <1>6, LedgerReleaseCommand
<1>7. CASE ReleaseVerify
  BY <1>7, LedgerReleaseVerify
<1>8. CASE ReleaseForget
  BY <1>8, LedgerReleaseForget
<1>9. CASE AnswerRefused \/ CacheCommand \/ SupervisorState \/ Shutdown \/ ProcessDies
  BY <1>9, LedgerOthers
<1>10. CASE UNCHANGED vars
  BY <1>10 DEF vars
<1> QED
  BY <1>1, <1>2, <1>3, <1>4, <1>5, <1>6, <1>7, <1>8, <1>9, <1>10 DEF Next

\* Whatever is started, killed or lost between two steps of a call: between
\* calls, a sequence of the running process belongs to a request that holds
\* its handle, so that the scheduler's release reaches it (_command,
\* _fail_process_locked, open_sequence, release).
THEOREM NoSequenceLeaks == Spec => []NoLeakedSequence
<1>1. LedgerInv => NoLeakedSequence
  <2> SUFFICES ASSUME Ledger(adapter, call, sched), call = NoCall, adapter.process.up,
                      NEW s \in Slots, SlotOf(adapter.process, s).lifecycle # "released"
               PROVE  LET slot == SlotOf(adapter.process, s)
                      IN  \E r \in Requests :
                            /\ sched[r].st = "open" /\ slot.key = r
                            /\ Correlates(adapter, sched[r].handle, <<s, slot.generation>>)
    BY DEF LedgerInv, NoLeakedSequence, SlotOf
  <2>1. NoCall.op = "none"
    BY DEF NoCall
  <2> QED
    BY <2>1 DEF Ledger, Held, HeldBy, Registering
<1> QED
  BY <1>1, LedgerInit, LedgerStep, PTL DEF Spec

-----------------------------------------------------------------------------
(***************************************************************************)
(* Whose outcome it is.  A public handle carries the generation of the     *)
(* process in its high bits, so that no handle of an earlier process is    *)
(* equal to one of the present process as long as the native generations   *)
(* stay in the low bits: that is assumed of the behaviour, YoungSlots.     *)
(***************************************************************************)

\* No slot of the running process has been used 2^32 times.
YoungSlots ==
  adapter.process.up =>
    \A s \in Slots : SlotOf(adapter.process, s).generation < HandleShift

\* The public generations of process generation g start here.
Base(g) == g * HandleShift

\* A handle that is not active any more is an earlier process's.
HandleInv(a, sch) ==
  \A r \in Requests : sch[r].st = "open" =>
    /\ sch[r].handle[2] < Base(a.generation + 1)
    /\ a.process.up /\ sch[r].handle \notin DOMAIN a.active =>
         sch[r].handle[2] < Base(a.generation)

\* No two requests share a handle of the running process.
DistinctHandles(a, sch) ==
  \A r, q \in Requests :
    (sch[r].st = "open" /\ sch[q].st = "open" /\ sch[r].handle = sch[q].handle
       /\ sch[r].handle \in DOMAIN a.active) => r = q

\* What a batch asks of the process, and what it was answered, is each
\* request's own.
BatchInv(a, c) ==
  /\ c.pc = "command" /\ a.process.up =>
       \A r \in c.batch : Occupied(a.process, c.native[r]) =>
                            SlotOf(a.process, c.native[r][1]).key = r
  /\ c.pc = "verify" => \A r \in c.batch : c.origin[r] = r

Own(a, c, sch) ==
  /\ HandleInv(a, sch)
  /\ a.process.up => DistinctHandles(a, sch)
  /\ c.op = "open" /\ c.pc = "register" => c.native[2] < HandleShift
  /\ c.op = "steps" => BatchInv(a, c)

\* The ranges of the generations follow each other.
LEMMA BaseGrows ==
  /\ \A g \in Nat : Base(g) \in Nat /\ Base(g + 1) = Base(g) + HandleShift
  /\ \A g, h \in Nat : g < h => Base(g + 1) <= Base(h)
  /\ \A g, h \in Nat : g <= h => Base(g) <= Base(h)
<1>1. PICK k : k = HandleShift /\ k \in Nat
  BY AdapterAssumption
<1>2. ASSUME NEW g \in Nat PROVE g * k \in Nat /\ (g + 1) * k = g * k + k
  BY <1>1
<1>3. ASSUME NEW g \in Nat, NEW h \in Nat, g <= h PROVE g * k <= h * k
  <2>1. PICK d \in Nat : h = g + d
    <3>1. h - g \in Nat /\ h = g + (h - g)
      BY <1>3
    <3> QED
      BY <3>1
  <2>2. h * k = g * k + d * k /\ g * k \in Nat /\ d * k \in Nat /\ h * k \in Nat
    BY <1>1, <2>1
  <2> QED
    BY <2>2
<1>4. \A g, h \in Nat : g < h => g + 1 \in Nat /\ g + 1 <= h
  OBVIOUS
<1> QED
  BY <1>1, <1>2, <1>3, <1>4 DEF Base

\* A public handle lies in the range of its process's generation.
LEMMA PublicRange ==
  ASSUME NEW a, a.generation \in Nat, NEW n \in Natives, n[2] < HandleShift
  PROVE  /\ Base(a.generation) <= Public(a, n)[2]
         /\ Public(a, n)[2] < Base(a.generation + 1)
<1>1. Public(a, n)[2] = Base(a.generation) + n[2]
  BY DEF Public, Base
<1>2. Base(a.generation) \in Nat /\ Base(a.generation + 1) = Base(a.generation) + HandleShift
  BY BaseGrows
<1>3. n[2] \in Nat /\ HandleShift \in Nat
  BY AdapterAssumption DEF Natives
<1> QED
  BY <1>1, <1>2, <1>3

\* A native handle is found in its public one.
LEMMA PublicInjective ==
  ASSUME NEW a, a.generation \in Nat, NEW m \in Natives, NEW n \in Natives,
         Public(a, m) = Public(a, n)
  PROVE  m = n
<1>1. PICK k \in Nat : k = a.generation * HandleShift
  BY AdapterAssumption
<1>2. m[1] = n[1] /\ k + m[2] = k + n[2]
  BY <1>1 DEF Public
<1>3. /\ m[2] \in Nat /\ n[2] \in Nat /\ m = <<m[1], m[2]>> /\ n = <<n[1], n[2]>>
  BY DEF Natives
<1>4. m[2] = n[2]
  BY <1>2, <1>3
<1> QED
  BY <1>2, <1>3, <1>4

\* A call that asks for nothing in particular, or only for a release.
LEMMA OwnSame ==
  ASSUME NEW a, NEW c, NEW sch, Own(a, c, sch), NEW b, NEW d, d.op \notin {"open", "steps"},
         b.active = a.active, b.generation = a.generation, b.process.up => a.process.up
  PROVE  Own(b, d, sch)
BY DEF Own, HandleInv, DistinctHandles

\* A request that is done has no handle.
LEMMA OwnFewer ==
  ASSUME NEW a, NEW c, NEW sch, Own(a, c, sch), NEW fewer,
         \A r \in Requests : fewer[r].st = "open" => fewer[r] = sch[r]
  PROVE  Own(a, c, fewer)
BY DEF Own, HandleInv, DistinctHandles

\* A new process has only earlier processes' handles, and no sequences.
LEMMA OwnAges ==
  ASSUME NEW a, NEW c, NEW sch, Own(a, c, sch), Ledger(a, c, sch),
         NEW b, AdapterInv(b), Ages(a, b)
  PROVE  Own(b, c, sch)
<1>1. CASE /\ b.active = a.active /\ b.generation = a.generation
           /\ b.process.up => b.process = a.process
  BY <1>1 DEF Own, HandleInv, DistinctHandles, BatchInv
<1>2. CASE /\ NoHandles(b.active) /\ b.generation >= a.generation
           /\ \/ ~b.process.up
              \/ b.generation > a.generation /\ b.process = NewProcess
  <2>0. a.generation \in Nat /\ b.generation \in Nat /\ SchedInv(sch)
    BY DEF AdapterInv, Ledger
  <2>1. /\ Base(a.generation + 1) \in Nat /\ Base(b.generation) \in Nat
        /\ Base(b.generation + 1) \in Nat
        /\ Base(a.generation + 1) <= Base(b.generation + 1)
        /\ b.process.up => Base(a.generation + 1) <= Base(b.generation)
    <3>1. a.generation + 1 \in Nat /\ b.generation + 1 \in Nat
          /\ a.generation + 1 <= b.generation + 1
      BY <1>2, <2>0
    <3>2. b.process.up => a.generation < b.generation
      BY <1>2, <2>0
    <3> QED
      BY <2>0, <3>1, <3>2, BaseGrows
  <2>2. \A r \in Requests : sch[r].handle[2] \in Nat
    BY <2>0 DEF SchedInv, Natives
  <2>3. HandleInv(b, sch)
    <3> SUFFICES ASSUME NEW r \in Requests, sch[r].st = "open"
                 PROVE  /\ sch[r].handle[2] < Base(b.generation + 1)
                        /\ b.process.up => sch[r].handle[2] < Base(b.generation)
      BY DEF HandleInv
    <3>1. sch[r].handle[2] < Base(a.generation + 1)
      BY DEF Own, HandleInv
    <3> QED
      BY <2>1, <2>2, <3>1
  <2>4. DistinctHandles(b, sch)
    BY <1>2 DEF DistinctHandles, NoHandles
  <2>5. ASSUME c.op = "steps" PROVE BatchInv(b, c)
    <3>1. \A r \in c.batch : c.native[r] \in Natives
      BY <2>5, CallKinds DEF Ledger, StepsCall
    <3>2. b.process.up => \A s \in Slots : SlotOf(b.process, s).lifecycle = "released"
      BY <1>2, NewProcessInv
    <3>3. b.process.up => \A r \in c.batch : ~Occupied(b.process, c.native[r])
      BY <3>1, <3>2 DEF Natives, Occupied, SlotOf
    <3> QED
      BY <2>5, <3>3 DEF Own, BatchInv
  <2> QED
    BY <2>3, <2>4, <2>5 DEF Own
<1>3. a.generation \in Nat
  BY DEF Ledger, AdapterInv
<1> QED
  BY <1>1, <1>2, <1>3 DEF Ages

\* When there is no process left, what the request had is out of the way.
LEMMA OwnGivesUp ==
  ASSUME Own(adapter, call, sched), Ledger(adapter, call, sched),
         NEW b, AdapterInv(b), Ages(adapter, b),
         NEW sch, \A r \in Requests : sch[r].st = "open" => sch[r] = sched[r]
  PROVE  Own(b, NoCall, sch)
<1>1. Own(b, call, sched)
  BY OwnAges
<1>2. NoCall.op = "none"
  BY DEF NoCall
<1>3. Own(b, NoCall, sched)
  BY <1>1, <1>2, OwnSame
<1> QED
  BY <1>3, OwnFewer

\* open_sequence's command makes a sequence whose generation fits.
LEMMA OwnOpenCommand ==
  ASSUME Own(adapter, call, sched), Ledger(adapter, call, sched), YoungSlots', OpenCommand
  PROVE  Own(adapter', call', sched')
<1>1. /\ call.op = "open" /\ call.pc = "command" /\ AdapterInv(adapter) /\ SchedInv(sched)
      /\ OpenCall(call) /\ call.request \in Requests
  BY CallKinds DEF OpenCommand, Ledger, OpenCall
<1>2. PICK r, cmd : r = call.request /\ cmd = [op |-> "open", request |-> r]
  OBVIOUS
<1>3. PICK result \in Command(adapter, cmd) :
        /\ adapter' = result.adapter
        /\ IF result.answer = "opened"
           THEN /\ call' = [call EXCEPT !.pc = "register", !.native = result.handle]
                /\ sched' = sched
           ELSE call' = NoCall /\ sched' = Lost(r)
  BY <1>2 DEF OpenCommand
<1>4. PICK sch : sch = Lost(r)
  OBVIOUS
<1>5. \A q \in Requests : sch[q].st = "open" => sch[q] = sched[q]
  BY <1>1, <1>2, <1>4, GivingUp
<1>6. CASE /\ result.answer = "error" /\ AdapterInv(result.adapter)
           /\ Ages(adapter, result.adapter)
  BY <1>3, <1>4, <1>5, <1>6, OwnGivesUp
<1>7. CASE result = Answered(adapter, cmd)
  <2>1. PICK s : s = Started(adapter)
    OBVIOUS
  <2>2. AdapterInv(s) /\ Ages(adapter, s) /\ s.process.up /\ s.state = "READY"
    BY <1>1, <2>1, StartedAges
  <2>3. Own(s, call, sched)
    BY <2>2, OwnAges
  <2>4. PICK n : n = NativeOpen(s.process, r)
    OBVIOUS
  <2>5. Native(s.process, cmd) = n
    BY <1>2, <2>4 DEF Native
  <2>6. PICK b : b = [s EXCEPT !.process = n.process]
    OBVIOUS
  <2>7. result.adapter = b /\ result.answer = n.answer /\ result.handle = n.handle
    BY <1>7, <2>1, <2>5, <2>6, AnsweredBy
  <2>8. CASE n.answer = "opened" /\ Opens(s.process, r, n)
    <3>1. /\ ProcessInv(n.process) /\ n.process.up /\ n.handle \in Natives
          /\ SlotOf(n.process, n.handle[1]).generation = n.handle[2]
      BY <2>8 DEF Opens
    <3>2. b.process = n.process /\ b.active = s.active /\ b.generation = s.generation
      BY <2>2, <2>6, <3>1, WithProcess
    <3>3. PICK c : c = call'
      OBVIOUS
    <3>4. c = [call EXCEPT !.pc = "register", !.native = n.handle] /\ sched' = sched
      BY <1>3, <2>7, <2>8, <3>3
    <3>5. c.op = "open" /\ c.native = n.handle
      <4>1. PICK h : h = n.handle
        OBVIOUS
      <4>2. PICK pc, native : call = [op |-> "open", request |-> r, pc |-> pc, native |-> native]
        BY <1>1, <1>2 DEF OpenCall
      <4>3. c = [call EXCEPT !.pc = "register", !.native = h]
        BY <3>4, <4>1
      <4> QED
        BY <4>1, <4>2, <4>3
    <3>6. adapter'.process = n.process
      BY <1>3, <2>7, <3>2
    <3>7. n.handle[1] \in Slots
      BY <3>1 DEF Natives
    <3>8. n.handle[2] < HandleShift
      BY <3>1, <3>6, <3>7 DEF YoungSlots
    <3>9. HandleInv(b, sched) /\ DistinctHandles(b, sched)
      BY <2>2, <2>3, <3>1, <3>2 DEF Own, HandleInv, DistinctHandles
    <3>10. Own(b, c, sched)
      BY <3>5, <3>8, <3>9 DEF Own
    <3> QED
      BY <1>3, <2>7, <3>3, <3>4, <3>10
  <2>9. CASE n.answer = "error" /\ n.process = s.process
    <3>1. AdapterInv(b) /\ b.process = s.process /\ b.active = s.active
          /\ b.generation = s.generation
      BY <2>2, <2>6, <2>9, WithProcess DEF AdapterInv
    <3>2. NoCall.op = "none"
      BY DEF NoCall
    <3>3. Own(b, NoCall, sched)
      BY <2>3, <3>1, <3>2, OwnSame
    <3>4. Own(b, NoCall, sch)
      BY <1>5, <3>3, OwnFewer
    <3> QED
      BY <1>3, <1>4, <2>7, <2>9, <3>4
  <2> QED
    BY <1>1, <1>2, <2>2, <2>4, <2>8, <2>9, NativeOpens DEF AdapterInv
<1> QED
  BY <1>1, <1>3, <1>6, <1>7, CommandEnds

\* No request has the handle that is registered: an active one is refused,
\* and one that is not active any more is an earlier process's.
LEMMA OwnOpenRegister ==
  ASSUME Own(adapter, call, sched), Ledger(adapter, call, sched), OpenRegister
  PROVE  Own(adapter', call', sched')
<1>1. /\ call.op = "open" /\ call.pc = "register" /\ AdapterInv(adapter) /\ SchedInv(sched)
      /\ OpenCall(call) /\ call.request \in Requests
      /\ call.native \in Natives /\ call.native[2] < HandleShift /\ NoCall.op = "none"
  BY CallKinds DEF OpenRegister, Ledger, OpenCall, Own, NoCall
<1>2. PICK r, p : r = call.request /\ p = Public(adapter, call.native)
  OBVIOUS
<1>3. call' = NoCall
  BY DEF OpenRegister
<1>4. CASE InUse(adapter, p)
  <2>1. adapter' = ProtocolFailure(adapter) /\ sched' = Lost(r)
    BY <1>2, <1>4 DEF OpenRegister
  <2>2. PICK sch : sch = Lost(r)
    OBVIOUS
  <2>3. \A q \in Requests : sch[q].st = "open" => sch[q] = sched[q]
    BY <1>1, <1>2, <2>2, GivingUp
  <2> QED
    BY <1>1, <1>3, <2>1, <2>2, <2>3, ProtocolFails, OwnGivesUp
<1>5. CASE ~InUse(adapter, p)
  <2>1. PICK act, b : /\ act = [k \in DOMAIN adapter.active \cup {p} |->
                                  IF k = p THEN call.native ELSE adapter.active[k]]
                      /\ b = [adapter EXCEPT !.active = act] /\ adapter' = b
    BY <1>2, <1>5 DEF OpenRegister
  <2>2. PICK sch : sch = [sched EXCEPT ![r] = [st |-> "open", handle |-> p]] /\ sched' = sch
    BY <1>2, <1>5 DEF OpenRegister
  <2>3. PICK q, st, g, old, rel :
          adapter = [process |-> q, state |-> st, generation |-> g, active |-> old,
                     released |-> rel]
    BY <1>1 DEF AdapterInv
  <2>4. b = [process |-> q, state |-> st, generation |-> g, active |-> act, released |-> rel]
    BY <2>1, <2>3
  <2>5. b.process = adapter.process /\ b.active = act /\ b.generation = adapter.generation
    BY <2>3, <2>4
  <2>6. DOMAIN act = DOMAIN adapter.active \cup {p} /\ p \notin DOMAIN adapter.active
    BY <1>5, <2>1 DEF InUse
  <2>7. /\ sch[r].handle = p /\ \A x \in Requests \ {r} : sch[x] = sched[x]
    BY <1>1, <1>2, <2>2 DEF SchedInv
  <2>8. /\ Base(adapter.generation) <= p[2] /\ p[2] < Base(adapter.generation + 1)
        /\ Base(adapter.generation) \in Nat /\ p[2] \in Nat
    <3>1. adapter.generation \in Nat
      BY <1>1 DEF AdapterInv
    <3>2. p[2] \in Nat
      BY <1>1, <1>2, <3>1, AdapterAssumption DEF Public, Natives
    <3> QED
      BY <1>1, <1>2, <3>1, <3>2, PublicRange, BaseGrows
  <2>9. HandleInv(b, sch)
    <3> SUFFICES ASSUME NEW x \in Requests, sch[x].st = "open"
                 PROVE  /\ sch[x].handle[2] < Base(adapter.generation + 1)
                        /\ b.process.up /\ sch[x].handle \notin DOMAIN act =>
                             sch[x].handle[2] < Base(adapter.generation)
      BY <2>5 DEF HandleInv
    <3>1. CASE x = r
      BY <2>6, <2>7, <2>8, <3>1
    <3>2. CASE x # r
      BY <2>5, <2>6, <2>7, <3>2 DEF Own, HandleInv
    <3> QED
      BY <3>1, <3>2
  <2>10. ASSUME b.process.up, NEW x \in Requests \ {r}, sch[x].st = "open"
         PROVE  sch[x].handle # p
    <3>1. sch[x] = sched[x]
      BY <2>7
    <3>2. p \notin DOMAIN adapter.active /\ adapter.process.up
      BY <2>5, <2>6, <2>10
    <3>3. CASE sched[x].handle = p
      <4>1. p[2] < Base(adapter.generation)
        BY <2>10, <3>1, <3>2, <3>3 DEF Own, HandleInv
      <4> QED
        BY <2>8, <4>1
    <3> QED
      BY <3>1, <3>3
  <2>11. ASSUME b.process.up PROVE DistinctHandles(b, sch)
    <3> SUFFICES ASSUME NEW x \in Requests, NEW y \in Requests,
                        sch[x].st = "open", sch[y].st = "open",
                        sch[x].handle = sch[y].handle, sch[x].handle \in DOMAIN act
                 PROVE  x = y
      BY <2>5 DEF DistinctHandles
    <3>1. CASE x = r \/ y = r
      BY <2>7, <2>10, <2>11, <3>1
    <3>2. CASE x # r /\ y # r
      BY <2>5, <2>6, <2>7, <2>10, <2>11, <3>2 DEF Own, DistinctHandles
    <3> QED
      BY <3>1, <3>2
  <2>12. Own(b, NoCall, sch)
    BY <1>1, <2>9, <2>11 DEF Own
  <2> QED
    BY <1>3, <2>1, <2>2, <2>12
<1> QED
  BY <1>4, <1>5

\* A sequence of the running process that is found under the handle of a
\* request is the request's own.
LEMMA OwnLookup ==
  ASSUME Own(adapter, call, sched), Ledger(adapter, call, sched), call = NoCall,
         adapter.process.up, NEW r \in Requests, sched[r].st = "open",
         sched[r].handle \in DOMAIN adapter.active,
         Occupied(adapter.process, adapter.active[sched[r].handle])
  PROVE  SlotOf(adapter.process, adapter.active[sched[r].handle][1]).key = r
<1>1. PICK n : n = adapter.active[sched[r].handle]
  OBVIOUS
<1>2. AdapterInv(adapter) /\ adapter.generation \in Nat /\ n \in Natives
      /\ sched[r].handle = Public(adapter, n)
  BY <1>1 DEF Ledger, AdapterInv
<1>3. PICK slot : slot = SlotOf(adapter.process, n[1])
  OBVIOUS
<1>4. n[1] \in Slots /\ n = <<n[1], n[2]>>
  BY <1>2 DEF Natives
<1>5. slot.lifecycle # "released" /\ n = <<n[1], slot.generation>>
  BY <1>1, <1>3, <1>4 DEF Occupied, SlotOf
<1>6. NoCall.op = "none"
  BY DEF NoCall
<1>7. slot.key \in Requests /\ HeldBy(adapter, sched, slot, n)
  BY <1>3, <1>4, <1>5, <1>6 DEF Ledger, Held, Registering
<1>8. /\ sched[slot.key].st = "open" /\ sched[slot.key].handle \in DOMAIN adapter.active
      /\ adapter.active[sched[slot.key].handle] = n
  BY <1>7 DEF HeldBy, Correlates
<1>9. sched[slot.key].handle = Public(adapter, n)
  BY <1>2, <1>8 DEF AdapterInv
<1>10. slot.key = r
  BY <1>2, <1>7, <1>8, <1>9 DEF Own, DistinctHandles
<1> QED
  BY <1>1, <1>3, <1>10

\* A batch that is answered is answered by the sequences it was meant for.
LEMMA OwnSteps ==
  ASSUME Own(adapter, call, sched), Ledger(adapter, call, sched), OutcomeIsOwn,
         \/ \E batch \in (SUBSET Requests) \ {{}} : CallSteps(batch)
         \/ StepsCommand
         \/ \E r \in Requests : StepsVerify(r)
  PROVE  Own(adapter', call', sched') /\ OutcomeIsOwn'
<1>0. AdapterInv(adapter) /\ SchedInv(sched) /\ CallInv(call) /\ NoCall.op = "none"
  BY DEF Ledger, NoCall
<1>1. ASSUME NEW batch \in (SUBSET Requests) \ {{}}, CallSteps(batch)
      PROVE  Own(adapter', call', sched') /\ OutcomeIsOwn'
  <2>1. /\ call = NoCall /\ adapter' = adapter /\ sched' = sched /\ accepted' = accepted
        /\ \A r \in batch : sched[r].st = "open"
    BY <1>1 DEF CallSteps
  <2>2. OutcomeIsOwn'
    BY <2>1 DEF OutcomeIsOwn
  <2>3. CASE call' = call
    BY <2>1, <2>2, <2>3
  <2>4. CASE call' # call
    <3>1. PICK d, nat, none :
            /\ d = call' /\ nat = [r \in batch |-> adapter.active[sched[r].handle]]
            /\ none = << >>
      OBVIOUS
    <3>2. /\ d = [op |-> "steps", pc |-> "command", batch |-> batch, native |-> nat, origin |-> none]
          /\ \A r \in batch : sched[r].handle \in DOMAIN adapter.active
      BY <1>1, <2>4, <3>1 DEF CallSteps
    <3>3. d.op = "steps" /\ d.pc = "command" /\ d.batch = batch /\ d.native = nat
      BY <3>2
    <3>4. ASSUME adapter.process.up, NEW r \in batch, Occupied(adapter.process, nat[r])
          PROVE  SlotOf(adapter.process, nat[r][1]).key = r
      <4>1. /\ r \in Requests /\ nat[r] = adapter.active[sched[r].handle]
            /\ sched[r].handle \in DOMAIN adapter.active /\ sched[r].st = "open"
        BY <2>1, <3>1, <3>2
      <4> QED
        BY <2>1, <3>4, <4>1, OwnLookup
    <3>5. BatchInv(adapter, d)
      BY <3>3, <3>4 DEF BatchInv
    <3>6. Own(adapter, d, sched)
      BY <3>3, <3>5 DEF Own
    <3> QED
      BY <2>1, <2>2, <3>1, <3>6
  <2> QED
    BY <2>3, <2>4
<1>2. CASE StepsCommand
  <2>1. /\ call.op = "steps" /\ call.pc = "command" /\ StepsCall(call)
        /\ sched' = sched /\ accepted' = accepted
    BY <1>0, <1>2, CallKinds DEF StepsCommand
  <2>2. OutcomeIsOwn'
    BY <2>1 DEF OutcomeIsOwn
  <2>3. PICK natives, cmd : /\ natives = {call.native[r] : r \in call.batch}
                            /\ cmd = [op |-> "steps", natives |-> natives]
    OBVIOUS
  <2>4. PICK result \in Command(adapter, cmd) :
          /\ adapter' = result.adapter
          /\ call' = IF result.answer = "ok"
                     THEN [call EXCEPT !.pc = "verify", !.origin =
                             [r \in call.batch |->
                                Origin(result.adapter.process, call.native[r])]]
                     ELSE NoCall
    BY <1>2, <2>3 DEF StepsCommand
  <2>5. CASE /\ result.answer = "error" /\ AdapterInv(result.adapter)
             /\ Ages(adapter, result.adapter)
    BY <2>1, <2>2, <2>4, <2>5, OwnGivesUp
  <2>6. CASE result = Answered(adapter, cmd)
    <3>1. PICK s : s = Started(adapter)
      OBVIOUS
    <3>2. AdapterInv(s) /\ Ages(adapter, s) /\ s.process.up /\ s.state = "READY"
      BY <1>0, <3>1, StartedAges
    <3>3. Own(s, call, sched)
      BY <3>2, OwnAges
    <3>4. /\ Native(s.process, cmd).process = s.process
          /\ Native(s.process, cmd).answer = "ok" =>
               \A n \in natives : Occupied(s.process, n)
      BY <2>3 DEF Native, NativeSteps
    <3>5. PICK b : b = result.adapter
      OBVIOUS
    <3>6. b = [s EXCEPT !.process = s.process] /\ result.answer = Native(s.process, cmd).answer
      BY <2>6, <3>1, <3>4, <3>5, AnsweredBy
    <3>7. AdapterInv(b) /\ b.process = s.process /\ b.active = s.active /\ b.generation = s.generation
      BY <3>2, <3>6, WithProcess DEF AdapterInv
    <3>8. CASE result.answer # "ok"
      <4>1. Own(b, NoCall, sched)
        BY <1>0, <3>3, <3>7, OwnSame
      <4> QED
        BY <2>1, <2>2, <2>4, <3>5, <3>8, <4>1
    <3>9. CASE result.answer = "ok"
      <4>1. PICK orig : orig = [r \in call.batch |-> Origin(b.process, call.native[r])]
        OBVIOUS
      <4>2. PICK d : d = Noting(call, orig)
        OBVIOUS
      <4>3. call' = d
        BY <2>4, <3>5, <3>9, <4>1, <4>2 DEF Noting
      <4>4. StepsCall(d) /\ d.pc = "verify" /\ d.origin = orig /\ d.batch = call.batch
        BY <2>1, <4>2, StepsMoves
      <4>5. ASSUME NEW r \in call.batch PROVE orig[r] = r
        <5>1. Occupied(s.process, call.native[r])
          BY <2>3, <3>4, <3>6, <3>9
        <5>2. SlotOf(s.process, call.native[r][1]).key = r
          BY <2>1, <3>2, <3>3, <5>1 DEF Own, BatchInv
        <5> QED
          BY <3>7, <4>1, <5>2 DEF Origin, SlotOf
      <4>6. d.op = "steps" /\ BatchInv(b, d)
        BY <4>4, <4>5 DEF BatchInv, StepsCall
      <4>7. HandleInv(b, sched) /\ DistinctHandles(b, sched)
        BY <3>2, <3>3, <3>7 DEF Own, HandleInv, DistinctHandles
      <4>8. Own(b, d, sched)
        BY <4>6, <4>7 DEF Own
      <4> QED
        BY <2>1, <2>2, <2>4, <3>5, <4>3, <4>8
    <3> QED
      BY <3>8, <3>9
  <2> QED
    BY <1>0, <2>4, <2>5, <2>6, CommandEnds
<1>3. ASSUME NEW r \in Requests, StepsVerify(r)
      PROVE  Own(adapter', call', sched') /\ OutcomeIsOwn'
  <2>1. /\ call.op = "steps" /\ call.pc = "verify" /\ StepsCall(call) /\ sched' = sched
        /\ r \in call.batch /\ call.origin[r] = r
    BY <1>0, <1>3, CallKinds DEF StepsVerify, Own, BatchInv
  <2>2. accepted' \in {accepted, accepted \cup {<<r, call.origin[r]>>}}
    BY <1>3 DEF StepsVerify
  <2>3. OutcomeIsOwn'
    BY <2>1, <2>2 DEF OutcomeIsOwn
  <2>4. \/ adapter' = ProtocolFailure(adapter) /\ call' = NoCall
        \/ adapter' = adapter /\ call' = NoCall
        \/ adapter' = adapter /\ call.batch # {r} /\ call' = [call EXCEPT !.batch = @ \ {r}]
    BY <1>3 DEF StepsVerify
  <2>5. CASE adapter' = ProtocolFailure(adapter) /\ call' = NoCall
    BY <1>0, <2>1, <2>3, <2>5, ProtocolFails, OwnGivesUp
  <2>6. CASE adapter' = adapter /\ call' = NoCall
    BY <1>0, <2>1, <2>3, <2>6, OwnSame
  <2>7. CASE adapter' = adapter /\ call.batch # {r} /\ call' = [call EXCEPT !.batch = @ \ {r}]
    <3>1. PICK d : d = call'
      OBVIOUS
    <3>2. /\ StepsCall(d) /\ d.pc = "verify" /\ d.origin = call.origin
          /\ d.batch = call.batch \ {r}
      BY <2>1, <2>7, <3>1, StepsShrinks
    <3>3. d.op = "steps" /\ BatchInv(adapter, d)
      BY <2>1, <3>2 DEF Own, BatchInv, StepsCall
    <3>4. Own(adapter, d, sched)
      BY <3>3 DEF Own
    <3> QED
      BY <2>1, <2>3, <2>7, <3>1, <3>4
  <2> QED
    BY <2>4, <2>5, <2>6, <2>7
<1> QED
  BY <1>1, <1>2, <1>3

\* A release takes its own handle from the active ones, and no other request
\* has that handle.
LEMMA OwnRelease ==
  ASSUME Own(adapter, call, sched), Ledger(adapter, call, sched),
         \/ \E r \in Requests : CallRelease(r)
         \/ ReleaseCommand \/ ReleaseVerify \/ ReleaseForget
  PROVE  Own(adapter', call', sched')
<1>0. AdapterInv(adapter) /\ SchedInv(sched) /\ CallInv(call) /\ NoCall.op = "none"
  BY DEF Ledger, NoCall
<1>1. ASSUME NEW r \in Requests, CallRelease(r) PROVE Own(adapter', call', sched')
  <2>1. adapter' = adapter /\ call'.op \in {"none", "release"}
    BY <1>0, <1>1 DEF CallRelease
  <2>2. PICK sch : sch = Closed(r)
    OBVIOUS
  <2>3. sched' = sched \/ sched' = sch
    BY <1>1, <2>2 DEF CallRelease
  <2>4. \A q \in Requests : sch[q].st = "open" => sch[q] = sched[q]
    BY <1>0, <2>2, GivingUp
  <2>5. Own(adapter, call', sched)
    BY <2>1, OwnSame
  <2>6. Own(adapter, call', sch)
    BY <2>4, <2>5, OwnFewer
  <2> QED
    BY <2>1, <2>3, <2>5, <2>6
<1>2. ASSUME ReleaseCommand \/ ReleaseVerify \/ ReleaseForget
      PROVE  Own(adapter', call', sched')
  <2>1. call.op = "release" /\ ReleaseCall(call) /\ call.request \in Requests
        /\ call.native \in Natives
    BY <1>0, <1>2, CallKinds DEF ReleaseCommand, ReleaseVerify, ReleaseForget, ReleaseCall
  <2>2. PICK r, sch : r = call.request /\ sch = Closed(r)
    OBVIOUS
  <2>3. \A q \in Requests : sch[q].st = "open" => sch[q] = sched[q]
    BY <1>0, <2>1, <2>2, GivingUp
  <2>4. CASE ReleaseCommand
    <3>1. PICK cmd : cmd = [op |-> "release", native |-> call.native]
      OBVIOUS
    <3>2. PICK result \in Command(adapter, cmd) :
            /\ adapter' = result.adapter
            /\ IF result.answer = "error" THEN call' = NoCall /\ sched' = sch
               ELSE /\ call' = [call EXCEPT !.pc = "verify", !.status = result.answer]
                    /\ sched' = sched
      BY <2>2, <2>4, <3>1 DEF ReleaseCommand
    <3>3. CASE /\ result.answer = "error" /\ AdapterInv(result.adapter)
               /\ Ages(adapter, result.adapter)
      BY <2>3, <3>2, <3>3, OwnGivesUp
    <3>4. CASE result = Answered(adapter, cmd)
      <4>1. PICK s : s = Started(adapter)
        OBVIOUS
      <4>2. AdapterInv(s) /\ Ages(adapter, s) /\ s.process.up /\ s.state = "READY"
        BY <1>0, <4>1, StartedAges
      <4>3. Own(s, call, sched)
        BY <4>2, OwnAges
      <4>4. PICK n, native : n = NativeRelease(s.process, native) /\ native = call.native
        OBVIOUS
      <4>5. Native(s.process, cmd) = n
        BY <3>1, <4>4 DEF Native
      <4>6. Frees(s.process, native, n)
        BY <2>1, <4>2, <4>4, NativeReleases DEF AdapterInv
      <4>7. PICK b : b = result.adapter
        OBVIOUS
      <4>8. b = [s EXCEPT !.process = n.process] /\ result.answer = n.answer
        BY <3>4, <4>1, <4>5, <4>7, AnsweredBy
      <4>9. b.process = n.process /\ b.active = s.active /\ b.generation = s.generation
        BY <4>2, <4>6, <4>8, WithProcess DEF Frees
      <4>10. sched' = sched /\ call' = Answering(call, result.answer)
        BY <3>2, <4>6, <4>8 DEF Frees, Answering
      <4>11. PICK d, ans : d = Answering(call, ans) /\ ans = result.answer
        OBVIOUS
      <4>12. d.op = "release"
        BY <2>1, <4>11, ReleaseAnswered
      <4>13. Own(b, d, sched)
        BY <4>2, <4>3, <4>9, <4>12, OwnSame
      <4> QED
        BY <3>2, <4>7, <4>10, <4>11, <4>13
    <3> QED
      BY <1>0, <3>2, <3>3, <3>4, CommandEnds
  <2>5. CASE ReleaseVerify
    <3>1. \/ adapter' = adapter /\ sched' = sched /\ call' = [call EXCEPT !.pc = "forget"]
          \/ adapter' = ProtocolFailure(adapter) /\ call' = NoCall /\ sched' = sch
      BY <2>2, <2>5 DEF ReleaseVerify
    <3>2. CASE adapter' = adapter /\ sched' = sched /\ call' = [call EXCEPT !.pc = "forget"]
      <4>1. PICK d : d = [call EXCEPT !.pc = "forget"]
        OBVIOUS
      <4>2. d.op = "release"
        BY <2>1, <4>1, ReleaseVerified
      <4>3. Own(adapter, d, sched)
        BY <4>2, OwnSame
      <4> QED
        BY <3>2, <4>1, <4>3
    <3>3. CASE adapter' = ProtocolFailure(adapter) /\ call' = NoCall /\ sched' = sch
      BY <1>0, <2>3, <3>3, ProtocolFails, OwnGivesUp
    <3> QED
      BY <3>1, <3>2, <3>3
  <2>6. CASE ReleaseForget
    <3>1. PICK h : h = sched[r].handle
      OBVIOUS
    <3>2. /\ call.pc = "forget" /\ call' = NoCall /\ sched' = sch
      BY <2>2, <2>6 DEF ReleaseForget
    <3>3. ReleaseInv(adapter, call, sched)
      BY <2>1 DEF Ledger
    <3>4. PICK act, rel, b :
            /\ act = [k \in DOMAIN adapter.active \ {h} |-> adapter.active[k]]
            /\ b = [adapter EXCEPT !.active = act, !.released = rel] /\ adapter' = b
      BY <2>2, <2>6, <3>1, <3>2, <3>3 DEF ReleaseForget, ReleaseInv
    <3>5. PICK p, st, g, old, before :
            adapter = [process |-> p, state |-> st, generation |-> g, active |-> old,
                       released |-> before]
      BY <1>0 DEF AdapterInv
    <3>6. b = [process |-> p, state |-> st, generation |-> g, active |-> act, released |-> rel]
      BY <3>4, <3>5
    <3>7. b.process = adapter.process /\ b.active = act /\ b.generation = adapter.generation
      BY <3>5, <3>6
    <3>8. DOMAIN act = DOMAIN adapter.active \ {h}
      BY <3>4
    <3>9. sch[r].st = "done" /\ sched[r].st = "open"
      BY <1>0, <2>1, <2>2, <3>3, GivingUp DEF ReleaseInv
    <3>10. HandleInv(b, sch)
      <4> SUFFICES ASSUME NEW q \in Requests, sch[q].st = "open"
                   PROVE  /\ sch[q].handle[2] < Base(adapter.generation + 1)
                          /\ adapter.process.up /\ sch[q].handle \notin DOMAIN act =>
                               sch[q].handle[2] < Base(adapter.generation)
        BY <3>7 DEF HandleInv
      <4>1. sch[q] = sched[q] /\ q # r
        BY <2>3, <3>9
      <4>2. adapter.process.up /\ sched[q].handle \in DOMAIN adapter.active =>
              sched[q].handle # h
        BY <2>1, <2>2, <3>1, <3>9, <4>1 DEF Own, DistinctHandles
      <4> QED
        BY <3>8, <4>1, <4>2 DEF Own, HandleInv
    <3>11. b.process.up => DistinctHandles(b, sch)
      BY <2>3, <3>7, <3>8 DEF Own, DistinctHandles
    <3>12. Own(b, NoCall, sch)
      BY <1>0, <3>10, <3>11 DEF Own
    <3> QED
      BY <3>2, <3>4, <3>12
  <2> QED
    BY <1>2, <2>4, <2>5, <2>6
<1> QED
  BY <1>1, <1>2

OwnInv == Own(adapter, call, sched) /\ OutcomeIsOwn

\* Every step keeps the handles apart while the native generations are small.
LEMMA OwnStep == LedgerInv /\ OwnInv /\ YoungSlots' /\ [Next]_vars => OwnInv'
<1> SUFFICES ASSUME Own(adapter, call, sched), Ledger(adapter, call, sched), OutcomeIsOwn,
                    YoungSlots', [Next]_vars
             PROVE  Own(adapter', call', sched') /\ OutcomeIsOwn'
  BY DEF OwnInv, LedgerInv
<1>0. AdapterInv(adapter) /\ SchedInv(sched) /\ CallInv(call) /\ NoCall.op = "none"
  BY DEF Ledger, NoCall
<1>1. CASE \/ \E batch \in (SUBSET Requests) \ {{}} : CallSteps(batch)
           \/ StepsCommand
           \/ \E r \in Requests : StepsVerify(r)
  BY <1>1, OwnSteps
<1>2. CASE \/ \E r \in Requests : CallOpen(r) \/ CallRelease(r)
           \/ OpenCommand \/ OpenRegister
           \/ ReleaseCommand \/ ReleaseVerify \/ ReleaseForget \/ AnswerRefused
           \/ CacheCommand \/ SupervisorState \/ Shutdown \/ ProcessDies
           \/ UNCHANGED vars
  <2>1. OutcomeIsOwn'
    <3>1. accepted' = accepted
      BY <1>2 DEF CallOpen, CallRelease, OpenCommand, OpenRegister, ReleaseCommand,
                  ReleaseVerify, ReleaseForget, AnswerRefused, CacheCommand,
                  SupervisorState, Shutdown, ProcessDies, vars
    <3> QED
      BY <3>1 DEF OutcomeIsOwn
  <2>2. ASSUME NEW r \in Requests, CallOpen(r) PROVE Own(adapter', call', sched')
    <3>1. PICK d : d = call'
      OBVIOUS
    <3>2. /\ d = [op |-> "open", request |-> r, pc |-> "command", native |-> NoNative]
          /\ adapter' = adapter /\ sched' = sched
      BY <2>2, <3>1 DEF CallOpen
    <3>3. d.op = "open" /\ d.pc = "command"
      BY <3>2
    <3>4. Own(adapter, d, sched)
      BY <3>3 DEF Own
    <3> QED
      BY <3>1, <3>2, <3>4
  <2>3. CASE AnswerRefused
    <3>1. adapter' = ProtocolFailure(adapter) /\ call' = NoCall
      BY <2>3 DEF AnswerRefused
    <3>2. \/ call.op = "open" /\ sched' = Lost(call.request)
          \/ call.op = "release" /\ sched' = Closed(call.request)
          \/ sched' = sched
      BY <2>3 DEF AnswerRefused
    <3>3. call.op \in {"open", "release"} => call.request \in Requests
      BY <1>0, CallKinds DEF OpenCall, ReleaseCall
    <3>4. PICK sch : sch = sched'
      OBVIOUS
    <3>5. \A q \in Requests : sch[q].st = "open" => sch[q] = sched[q]
      BY <1>0, <3>2, <3>3, <3>4, GivingUp
    <3> QED
      BY <1>0, <2>1, <3>1, <3>4, <3>5, ProtocolFails, OwnGivesUp
  <2>4. CASE CacheCommand
    <3>1. PICK cmd : cmd = [op |-> "cache"]
      OBVIOUS
    <3>2. PICK result \in Command(adapter, cmd) : adapter' = result.adapter
      BY <2>4, <3>1 DEF CacheCommand
    <3>3. call' = call /\ sched' = sched
      BY <2>4 DEF CacheCommand
    <3>4. AdapterInv(result.adapter) /\ Ages(adapter, result.adapter)
      BY <1>0, <3>1, CacheAnswers, CommandEnds
    <3> QED
      BY <2>1, <3>2, <3>3, <3>4, OwnAges
  <2>5. CASE SupervisorState \/ Shutdown \/ ProcessDies
    <3>1. call' = call /\ sched' = sched
      BY <2>5 DEF SupervisorState, Shutdown, ProcessDies
    <3> QED
      BY <1>0, <2>1, <2>5, <3>1, ProcessEnds, OwnAges
  <2>6. CASE UNCHANGED vars
    BY <2>1, <2>6 DEF vars
  <2> QED
    BY <1>2, <2>1, <2>2, <2>3, <2>4, <2>5, <2>6, OwnOpenCommand, OwnOpenRegister, OwnRelease
<1> QED
  BY <1>1, <1>2 DEF Next

\* The scheduler never takes another sequence's outcome for a request's own,
\* whatever process died, was killed or replaced in between, as long as no
\* slot of a process is used so often that its generation reaches the bits of
\* the process's (open_sequence, _native_steps, _verify_native_correlation).
THEOREM OutcomesAreOwn == Spec /\ []YoungSlots => []OutcomeIsOwn
<1>1. Init => OwnInv
  <2> SUFFICES ASSUME Init PROVE OwnInv
    OBVIOUS
  <2>1. /\ adapter = [process |-> NoProcess, state |-> "STOPPED", generation |-> 0,
                      active |-> << >>, released |-> <<>>]
        /\ call = NoCall /\ sched = [r \in Requests |-> [st |-> "new", handle |-> NoNative]]
        /\ accepted = {}
    BY DEF Init
  <2>2. adapter.process = NoProcess /\ NoCall.op = "none"
    BY <2>1 DEF NoCall
  <2>3. \A r \in Requests : sched[r].st = "new"
    BY <2>1
  <2>4. HandleInv(adapter, sched)
    BY <2>3 DEF HandleInv
  <2>5. Own(adapter, call, sched)
    BY <2>1, <2>2, <2>4, NewProcessInv DEF Own
  <2> QED
    BY <2>1, <2>5 DEF OwnInv, OutcomeIsOwn
<1>2. OwnInv => OutcomeIsOwn
  BY DEF OwnInv
<1> QED
  BY <1>1, <1>2, LedgerInit, LedgerStep, OwnStep, PTL DEF Spec

-----------------------------------------------------------------------------
(***************************************************************************)
(* The sequence-state cache.  The leases and the index come first: they    *)
(* are safe whatever is evicted to make room, as long as it is not leased. *)
(* The byte count, a sum over a set, comes last.                           *)
(***************************************************************************)

Leases == [id : Ids \cup {NoId}, mutable : BOOLEAN]

Steps == {"idle", "holding", "put", "release"}

\* TypeOK without the byte count.
Shape ==
  /\ live \subseteq Ids
  /\ entry \in [Ids -> Entries]
  /\ refs \in [Ids -> Nat]
  /\ index \in [Keys \X Scopes -> Ids \cup {NoId}]
  /\ lease \in [Clients -> Leases]
  /\ step \in [Clients -> Steps]

\* Clients hold leases of live entries only, and reference counts count them.
LeaseInv ==
  /\ \A c \in Clients : step[c] = "idle" => lease[c] = NoLease
  /\ \A c \in Clients : step[c] # "idle" => lease[c].id \in live
  /\ \A e \in live : refs[e] = Cardinality(Holders(e))
  /\ \A e \in live : entry[e].ephemeral => refs[e] = 1
  /\ MutableIsExclusive

Inv == Shape /\ LeaseInv /\ IndexExact

-----------------------------------------------------------------------------
(***************************************************************************)
(* What the operations do to the cache, in five forms.                     *)
(***************************************************************************)

\* Unleased entries go.
Drops(S) ==
  /\ S \subseteq Unleased
  /\ live' = live \ S /\ index' = Unindexed(S, index)
  /\ UNCHANGED <<entry, refs>>

\* Unleased entries go and a shared one is inserted.
Inserts(S, e, new) ==
  /\ S \subseteq Unleased /\ e \in FreshIds /\ new \in Entries /\ ~new.ephemeral
  /\ \A x \in live \ S : ~entry[x].ephemeral =>
       <<entry[x].key, entry[x].scope>> # <<new.key, new.scope>>
  /\ live' = (live \ S) \cup {e}
  /\ entry' = [entry EXCEPT ![e] = new] /\ refs' = [refs EXCEPT ![e] = 0]
  /\ index' = [Unindexed(S, index) EXCEPT ![<<new.key, new.scope>>] = e]

\* Unleased entries go and client c shares a remaining one.
Shares(S, c, e, mutable) ==
  /\ S \subseteq Unleased /\ e \in live \ S /\ ~entry[e].ephemeral
  /\ step[c] = "idle" /\ (mutable => refs[e] = 0)
  /\ live' = live \ S /\ index' = Unindexed(S, index)
  /\ refs' = [refs EXCEPT ![e] = @ + 1]
  /\ Lease(c, e, mutable) /\ UNCHANGED entry

\* Unleased entries go and client c gets a copy of its own.
Clones(S, c, f, new, mutable) ==
  /\ S \subseteq Unleased /\ f \in FreshIds /\ new \in Entries /\ new.ephemeral
  /\ step[c] = "idle"
  /\ live' = (live \ S) \cup {f}
  /\ entry' = [entry EXCEPT ![f] = new] /\ refs' = [refs EXCEPT ![f] = 1]
  /\ index' = Unindexed(S, index)
  /\ Lease(c, f, mutable)

\* Clients' steps that neither take nor give back a lease.
SameLeases ==
  /\ lease' = lease /\ step' \in [Clients -> Steps]
  /\ \A c \in Clients : step'[c] = "idle" <=> step[c] = "idle"

-----------------------------------------------------------------------------

\* The clients of an entry are finitely many, and an unleased one has none.
LEMMA HoldersFinite ==
  ASSUME Inv, NEW e \in live
  PROVE  /\ IsFiniteSet(Holders(e))
         /\ refs[e] = 0 <=> Holders(e) = {}
<1>1. IsFiniteSet(Holders(e))
  BY CacheAssumption, FS_Subset DEF Holders
<1>2. refs[e] = Cardinality(Holders(e))
  BY DEF Inv, LeaseInv
<1> QED BY <1>1, <1>2, FS_EmptySet

\* A leased entry is not among the unleased ones.
LEMMA LeasedStays ==
  ASSUME Inv, NEW S \in SUBSET Unleased, NEW c \in Clients, step[c] # "idle"
  PROVE  lease[c].id \in live \ S
<1>1. lease[c].id \in live
  BY DEF Inv, LeaseInv
<1>2. c \in Holders(lease[c].id)
  BY DEF Holders
<1>3. refs[lease[c].id] # 0
  BY <1>1, <1>2, HoldersFinite
<1> QED BY <1>1, <1>3 DEF Unleased

\* Removing unleased entries keeps the index exact.
LEMMA UnindexedExact ==
  ASSUME Inv, NEW S \in SUBSET live
  PROVE  /\ Unindexed(S, index) \in [Keys \X Scopes -> Ids \cup {NoId}]
         /\ \A e \in live \ S : ~entry[e].ephemeral =>
              Unindexed(S, index)[<<entry[e].key, entry[e].scope>>] = e
         /\ \A p \in Keys \X Scopes : Unindexed(S, index)[p] # NoId =>
              /\ Unindexed(S, index)[p] \in live \ S
              /\ ~entry[Unindexed(S, index)[p]].ephemeral
              /\ p = <<entry[Unindexed(S, index)[p]].key, entry[Unindexed(S, index)[p]].scope>>
<1>0. index \in [Keys \X Scopes -> Ids \cup {NoId}] /\ entry \in [Ids -> Entries] /\ live \subseteq Ids
  BY DEF Inv, Shape
<1>1. Unindexed(S, index) \in [Keys \X Scopes -> Ids \cup {NoId}]
  BY <1>0 DEF Unindexed
<1>2. ASSUME NEW e \in live \ S, ~entry[e].ephemeral
      PROVE  Unindexed(S, index)[<<entry[e].key, entry[e].scope>>] = e
  <2>1. <<entry[e].key, entry[e].scope>> \in Keys \X Scopes
    BY <1>0 DEF Entries
  <2>2. index[<<entry[e].key, entry[e].scope>>] = e
    BY <1>2 DEF Inv, IndexExact
  <2>3. <<entry[e].key, entry[e].scope>> \notin Pointers(S)
    BY <1>2, <2>2 DEF Pointers, Inv, IndexExact
  <2> QED BY <2>1, <2>2, <2>3 DEF Unindexed
<1>3. ASSUME NEW p \in Keys \X Scopes, Unindexed(S, index)[p] # NoId
      PROVE  /\ Unindexed(S, index)[p] \in live \ S
             /\ ~entry[Unindexed(S, index)[p]].ephemeral
             /\ p = <<entry[Unindexed(S, index)[p]].key, entry[Unindexed(S, index)[p]].scope>>
  <2>1. p \notin Pointers(S) /\ Unindexed(S, index)[p] = index[p]
    BY <1>3 DEF Unindexed
  <2>2. /\ index[p] \in live /\ ~entry[index[p]].ephemeral
        /\ p = <<entry[index[p]].key, entry[index[p]].scope>>
    BY <1>3, <2>1 DEF Inv, IndexExact
  <2>3. index[p] \notin S
    BY <2>1, <2>2 DEF Pointers
  <2> QED BY <2>1, <2>2, <2>3
<1> QED BY <1>1, <1>2, <1>3
-----------------------------------------------------------------------------
(***************************************************************************)
(* Each form keeps the invariant.                                          *)
(***************************************************************************)

\* Removing unleased entries.
LEMMA DropsKeep ==
  ASSUME Inv, NEW S, Drops(S), SameLeases
  PROVE  Inv'
<1>0. S \in SUBSET Unleased /\ S \in SUBSET live
  BY DEF Drops, Unleased
<1>1. Shape'
  BY <1>0, UnindexedExact DEF Inv, Shape, Drops, SameLeases
<1>2. \A c \in Clients : step'[c] # "idle" => lease'[c].id \in live'
  BY <1>0, LeasedStays DEF Drops, SameLeases
<1>3. \A e : Holders(e)' = Holders(e)
  BY DEF Holders, SameLeases
<1>4. LeaseInv'
  BY <1>2, <1>3 DEF Inv, LeaseInv, Drops, SameLeases, MutableIsExclusive, NoLease
<1>5. IndexExact'
  BY <1>0, UnindexedExact DEF IndexExact, Drops
<1> QED BY <1>1, <1>4, <1>5 DEF Inv

\* Inserting a shared entry that nobody holds.
LEMMA InsertsKeep ==
  ASSUME Inv, NEW S, NEW e, NEW new, Inserts(S, e, new), SameLeases
  PROVE  Inv'
<1> DEFINE q == <<new.key, new.scope>>
           idx == Unindexed(S, index)
<1>0. /\ S \in SUBSET Unleased /\ S \in SUBSET live /\ live \subseteq Ids
      /\ e \in Ids /\ e \notin live /\ new \in Entries /\ ~new.ephemeral
      /\ q \in Keys \X Scopes
      /\ entry \in [Ids -> Entries] /\ refs \in [Ids -> Nat]
  BY DEF Inserts, Unleased, FreshIds, Entries, Inv, Shape
<1>1. /\ entry'[e] = new /\ \A x \in Ids \ {e} : entry'[x] = entry[x]
      /\ refs'[e] = 0 /\ \A x \in Ids \ {e} : refs'[x] = refs[x]
      /\ live' = (live \ S) \cup {e}
  BY <1>0 DEF Inserts
<1>2. /\ idx \in [Keys \X Scopes -> Ids \cup {NoId}]
      /\ index' = [idx EXCEPT ![q] = e]
  BY <1>0, UnindexedExact DEF Inserts
<1>3. index'[q] = e /\ \A p \in (Keys \X Scopes) \ {q} : index'[p] = idx[p]
  BY <1>0, <1>2
<1>4. Shape'
  <2>1. index' \in [Keys \X Scopes -> Ids \cup {NoId}]
    BY <1>0, <1>2
  <2> QED BY <1>0, <2>1 DEF Inv, Shape, Inserts, SameLeases
<1>5. \A c \in Clients : step'[c] # "idle" => lease'[c].id \in live'
  BY <1>0, <1>1, LeasedStays DEF SameLeases
<1>6. \A x : Holders(x)' = Holders(x)
  BY DEF Holders, SameLeases
<1>7. Holders(e) = {}
  BY DEF Holders, Inserts, FreshIds
<1>8. LeaseInv'
  <2>1. \A x \in live' : refs'[x] = Cardinality(Holders(x)')
    BY <1>0, <1>1, <1>6, <1>7, FS_EmptySet DEF Inv, LeaseInv
  <2>2. \A x \in live' : entry'[x].ephemeral => refs'[x] = 1
    BY <1>0, <1>1 DEF Inv, LeaseInv
  <2> QED BY <1>5, <2>1, <2>2 DEF Inv, LeaseInv, SameLeases, MutableIsExclusive, NoLease
<1>9. IndexExact'
  <2>1. ASSUME NEW x \in live', ~entry'[x].ephemeral
        PROVE  index'[<<entry'[x].key, entry'[x].scope>>] = x
    <3>1. CASE x = e
      BY <3>1, <1>1, <1>3
    <3>2. CASE x # e
      <4>1. x \in live \ S /\ entry'[x] = entry[x]
        BY <3>2, <1>0, <1>1
      <4>2. <<entry[x].key, entry[x].scope>> # q /\ <<entry[x].key, entry[x].scope>> \in Keys \X Scopes
        BY <4>1, <2>1, <1>0 DEF Inserts, Entries
      <4> QED BY <4>1, <4>2, <2>1, <1>0, <1>3, UnindexedExact
    <3> QED BY <3>1, <3>2
  <2>2. ASSUME NEW p \in Keys \X Scopes, index'[p] # NoId
        PROVE  /\ index'[p] \in live' /\ ~entry'[index'[p]].ephemeral
               /\ p = <<entry'[index'[p]].key, entry'[index'[p]].scope>>
    <3>1. CASE p = q
      BY <3>1, <1>0, <1>1, <1>3
    <3>2. CASE p # q
      <4>1. index'[p] = idx[p]
        BY <3>2, <1>3
      <4>2. /\ idx[p] \in live \ S /\ ~entry[idx[p]].ephemeral
            /\ p = <<entry[idx[p]].key, entry[idx[p]].scope>>
        BY <4>1, <2>2, <1>0, UnindexedExact
      <4>3. entry'[idx[p]] = entry[idx[p]] /\ idx[p] \in live'
        BY <4>2, <1>0, <1>1
      <4> QED BY <4>1, <4>2, <4>3
    <3> QED BY <3>1, <3>2
  <2> QED BY <2>1, <2>2 DEF IndexExact
<1> QED BY <1>4, <1>8, <1>9 DEF Inv

\* A client that takes a lease of e joins the holders of e, and only of e.
LEMMA LeaseTaken ==
  ASSUME Inv, NEW c \in Clients, NEW e \in Ids, NEW m \in BOOLEAN,
         step[c] = "idle", Lease(c, e, m)
  PROVE  /\ lease' \in [Clients -> Leases] /\ step' \in [Clients -> Steps]
         /\ lease'[c] = [id |-> e, mutable |-> m] /\ step'[c] = "holding"
         /\ \A d \in Clients \ {c} : lease'[d] = lease[d] /\ step'[d] = step[d]
         /\ Holders(e)' = Holders(e) \cup {c} /\ c \notin Holders(e)
         /\ \A x \in Ids \ {e} : Holders(x)' = Holders(x)
<1>1. lease \in [Clients -> Leases] /\ step \in [Clients -> Steps] /\ lease[c].id = NoId
  BY DEF Inv, Shape, LeaseInv, NoLease
<1>2. /\ lease' \in [Clients -> Leases] /\ step' \in [Clients -> Steps]
      /\ lease'[c] = [id |-> e, mutable |-> m] /\ step'[c] = "holding"
      /\ \A d \in Clients \ {c} : lease'[d] = lease[d] /\ step'[d] = step[d]
  BY <1>1 DEF Lease, Leases, Steps
<1>3. \A x \in Ids : c \notin Holders(x)
  BY <1>1, CacheAssumption DEF Holders
<1>4. Holders(e)' = Holders(e) \cup {c}
  BY <1>2 DEF Holders
<1>5. ASSUME NEW x \in Ids \ {e} PROVE Holders(x)' = Holders(x)
  BY <1>2, <1>3 DEF Holders
<1> QED BY <1>2, <1>3, <1>4, <1>5

\* Sharing an entry: a mutable lease finds it unleased.
LEMMA SharesKeep ==
  ASSUME Inv, NEW S, NEW c \in Clients, NEW e, NEW m \in BOOLEAN, Shares(S, c, e, m)
  PROVE  Inv'
<1>0. /\ S \in SUBSET Unleased /\ S \in SUBSET live /\ live \subseteq Ids
      /\ e \in live \ S /\ e \in Ids /\ live' = live \ S
      /\ refs \in [Ids -> Nat] /\ entry' = entry
  BY DEF Shares, Unleased, Inv, Shape
<1>1. /\ lease' \in [Clients -> Leases] /\ step' \in [Clients -> Steps]
      /\ lease'[c] = [id |-> e, mutable |-> m] /\ step'[c] = "holding"
      /\ \A d \in Clients \ {c} : lease'[d] = lease[d] /\ step'[d] = step[d]
      /\ Holders(e)' = Holders(e) \cup {c} /\ c \notin Holders(e)
      /\ \A x \in Ids \ {e} : Holders(x)' = Holders(x)
  BY <1>0, LeaseTaken DEF Shares
<1>2. /\ refs' \in [Ids -> Nat] /\ refs'[e] = refs[e] + 1
      /\ \A x \in Ids \ {e} : refs'[x] = refs[x]
  BY <1>0 DEF Shares
<1>3. Shape'
  BY <1>0, <1>1, <1>2, UnindexedExact DEF Inv, Shape, Shares
<1>4. LeaseInv'
  <2>1. \A d \in Clients : step'[d] = "idle" => lease'[d] = NoLease'
    BY <1>1 DEF Inv, LeaseInv, NoLease
  <2>2. \A d \in Clients : step'[d] # "idle" => lease'[d].id \in live'
    BY <1>0, <1>1, LeasedStays
  <2>3. \A x \in live' : refs'[x] = Cardinality(Holders(x)')
    <3>1. Cardinality(Holders(e)') = Cardinality(Holders(e)) + 1
      BY <1>0, <1>1, HoldersFinite, FS_AddElement
    <3> QED BY <3>1, <1>0, <1>1, <1>2 DEF Inv, LeaseInv
  <2>4. \A x \in live' : entry'[x].ephemeral => refs'[x] = 1
    BY <1>0, <1>2 DEF Inv, LeaseInv, Shares
  <2>5. MutableIsExclusive'
    <3>1. m => \A d \in Clients : lease[d].id # e
      BY <1>0, HoldersFinite DEF Shares, Holders
    <3>2. \A a, b \in Clients : a # b /\ lease[a].mutable /\ lease[b].mutable => lease[a].id # lease[b].id
      BY DEF Inv, LeaseInv, MutableIsExclusive
    <3> QED BY <3>1, <3>2, <1>1 DEF MutableIsExclusive
  <2> QED BY <2>1, <2>2, <2>3, <2>4, <2>5 DEF LeaseInv
<1>5. IndexExact'
  BY <1>0, UnindexedExact DEF IndexExact, Shares
<1> QED BY <1>3, <1>4, <1>5 DEF Inv

\* Making a private copy: it is new, so its client is its only holder.
LEMMA ClonesKeep ==
  ASSUME Inv, NEW S, NEW c \in Clients, NEW f, NEW new, NEW m \in BOOLEAN,
         Clones(S, c, f, new, m)
  PROVE  Inv'
<1>0. /\ S \in SUBSET Unleased /\ S \in SUBSET live /\ live \subseteq Ids
      /\ f \in Ids /\ f \notin live /\ live' = (live \ S) \cup {f}
      /\ refs \in [Ids -> Nat] /\ entry \in [Ids -> Entries] /\ new \in Entries
      /\ new.ephemeral /\ \A d \in Clients : lease[d].id # f
  BY DEF Clones, Unleased, FreshIds, Inv, Shape
<1>1. /\ lease' \in [Clients -> Leases] /\ step' \in [Clients -> Steps]
      /\ lease'[c] = [id |-> f, mutable |-> m] /\ step'[c] = "holding"
      /\ \A d \in Clients \ {c} : lease'[d] = lease[d] /\ step'[d] = step[d]
      /\ Holders(f)' = Holders(f) \cup {c}
      /\ \A x \in Ids \ {f} : Holders(x)' = Holders(x)
  BY <1>0, LeaseTaken DEF Clones
<1>2. /\ refs' \in [Ids -> Nat] /\ refs'[f] = 1 /\ \A x \in Ids \ {f} : refs'[x] = refs[x]
      /\ entry' \in [Ids -> Entries] /\ entry'[f] = new
      /\ \A x \in Ids \ {f} : entry'[x] = entry[x]
  BY <1>0 DEF Clones
<1>3. Shape'
  BY <1>0, <1>1, <1>2, UnindexedExact DEF Inv, Shape, Clones
<1>4. LeaseInv'
  <2>1. \A d \in Clients : step'[d] = "idle" => lease'[d] = NoLease'
    BY <1>1 DEF Inv, LeaseInv, NoLease
  <2>2. \A d \in Clients : step'[d] # "idle" => lease'[d].id \in live'
    BY <1>0, <1>1, LeasedStays
  <2>3. \A x \in live' : refs'[x] = Cardinality(Holders(x)')
    <3>1. Holders(f)' = {c}
      BY <1>0, <1>1 DEF Holders
    <3>2. Cardinality(Holders(f)') = 1
      BY <3>1, FS_Singleton
    <3> QED BY <3>2, <1>0, <1>1, <1>2, ZenonT(60) DEF Inv, LeaseInv
  <2>4. \A x \in live' : entry'[x].ephemeral => refs'[x] = 1
    BY <1>0, <1>2 DEF Inv, LeaseInv
  <2>5. MutableIsExclusive'
    BY <1>0, <1>1 DEF Inv, LeaseInv, MutableIsExclusive
  <2> QED BY <2>1, <2>2, <2>3, <2>4, <2>5 DEF LeaseInv
<1>5. IndexExact'
  <2>1. index' = Unindexed(S, index)
    BY DEF Clones
  <2>2. \A x \in live' : ~entry'[x].ephemeral => x \in live \ S /\ entry'[x] = entry[x]
    BY <1>0, <1>2
  <2>3. \A x \in live \ S : x \in live' /\ entry'[x] = entry[x]
    BY <1>0, <1>2
  <2> QED BY <1>0, <2>1, <2>2, <2>3, UnindexedExact DEF IndexExact
<1> QED BY <1>3, <1>4, <1>5 DEF Inv

\* Giving a lease back: a shared entry stays, a copy goes.
LEMMA ReleasedKeeps ==
  ASSUME Inv, NEW c \in Clients, step[c] # "idle", Released(lease[c].id), Forget(c)
  PROVE  Inv'
<1>e. PICK e : e = lease[c].id
  OBVIOUS
<1>0. /\ e \in live /\ live \subseteq Ids /\ c \in Holders(e)
      /\ refs \in [Ids -> Nat] /\ refs[e] # 0
      /\ lease \in [Clients -> Leases] /\ step \in [Clients -> Steps]
  <2>1. e \in live /\ c \in Holders(e)
    BY <1>e DEF Inv, LeaseInv, Holders
  <2> QED BY <2>1, HoldersFinite DEF Inv, Shape
<1>1. /\ lease' \in [Clients -> Leases] /\ step' \in [Clients -> Steps]
      /\ lease'[c] = NoLease /\ step'[c] = "idle"
      /\ \A d \in Clients \ {c} : lease'[d] = lease[d] /\ step'[d] = step[d]
  BY <1>0 DEF Forget, Leases, NoLease, Steps
<1>2. Holders(e)' = Holders(e) \ {c} /\ \A x \in Ids \ {e} : Holders(x)' = Holders(x)
  <2>1. lease'[c].id \notin Ids
    BY <1>1, CacheAssumption DEF NoLease
  <2>2. Holders(e)' = Holders(e) \ {c}
    BY <1>0, <1>1, <2>1 DEF Holders
  <2>3. ASSUME NEW x \in Ids \ {e} PROVE Holders(x)' = Holders(x)
    BY <1>e, <1>1, <2>1 DEF Holders
  <2> QED BY <2>2, <2>3
<1>3. Cardinality(Holders(e)') = Cardinality(Holders(e)) - 1
  BY <1>0, <1>2, HoldersFinite, FS_RemoveElement
<1>4. /\ refs' \in [Ids -> Nat] /\ refs'[e] = refs[e] - 1
      /\ \A x \in Ids \ {e} : refs'[x] = refs[x]
      /\ entry' = entry
  <2>1. refs' = [refs EXCEPT ![e] = @ - 1] /\ entry' = entry
    BY <1>0, <1>e DEF Released
  <2> QED BY <1>0, <2>1
<1> DEFINE S == IF entry[e].ephemeral THEN {e} ELSE {}
<1>5. live' = live \ S /\ index' = Unindexed(S, index)
  <2>1. CASE entry[e].ephemeral
    <3>1. refs[e] = 1
      BY <2>1, <1>0 DEF Inv, LeaseInv
    <3> QED BY <2>1, <3>1, <1>0, <1>e DEF Released, Removed
  <2>2. CASE ~entry[e].ephemeral
    <3>1. Unindexed({}, index) = index
      BY DEF Unindexed, Pointers, Inv, Shape
    <3> QED BY <2>2, <3>1, <1>0, <1>e DEF Released
  <2> QED BY <2>1, <2>2
<1>6. S \in SUBSET live /\ live' \subseteq Ids
  BY <1>0, <1>5
<1>7. Shape'
  <2>1. index' \in [Keys \X Scopes -> Ids \cup {NoId}]
    BY <1>5, <1>6, UnindexedExact
  <2> QED BY <1>1, <1>4, <1>6, <2>1 DEF Inv, Shape
<1>8. LeaseInv'
  <2>1. \A d \in Clients : step'[d] = "idle" => lease'[d] = NoLease'
    BY <1>1 DEF Inv, LeaseInv, NoLease
  <2>2. ASSUME NEW d \in Clients, step'[d] # "idle"
        PROVE  lease'[d].id \in live'
    <3>1. d # c /\ lease'[d] = lease[d] /\ step[d] # "idle" /\ lease[d].id \in live
      BY <2>2, <1>1 DEF Inv, LeaseInv
    <3>2. entry[e].ephemeral => lease[d].id # e
      <4>1. SUFFICES ASSUME entry[e].ephemeral, lease[d].id = e PROVE FALSE
        OBVIOUS
      <4>2. Cardinality(Holders(e)) = 1
        BY <1>0, <4>1 DEF Inv, LeaseInv
      <4>3. Holders(e)' = {}
        <5>1. IsFiniteSet(Holders(e)')
          BY <1>0, <1>2, HoldersFinite, FS_RemoveElement
        <5> QED BY <5>1, <4>2, <1>3, FS_EmptySet
      <4> QED BY <4>3, <4>1, <3>1, <1>2 DEF Holders
    <3> QED BY <3>1, <3>2, <1>5
  <2>3. \A x \in live' : refs'[x] = Cardinality(Holders(x)')
    BY <1>0, <1>2, <1>3, <1>4, <1>5 DEF Inv, LeaseInv
  <2>4. \A x \in live' : entry'[x].ephemeral => refs'[x] = 1
    BY <1>0, <1>4, <1>5 DEF Inv, LeaseInv
  <2>5. MutableIsExclusive'
    BY <1>1 DEF Inv, LeaseInv, MutableIsExclusive, NoLease
  <2> QED BY <2>1, <2>2, <2>3, <2>4, <2>5 DEF LeaseInv
<1>9. IndexExact'
  <2> HIDE DEF S
  <2> QED BY <1>4, <1>5, <1>6, UnindexedExact DEF IndexExact
<1> QED BY <1>7, <1>8, <1>9 DEF Inv

-----------------------------------------------------------------------------
(***************************************************************************)
(* Every operation has one of the forms.                                   *)
(***************************************************************************)

\* put() removes unleased entries only, and when it inserts, no other shared
\* entry has the same key and scope.
LEMMA PutForm ==
  ASSUME Inv, NEW k \in Keys, NEW s \in Scopes, NEW n \in Sizes,
         NEW gone \in SUBSET (stale \cap Unleased), PutAfter(gone, k, s, n)
  PROVE  (\E S : Drops(S)) \/ (\E S, e, new : Inserts(S, e, new))
<1> DEFINE old  == {e \in live \ gone : index[<<k, s>>] = e}
           rest == live \ (gone \cup old)
           new  == [key |-> k, scope |-> s, size |-> n, ephemeral |-> FALSE]
<1>0. /\ gone \in SUBSET Unleased /\ Unleased \subseteq live /\ live \subseteq Ids
      /\ refs \in [Ids -> Nat]
  BY DEF Unleased, Inv, Shape
<1>1. CASE \E e \in old : refs[e] > 0
  <2>1. Removed(gone) /\ UNCHANGED <<entry, refs>>
    BY <1>1 DEF PutAfter
  <2>2. Drops(gone)
    BY <1>0, <2>1 DEF Drops, Removed
  <2> QED BY <2>2
<1>2. CASE ~ \E e \in old : refs[e] > 0
  <2>0. old \subseteq Unleased
    BY <1>0, <1>2 DEF Unleased
  <2>1. CASE Evictions(rest, n) = {}
    <3>1. Removed(gone \cup old \cup (rest \cap Unleased)) /\ UNCHANGED <<entry, refs>>
      BY <1>2, <2>1 DEF PutAfter
    <3>2. Drops(gone \cup old \cup (rest \cap Unleased))
      BY <1>0, <2>0, <3>1 DEF Drops, Removed
    <3> QED BY <3>2
  <2>2. CASE Evictions(rest, n) # {}
    <3>1. PICK V \in Evictions(rest, n), e \in FreshIds :
            /\ Replaced(gone \cup old \cup V, e, new, 0)
            /\ index' = [Unindexed(gone \cup old \cup V, index) EXCEPT ![<<k, s>>] = e]
      BY <1>2, <2>2 DEF PutAfter
    <3> DEFINE S == gone \cup old \cup V
    <3>2. V \subseteq Unleased
      BY <3>1 DEF Evictions
    <3>3. S \subseteq Unleased
      BY <1>0, <2>0, <3>2
    <3>4. new \in Entries /\ ~new.ephemeral /\ new.key = k /\ new.scope = s
      BY DEF Entries
    <3>5. ASSUME NEW x \in live \ S, ~entry[x].ephemeral
          PROVE  <<entry[x].key, entry[x].scope>> # <<new.key, new.scope>>
      <4>1. index[<<entry[x].key, entry[x].scope>>] = x
        BY <3>5 DEF Inv, IndexExact
      <4>2. index[<<k, s>>] # x
        BY <3>5
      <4> QED BY <4>1, <4>2, <3>4
    <3>6. Inserts(S, e, new)
      <4> HIDE DEF new, S
      <4>1. Replaced(S, e, new, 0) /\ index' = [Unindexed(S, index) EXCEPT ![<<k, s>>] = e]
        BY <3>1 DEF S, new
      <4> QED BY <3>1, <3>3, <3>4, <3>5, <4>1 DEF Inserts, Replaced
    <3> QED BY <3>6
  <2> QED BY <2>1, <2>2
<1> QED BY <1>1, <1>2

\* What put() does keeps the invariant.
LEMMA PutKeeps ==
  ASSUME Inv, NEW k \in Keys, NEW s \in Scopes, NEW n \in Sizes,
         NEW gone \in SUBSET (stale \cap Unleased), PutAfter(gone, k, s, n), SameLeases
  PROVE  Inv'
BY PutForm, DropsKeep, InsertsKeep

\* acquire() misses, shares, copies, or raises after an eviction.
LEMMA AcquireKeeps ==
  ASSUME Inv, NEW c \in Clients, NEW k \in Keys, NEW s \in Scopes, NEW m \in BOOLEAN,
         Acquire(c, k, s, m)
  PROVE  Inv'
<1>1. PICK gone \in SUBSET (stale \cap Unleased) :
        LET L == live \ gone IN
        \/ /\ Candidates(L, k, s) = {}
           /\ Removed(gone)
           /\ UNCHANGED <<entry, refs, lease, step>>
        \/ \E e \in Narrowest(Candidates(L, k, s)) :
             IF ~CopyOnWrite(e, m)
               THEN /\ live' = L
                    /\ index' = Unindexed(gone, index)
                    /\ bytesUsed' = bytesUsed - Bytes(gone)
                    /\ refs' = [refs EXCEPT ![e] = @ + 1]
                    /\ stale' = stale \ (gone \cup {e})
                    /\ Lease(c, e, m)
                    /\ UNCHANGED entry
             ELSE IF Evictions(L, entry[e].size) = {}
               THEN Removed(gone \cup Unleased) /\ UNCHANGED <<entry, refs, lease, step>>
             ELSE \E V \in Evictions(L, entry[e].size), f \in FreshIds :
                    /\ Replaced(gone \cup V, f,
                         [key |-> k, scope |-> s, size |-> entry[e].size,
                          ephemeral |-> TRUE], 1)
                    /\ index' = Unindexed(gone \cup V, index)
                    /\ Lease(c, f, m)
  BY DEF Acquire
<1> DEFINE L == live \ gone
<1>0. /\ gone \in SUBSET Unleased /\ Unleased \subseteq live /\ live \subseteq Ids
      /\ refs \in [Ids -> Nat] /\ entry \in [Ids -> Entries]
      /\ lease \in [Clients -> Leases] /\ step \in [Clients -> Steps] /\ step[c] = "idle"
  BY DEF Unleased, Inv, Shape, Acquire
<1>2. CASE Removed(gone) /\ UNCHANGED <<entry, refs, lease, step>>
  <2>1. Drops(gone) /\ SameLeases
    BY <1>0, <1>2 DEF Drops, Removed, SameLeases
  <2> QED BY <2>1, DropsKeep
<1>3. ASSUME NEW e \in Narrowest(Candidates(L, k, s)), ~CopyOnWrite(e, m),
             live' = L, index' = Unindexed(gone, index),
             refs' = [refs EXCEPT ![e] = @ + 1], Lease(c, e, m), entry' = entry
      PROVE  Inv'
  <2>1. e \in live \ gone /\ ~entry[e].ephemeral
    BY DEF Narrowest, Candidates
  <2>2. m => refs[e] = 0
    BY <1>0, <1>3, <2>1 DEF CopyOnWrite
  <2>3. Shares(gone, c, e, m)
    BY <1>0, <1>3, <2>1, <2>2 DEF Shares
  <2> QED BY <2>3, SharesKeep
<1>4. CASE Removed(gone \cup Unleased) /\ UNCHANGED <<entry, refs, lease, step>>
  <2>1. Drops(gone \cup Unleased) /\ SameLeases
    BY <1>0, <1>4 DEF Drops, Removed, SameLeases
  <2> QED BY <2>1, DropsKeep
<1>5. ASSUME NEW e \in Narrowest(Candidates(L, k, s)),
             NEW V \in Evictions(L, entry[e].size), NEW f \in FreshIds,
             Replaced(gone \cup V, f, [key |-> k, scope |-> s, size |-> entry[e].size,
                                       ephemeral |-> TRUE], 1),
             index' = Unindexed(gone \cup V, index), Lease(c, f, m)
      PROVE  Inv'
  <2> DEFINE new == [key |-> k, scope |-> s, size |-> entry[e].size, ephemeral |-> TRUE]
  <2>1. e \in Ids
    BY <1>0 DEF Narrowest, Candidates
  <2>2. new \in Entries /\ new.ephemeral
    BY <1>0, <2>1 DEF Entries
  <2>3. gone \cup V \subseteq Unleased
    BY <1>0 DEF Evictions
  <2>4. Clones(gone \cup V, c, f, new, m)
    <3>1. Replaced(gone \cup V, f, new, 1)
      BY <1>5
    <3> HIDE DEF new
    <3> QED BY <1>0, <1>5, <2>2, <2>3, <3>1 DEF Clones, Replaced
  <2> QED BY <2>4, ClonesKeep
<1> QED BY <1>1, <1>2, <1>3, <1>4, <1>5

-----------------------------------------------------------------------------

\* An empty cache satisfies the invariant.
LEMMA InitInv == CacheInit => Inv
<1> SUFFICES ASSUME CacheInit PROVE Inv
  OBVIOUS
<1>1. AnyEntry \in Entries
  BY CacheAssumption DEF AnyEntry, Entries
<1>2. Shape
  BY <1>1 DEF CacheInit, Shape, NoLease, Leases, Steps
<1>3. LeaseInv
  BY DEF CacheInit, LeaseInv, MutableIsExclusive, NoLease
<1>4. IndexExact
  BY DEF CacheInit, IndexExact
<1> QED BY <1>2, <1>3, <1>4 DEF Inv

\* Every step keeps the invariant.
LEMMA NextInv == Inv /\ [CacheNext]_sequenceCacheVars => Inv'
<1> SUFFICES ASSUME Inv, [CacheNext]_sequenceCacheVars PROVE Inv'
  OBVIOUS
<1>0. /\ Unleased \subseteq live /\ step \in [Clients -> Steps]
      /\ index \in [Keys \X Scopes -> Ids \cup {NoId}]
  BY DEF Unleased, Inv, Shape
<1>1. ASSUME NEW k \in Keys, NEW s \in Scopes, NEW n \in Sizes, Put(k, s, n)
      PROVE  Inv'
  <2>1. SameLeases
    BY <1>0, <1>1 DEF Put, SameLeases
  <2> QED BY <1>1, <2>1, PutKeeps DEF Put
<1>2. ASSUME NEW c \in Clients, NEW k \in Keys, NEW s \in Scopes, NEW m \in BOOLEAN,
             Acquire(c, k, s, m)
      PROVE  Inv'
  BY <1>2, AcquireKeeps
<1>3. ASSUME NEW c \in Clients, ReleaseLease(c) \/ CommitRelease(c)
      PROVE  Inv'
  BY <1>3, ReleasedKeeps DEF ReleaseLease, CommitRelease
<1>4. ASSUME NEW c \in Clients, CommitCheck(c)
      PROVE  Inv'
  <2>1. SameLeases
    BY <1>0, <1>4 DEF CommitCheck, SameLeases, Steps
  <2>2. Drops({})
    BY <1>0, <1>4 DEF CommitCheck, cacheVars, Drops, Unindexed, Pointers
  <2> QED BY <2>1, <2>2, DropsKeep
<1>5. ASSUME NEW c \in Clients, NEW k \in Keys, NEW s \in Scopes, NEW n \in Sizes,
             CommitPut(c, k, s, n)
      PROVE  Inv'
  <2>1. SameLeases
    BY <1>0, <1>5 DEF CommitPut, SameLeases, Steps
  <2> QED BY <1>5, <2>1, PutKeeps DEF CommitPut
<1>6. ASSUME NEW t, NEW kinds, Invalidate(t, kinds)
      PROVE  Inv'
  <2>1. SameLeases
    BY <1>0, <1>6 DEF Invalidate, SameLeases
  <2>2. Drops({e \in Unleased : entry[e].scope.tenant = t /\ KindOf[entry[e].key] \in kinds})
    BY <1>6 DEF Invalidate, Removed, Drops
  <2> QED BY <2>1, <2>2, DropsKeep
<1>7. CASE Prune
  <2>1. SameLeases
    BY <1>0, <1>7 DEF Prune, SameLeases
  <2>2. Drops(stale \cap Unleased)
    BY <1>7 DEF Prune, Removed, Drops
  <2> QED BY <2>1, <2>2, DropsKeep
<1>8. CASE UNCHANGED <<live, entry, refs, index, bytesUsed, lease, step>>
  <2>1. SameLeases
    BY <1>0, <1>8 DEF SameLeases
  <2>2. Drops({})
    BY <1>0, <1>8 DEF Drops, Unindexed, Pointers
  <2> QED BY <2>1, <2>2, DropsKeep
<1>9. CASE UNCHANGED sequenceCacheVars
  BY <1>8, <1>9 DEF sequenceCacheVars, cacheVars
<1> QED BY <1>1, <1>2, <1>3, <1>4, <1>5, <1>6, <1>7, <1>8, <1>9 DEF CacheNext, TtlPasses

\* The invariant holds in every state.
LEMMA AlwaysInv == CacheSpec => []Inv
<1> QED BY InitInv, NextInv, PTL DEF CacheSpec

\* What the invariant says in the words of the properties.
LEMMA InvSays == Inv => LeaseProtects /\ MutableIsExclusive /\ IndexExact /\ ClonesAreLeased
<1> SUFFICES ASSUME Inv
             PROVE  LeaseProtects /\ MutableIsExclusive /\ IndexExact /\ ClonesAreLeased
  OBVIOUS
<1>1. ASSUME NEW c \in Clients, step[c] # "idle" PROVE Valid(c)
  <2>1. lease[c].id \in live /\ c \in Holders(lease[c].id)
    BY <1>1 DEF Inv, LeaseInv, Holders
  <2>2. refs[lease[c].id] # 0 /\ refs[lease[c].id] \in Nat
    BY <2>1, HoldersFinite DEF Inv, Shape
  <2> QED BY <2>1, <2>2 DEF Valid
<1> QED BY <1>1 DEF LeaseProtects, ClonesAreLeased, Inv, LeaseInv

\* In every reachable state of the cache, for any number of clients and any
\* bounds: a client that holds a lease can read through it, whatever put(),
\* prune(), invalidate(), evictions and the sections of commit_session did
\* meanwhile, and each reference count counts the leases given out.
THEOREM LeaseSafety == CacheSpec => []LeaseProtects
BY AlwaysInv, InvSays, PTL

\* acquire() never gives two clients a mutable lease of the same entry.
THEOREM MutableSafety == CacheSpec => []MutableIsExclusive
BY AlwaysInv, InvSays, PTL

\* _index and _entries agree after every operation, those that raise after
\* they evicted something included.
THEOREM IndexSafety == CacheSpec => []IndexExact
BY AlwaysInv, InvSays, PTL

\* Every copy-on-write clone in _entries has exactly one lease.
THEOREM CloneSafety == CacheSpec => []ClonesAreLeased
BY AlwaysInv, InvSays, PTL

\* For any number of clients: no two mutable leases are of one entry, and the
\* copy acquire() makes for a second one is leased to nobody else.  Immutable
\* leases may share an entry with one earlier mutable lease.
THEOREM CopySafety == CacheSpec => []CopiesArePrivate
BY MutableSafety, CloneSafety, PTL DEF CopiesArePrivate
-----------------------------------------------------------------------------
(***************************************************************************)
(* Sums of sizes.  BytesOf(f, D) is a fold of the community modules, and   *)
(* the fold takes the elements in the order CHOOSE gives: the sum is h[D]  *)
(* for the one function h on the subsets of D that satisfies the fold's    *)
(* equation.  Such an h exists, by induction on the number of elements,    *)
(* and its values do not depend on the order.                              *)
(***************************************************************************)

\* Bytes, with the table of the entries as a parameter.
Size(f, e) == f[e].size

BytesOf(f, D) == MapThenSumSet(LAMBDA e : Size(f, e), D)

SumStep(h, f, s) ==
  IF s = {} THEN 0 ELSE Size(f, CHOOSE x \in s : TRUE) + h[s \ {CHOOSE x \in s : TRUE}]

Sums(h, f, D) == h = [s \in SUBSET D |-> SumStep(h, f, s)]

NatSums(h, f, D) == Sums(h, f, D) /\ h \in [SUBSET D -> Nat]

\* The sum as the fold defines it.
LEMMA BytesOfAreSums ==
  ASSUME NEW D, NEW f PROVE BytesOf(f, D) = (CHOOSE h : Sums(h, f, D))[D]
BY DEF BytesOf, MapThenSumSet, MapThenFoldSet, Sums, SumStep

\* Every nonempty set of naturals has a least element.
LEMMA LeastIn ==
  ASSUME NEW B \in SUBSET Nat, B # {}
  PROVE  \E n \in B : \A m \in B : ~(m < n)
<1>1. \E n \in B : \A m \in B : ~(<<m, n>> \in OpToRel(<, Nat))
  BY NatLessThanWellFounded, WFMin, Zenon
<1>2. \A m, n \in Nat : m < n => <<m, n>> \in OpToRel(<, Nat)
  BY DEF OpToRel
<1> QED
  BY <1>1, <1>2, Zenon

\* Induction over the subsets of a finite set, with a set in the place of a
\* predicate.
LEMMA SubsetInduction ==
  ASSUME NEW D, IsFiniteSet(D), NEW F,
         \A s \in SUBSET D : (\A x \in s : s \ {x} \in F) => s \in F
  PROVE  D \in F
<1> DEFINE B == {n \in Nat : \E s \in SUBSET D : s \notin F /\ Cardinality(s) = n}
<1>1. SUFFICES ASSUME D \notin F PROVE FALSE
  OBVIOUS
<1>2. Cardinality(D) \in B
  BY <1>1, FS_CardinalityType
<1>3. PICK n \in B : \A m \in B : ~(m < n)
  BY <1>2, LeastIn
<1>4. PICK s \in SUBSET D : s \notin F /\ Cardinality(s) = n
  BY <1>3
<1>5. PICK x \in s : s \ {x} \notin F
  BY <1>4
<1>6. IsFiniteSet(s) /\ Cardinality(s \ {x}) = n - 1 /\ Cardinality(s \ {x}) \in Nat
  BY <1>4, FS_Subset, FS_RemoveElement, FS_CardinalityType
<1>7. n - 1 \in B /\ n - 1 < n
  BY <1>3, <1>5, <1>6
<1> QED
  BY <1>3, <1>7

\* What CHOOSE takes from a nonempty set is in it.
LEMMA Chosen == ASSUME NEW s, s # {} PROVE (CHOOSE x \in s : TRUE) \in s
OBVIOUS

\* A function that satisfies the equation of the fold exists.
LEMMA SumsExist ==
  ASSUME NEW D, IsFiniteSet(D), NEW f, \A x \in D : Size(f, x) \in Nat
  PROVE  \E h : NatSums(h, f, D)
<1> DEFINE Upto(n) == \E h \in [SUBSET D -> Nat] :
                        \A s \in SUBSET D : Cardinality(s) <= n => h[s] = SumStep(h, f, s)
           B == {n \in Nat : ~Upto(n)}
<1>0. \A s \in SUBSET D : IsFiniteSet(s) /\ Cardinality(s) \in Nat
  BY FS_Subset, FS_CardinalityType
<1>1. Upto(0)
  <2>1. [s \in SUBSET D |-> 0] \in [SUBSET D -> Nat]
    OBVIOUS
  <2>2. \A s \in SUBSET D : Cardinality(s) <= 0 => s = {}
    BY <1>0, FS_EmptySet
  <2> QED
    BY <2>1, <2>2 DEF SumStep
<1>2. ASSUME NEW n \in Nat, Upto(n) PROVE Upto(n + 1)
  <2>1. PICK h \in [SUBSET D -> Nat] :
          \A s \in SUBSET D : Cardinality(s) <= n => h[s] = SumStep(h, f, s)
    BY <1>2
  <2> DEFINE g == [s \in SUBSET D |-> SumStep(h, f, s)]
  <2>2. \A s \in SUBSET D : s # {} => (CHOOSE x \in s : TRUE) \in s
    BY Chosen
  <2>3. g \in [SUBSET D -> Nat]
    BY <2>2 DEF SumStep
  <2>4. ASSUME NEW s \in SUBSET D, Cardinality(s) <= n + 1 PROVE g[s] = SumStep(g, f, s)
    <3>1. CASE s = {}
      BY <3>1 DEF SumStep
    <3>2. CASE s # {}
      <4>1. PICK c \in s : c = (CHOOSE x \in s : TRUE)
        BY <2>2, <3>2
      <4>2. IsFiniteSet(s) /\ Cardinality(s \ {c}) = Cardinality(s) - 1
        BY <1>0, FS_RemoveElement
      <4>3. s \ {c} \in SUBSET D /\ Cardinality(s \ {c}) <= n
        BY <1>0, <2>4, <4>2
      <4>4. g[s \ {c}] = h[s \ {c}]
        BY <2>1, <4>3
      <4>5. g[s] = Size(f, c) + h[s \ {c}] /\ SumStep(g, f, s) = Size(f, c) + g[s \ {c}]
        BY <3>2, <4>1 DEF SumStep
      <4> QED
        BY <4>4, <4>5
    <3> QED
      BY <3>1, <3>2
  <2> HIDE DEF g
  <2> QED
    BY <2>3, <2>4
<1> HIDE DEF Upto
<1>3. B = {}
  <2>1. SUFFICES ASSUME B # {} PROVE FALSE
    OBVIOUS
  <2>2. PICK n \in B : \A m \in B : ~(m < n)
    BY <2>1, LeastIn
  <2>3. n # 0 /\ n - 1 \in Nat /\ n - 1 + 1 = n
    BY <1>1, <2>2
  <2>4. n - 1 \in B
    BY <1>2, <2>2, <2>3
  <2> QED
    BY <2>2, <2>3, <2>4
<1>4. Upto(Cardinality(D))
  BY <1>0, <1>3
<1>5. PICK h \in [SUBSET D -> Nat] :
        \A s \in SUBSET D : Cardinality(s) <= Cardinality(D) => h[s] = SumStep(h, f, s)
  BY <1>4 DEF Upto
<1>6. \A s \in SUBSET D : Cardinality(s) <= Cardinality(D)
  BY FS_Subset
<1> QED
  BY <1>5, <1>6 DEF Sums, NatSums

\* The sum over a set does not depend on what it is a part of.
LEMMA SumsAgree ==
  ASSUME NEW D, IsFiniteSet(D), NEW E \in SUBSET D, NEW f, NEW h, NEW g,
         Sums(h, f, D), Sums(g, f, E)
  PROVE  h[E] = g[E]
<1> DEFINE F == {s \in SUBSET E : h[s] = g[s]}
<1>1. ASSUME NEW s \in SUBSET E, \A x \in s : s \ {x} \in F PROVE s \in F
  <2>1. h[s] = SumStep(h, f, s) /\ g[s] = SumStep(g, f, s)
    BY DEF Sums
  <2>2. CASE s = {}
    BY <2>1, <2>2 DEF SumStep
  <2>3. CASE s # {}
    BY <1>1, <2>1, <2>3, Chosen DEF SumStep
  <2> QED
    BY <2>2, <2>3
<1>2. IsFiniteSet(E)
  BY FS_Subset
<1> HIDE DEF F
<1>3. E \in F
  BY <1>1, <1>2, SubsetInduction
<1> QED
  BY <1>3 DEF F

\* Any element may be taken first.
LEMMA SumsOrder ==
  ASSUME NEW D, IsFiniteSet(D), NEW f, \A x \in D : Size(f, x) \in Nat,
         NEW h, NatSums(h, f, D)
  PROVE  \A x \in D : h[D] = Size(f, x) + h[D \ {x}]
<1>0. h \in [SUBSET D -> Nat] /\ Sums(h, f, D)
  BY DEF NatSums
<1> DEFINE F == {s \in SUBSET D : \A y \in s : h[s] = Size(f, y) + h[s \ {y}]}
<1>1. ASSUME NEW s \in SUBSET D, \A y \in s : s \ {y} \in F, NEW y \in s
      PROVE  h[s] = Size(f, y) + h[s \ {y}]
  <2> DEFINE c == CHOOSE z \in s : TRUE
  <2>1. c \in s /\ h[s] = Size(f, c) + h[s \ {c}]
    BY <1>0, Chosen DEF Sums, SumStep
  <2> HIDE DEF c
  <2>2. CASE y = c
    BY <2>1, <2>2
  <2>3. CASE y # c
    <3>1. h[s \ {c}] = Size(f, y) + h[(s \ {c}) \ {y}]
      BY <1>1, <2>1, <2>3
    <3>2. h[s \ {y}] = Size(f, c) + h[(s \ {y}) \ {c}]
      BY <1>1, <2>1, <2>3
    <3>3. (s \ {y}) \ {c} = (s \ {c}) \ {y}
      OBVIOUS
    <3>4. PICK k \in Nat : k = h[(s \ {c}) \ {y}]
      BY <1>0
    <3>5. Size(f, y) \in Nat /\ Size(f, c) \in Nat
      BY <2>1
    <3>6. h[s] = Size(f, c) + (Size(f, y) + k) /\ h[s \ {y}] = Size(f, c) + k
      BY <2>1, <3>1, <3>2, <3>3, <3>4
    <3> QED
      BY <3>4, <3>5, <3>6
  <2> QED
    BY <2>2, <2>3
<1>2. \A s \in SUBSET D : (\A y \in s : s \ {y} \in F) => s \in F
  BY <1>1
<1> HIDE DEF F
<1>3. D \in F
  BY <1>2, SubsetInduction
<1> QED
  BY <1>3 DEF F

\* The bytes of a set are a number, and each member adds its own.
LEMMA BytesAdd ==
  ASSUME NEW D, IsFiniteSet(D), NEW f, \A x \in D : Size(f, x) \in Nat
  PROVE  /\ BytesOf(f, D) \in Nat
         /\ \A x \in D : BytesOf(f, D) = Size(f, x) + BytesOf(f, D \ {x})
<1>1. PICK h : NatSums(h, f, D)
  BY SumsExist
<1>2. ASSUME NEW E \in SUBSET D PROVE BytesOf(f, E) = h[E]
  <2>1. IsFiniteSet(E)
    BY FS_Subset
  <2>2. \E g : Sums(g, f, E)
    BY <2>1, SumsExist DEF NatSums
  <2>3. Sums(CHOOSE g : Sums(g, f, E), f, E)
    BY <2>2
  <2> QED
    BY <1>1, <2>3, SumsAgree, BytesOfAreSums DEF NatSums
<1>3. \A x \in D : h[D] = Size(f, x) + h[D \ {x}]
  BY <1>1, SumsOrder
<1>4. ASSUME NEW y \in D PROVE BytesOf(f, D) = Size(f, y) + BytesOf(f, D \ {y})
  BY <1>2, <1>3
<1> QED
  BY <1>1, <1>2, <1>4 DEF NatSums

\* The empty set has no bytes.
LEMMA BytesOfNone == ASSUME NEW f PROVE BytesOf(f, {}) = 0
<1>1. PICK h : NatSums(h, f, {})
  BY SumsExist, FS_EmptySet
<1>2. Sums(CHOOSE g : Sums(g, f, {}), f, {})
  BY <1>1 DEF NatSums
<1> QED
  BY <1>2, BytesOfAreSums DEF Sums, SumStep

\* Two tables with the same sizes give the same sum.
LEMMA BytesSame ==
  ASSUME NEW D, IsFiniteSet(D), NEW f, NEW g, \A x \in D : Size(f, x) \in Nat,
         \A x \in D : Size(g, x) = Size(f, x)
  PROVE  BytesOf(g, D) = BytesOf(f, D)
<1> DEFINE F == {s \in SUBSET D : BytesOf(g, s) = BytesOf(f, s)}
<1>1. ASSUME NEW s \in SUBSET D, \A x \in s : s \ {x} \in F
      PROVE  BytesOf(g, s) = BytesOf(f, s)
  <2>1. IsFiniteSet(s)
    BY FS_Subset
  <2>2. CASE s = {}
    BY <2>2, BytesOfNone
  <2>3. CASE s # {}
    <3>1. PICK x \in s : TRUE
      BY <2>3
    <3>2. /\ BytesOf(f, s) = Size(f, x) + BytesOf(f, s \ {x})
          /\ BytesOf(g, s) = Size(g, x) + BytesOf(g, s \ {x})
      BY <2>1, BytesAdd
    <3>3. BytesOf(g, s \ {x}) = BytesOf(f, s \ {x}) /\ Size(g, x) = Size(f, x)
      BY <1>1
    <3> QED
      BY <3>2, <3>3
  <2> QED
    BY <2>2, <2>3
<1>2. \A s \in SUBSET D : (\A x \in s : s \ {x} \in F) => s \in F
  BY <1>1
<1> HIDE DEF F
<1>3. D \in F
  BY <1>2, SubsetInduction
<1> QED
  BY <1>3 DEF F

\* The bytes of disjoint sets add up.
LEMMA BytesJoin ==
  ASSUME NEW D, NEW R, IsFiniteSet(D \cup R), NEW f, \A x \in D \cup R : Size(f, x) \in Nat,
         D \cap R = {}
  PROVE  BytesOf(f, D \cup R) = BytesOf(f, D) + BytesOf(f, R)
<1> DEFINE F == {s \in SUBSET D : BytesOf(f, s \cup R) = BytesOf(f, s) + BytesOf(f, R)}
<1>1. ASSUME NEW E \in SUBSET (D \cup R)
      PROVE  /\ IsFiniteSet(E) /\ BytesOf(f, E) \in Nat
             /\ \A y \in E : BytesOf(f, E) = Size(f, y) + BytesOf(f, E \ {y})
  <2>1. IsFiniteSet(E) /\ \A y \in E : Size(f, y) \in Nat
    BY FS_Subset
  <2> QED
    BY <2>1, BytesAdd
<1>2. ASSUME NEW s \in SUBSET D, \A x \in s : s \ {x} \in F
      PROVE  BytesOf(f, s \cup R) = BytesOf(f, s) + BytesOf(f, R)
  <2>1. CASE s = {}
    <3>1. s \cup R = R
      BY <2>1
    <3>2. PICK v \in Nat : v = BytesOf(f, R)
      BY <1>1
    <3>3. BytesOf(f, s) = 0 /\ BytesOf(f, s \cup R) = v
      BY <2>1, <3>1, <3>2, BytesOfNone
    <3> QED
      BY <3>2, <3>3
  <2>2. CASE s # {}
    <3>1. PICK x \in s : TRUE
      BY <2>2
    <3>2. (s \cup R) \ {x} = (s \ {x}) \cup R
      BY <3>1
    <3>3. BytesOf(f, s \cup R) = Size(f, x) + BytesOf(f, (s \ {x}) \cup R)
      BY <1>1, <3>2
    <3>4. BytesOf(f, s) = Size(f, x) + BytesOf(f, s \ {x})
      BY <1>1
    <3>5. BytesOf(f, (s \ {x}) \cup R) = BytesOf(f, s \ {x}) + BytesOf(f, R)
      BY <1>2
    <3>6. PICK u, v, w \in Nat :
            u = BytesOf(f, s \ {x}) /\ v = BytesOf(f, R) /\ w = Size(f, x)
      BY <1>1
    <3>7. BytesOf(f, s \cup R) = w + (u + v) /\ BytesOf(f, s) = w + u
      BY <3>3, <3>4, <3>5, <3>6
    <3> QED
      BY <3>6, <3>7
  <2> QED
    BY <2>1, <2>2
<1>3. \A s \in SUBSET D : (\A y \in s : s \ {y} \in F) => s \in F
  BY <1>2
<1> HIDE DEF F
<1>4. IsFiniteSet(D)
  BY <1>1
<1>5. D \in F
  BY <1>3, <1>4, SubsetInduction
<1> QED
  BY <1>5 DEF F

-----------------------------------------------------------------------------
(***************************************************************************)
(* The byte count and the bounds.                                          *)
(***************************************************************************)

\* The counts are exact and bounded, as long as there are finitely many
\* entries to count.
BytesKept ==
  /\ IsFiniteSet(live) /\ stale \subseteq live /\ bytesUsed \in Nat
  /\ bytesUsed = BytesOf(entry, live) /\ bytesUsed <= ByteBudget
  /\ Cardinality(live) <= MaxEntries

\* The entries of S go, and their bytes with them.
FreesEntries(S) ==
  /\ S \subseteq live /\ live' = live \ S /\ entry' = entry
  /\ bytesUsed' = bytesUsed - Bytes(S)
  /\ stale' \subseteq live'

\* The entries of S make room for e.
Fills(S, e, new) ==
  /\ S \subseteq live /\ e \in Ids \ live /\ new \in Entries
  /\ Fits(live \ S, new.size)
  /\ live' = (live \ S) \cup {e} /\ entry' = [entry EXCEPT ![e] = new]
  /\ bytesUsed' = (bytesUsed - Bytes(S)) + new.size
  /\ stale' \subseteq live'

\* Payload lengths are numbers.
LEMMA SizesAreNumbers ==
  ASSUME NEW f, NEW S, f \in [Ids -> Entries], S \subseteq Ids
  PROVE  \A x \in S : Size(f, x) \in Nat
BY CacheAssumption DEF Size, Entries

\* What is left when the entries of S are gone.
LEMMA BytesLeft ==
  ASSUME Inv, BytesKept, NEW S \in SUBSET live
  PROVE  /\ IsFiniteSet(live \ S) /\ Cardinality(live \ S) <= MaxEntries
         /\ BytesOf(entry, live \ S) \in Nat
         /\ bytesUsed - Bytes(S) = BytesOf(entry, live \ S)
         /\ BytesOf(entry, live \ S) <= ByteBudget
<1>1. IsFiniteSet(live) /\ live \subseteq Ids /\ entry \in [Ids -> Entries]
  BY DEF Inv, Shape, BytesKept
<1>2. \A x \in live : Size(entry, x) \in Nat
  BY <1>1, SizesAreNumbers
<1>3. IsFiniteSet(S) /\ IsFiniteSet(live \ S) /\ Cardinality(live \ S) <= Cardinality(live)
  BY <1>1, FS_Subset
<1>4. Cardinality(live \ S) <= MaxEntries
  BY <1>1, <1>3, CacheAssumption, FS_CardinalityType DEF BytesKept
<1>5. PICK u, v \in Nat : u = BytesOf(entry, S) /\ v = BytesOf(entry, live \ S)
  BY <1>2, <1>3, BytesAdd
<1>6. S \cup (live \ S) = live /\ S \cap (live \ S) = {}
  OBVIOUS
<1>7. BytesOf(entry, live) = u + v
  BY <1>1, <1>2, <1>5, <1>6, BytesJoin
<1>8. Bytes(S) = u
  BY <1>5 DEF Bytes, BytesOf, Size
<1>9. bytesUsed = u + v /\ u + v <= ByteBudget
  BY <1>7 DEF BytesKept
<1> QED
  BY <1>3, <1>4, <1>5, <1>8, <1>9, CacheAssumption

\* Removing entries keeps the counts.
LEMMA FreesKeep ==
  ASSUME Inv, BytesKept, NEW S, FreesEntries(S)
  PROVE  BytesKept'
<1>1. S \in SUBSET live
  BY DEF FreesEntries
<1>2. live' = live \ S /\ entry' = entry /\ stale' \subseteq live' /\ bytesUsed' = bytesUsed - Bytes(S)
  BY DEF FreesEntries
<1> QED
  BY <1>1, <1>2, BytesLeft DEF BytesKept

\* So does inserting an entry where it fits.
LEMMA FillsKeep ==
  ASSUME Inv, BytesKept, NEW S, NEW e, NEW new, Fills(S, e, new)
  PROVE  BytesKept'
<1>0. /\ S \in SUBSET live /\ live' = (live \ S) \cup {e} /\ stale' \subseteq live'
      /\ bytesUsed' = (bytesUsed - Bytes(S)) + new.size
      /\ e \in Ids /\ e \notin live \ S /\ new \in Entries /\ Fits(live \ S, new.size)
      /\ entry' = [entry EXCEPT ![e] = new]
      /\ live \subseteq Ids /\ entry \in [Ids -> Entries]
  BY DEF Fills, Inv, Shape
<1> DEFINE L == live \ S
<1>1. PICK u \in Nat : u = BytesOf(entry, L)
  BY <1>0, BytesLeft
<1>2. PICK g : g = entry'
  OBVIOUS
<1>3. g[e] = new /\ g \in [Ids -> Entries] /\ \A x \in L : g[x] = entry[x]
  BY <1>0, <1>2
<1>4. PICK n \in Nat : n = new.size /\ n = Size(g, e)
  BY <1>0, <1>3, CacheAssumption DEF Size, Entries
<1>5. IsFiniteSet(L) /\ bytesUsed' = u + n /\ Cardinality(L) < MaxEntries
  BY <1>0, <1>1, <1>4, BytesLeft DEF Fits
<1>6. u + n <= ByteBudget
  <2>1. Bytes(L) = u
    BY <1>1 DEF Bytes, BytesOf, Size
  <2> QED
    BY <1>0, <1>4, <2>1 DEF Fits
<1>7. BytesOf(g, L) = u
  <2>1. (\A x \in L : Size(entry, x) \in Nat) /\ \A x \in L : Size(g, x) = Size(entry, x)
    BY <1>0, <1>3, SizesAreNumbers DEF Size
  <2> QED
    BY <1>1, <1>5, <2>1, BytesSame
<1>8. /\ IsFiniteSet(L \cup {e}) /\ Cardinality(L \cup {e}) = Cardinality(L) + 1
      /\ Cardinality(L) \in Nat
  BY <1>0, <1>5, FS_AddElement, FS_CardinalityType
<1>9. BytesOf(g, L \cup {e}) = n + u
  <2>1. \A x \in L \cup {e} : Size(g, x) \in Nat
    BY <1>0, <1>3, SizesAreNumbers
  <2>2. (L \cup {e}) \ {e} = L
    BY <1>0
  <2> QED
    BY <1>4, <1>7, <1>8, <2>1, <2>2, BytesAdd
<1>10. live' = L \cup {e}
  BY <1>0
<1> HIDE DEF L
<1>11. bytesUsed' = BytesOf(entry', live') /\ bytesUsed' <= ByteBudget /\ bytesUsed' \in Nat
  BY <1>2, <1>5, <1>6, <1>9, <1>10
<1>12. IsFiniteSet(live') /\ Cardinality(live') <= MaxEntries
  BY <1>5, <1>8, <1>10, CacheAssumption
<1> QED
  BY <1>0, <1>11, <1>12 DEF BytesKept

\* put() frees entries, or fills the room it has made.
LEMMA PutCounts ==
  ASSUME Inv, BytesKept, NEW k \in Keys, NEW s \in Scopes, NEW n \in Sizes,
         NEW gone \in SUBSET (stale \cap Unleased), PutAfter(gone, k, s, n)
  PROVE  BytesKept'
<1> DEFINE old  == {e \in live \ gone : index[<<k, s>>] = e}
           rest == live \ (gone \cup old)
           new  == [key |-> k, scope |-> s, size |-> n, ephemeral |-> FALSE]
<1>0. gone \subseteq live /\ Unleased \subseteq live /\ stale \subseteq live /\ live \subseteq Ids
  BY DEF Unleased, BytesKept, Inv, Shape
<1>1. CASE \E e \in old : refs[e] > 0
  <2>1. Removed(gone) /\ entry' = entry
    BY <1>1 DEF PutAfter
  <2>2. FreesEntries(gone)
    BY <1>0, <2>1 DEF FreesEntries, Removed
  <2> QED
    BY <2>2, FreesKeep
<1>2. CASE (~ \E e \in old : refs[e] > 0) /\ Evictions(rest, n) = {}
  <2>1. Removed(gone \cup old \cup (rest \cap Unleased)) /\ entry' = entry
    BY <1>2 DEF PutAfter
  <2>2. FreesEntries(gone \cup old \cup (rest \cap Unleased))
    BY <1>0, <2>1 DEF FreesEntries, Removed
  <2> QED
    BY <2>2, FreesKeep
<1>3. CASE (~ \E e \in old : refs[e] > 0) /\ Evictions(rest, n) # {}
  <2>1. PICK V \in Evictions(rest, n), e \in FreshIds : Replaced(gone \cup old \cup V, e, new, 0)
    BY <1>3 DEF PutAfter
  <2>2. PICK S : S = gone \cup old \cup V
    OBVIOUS
  <2>3. S \subseteq live /\ rest \ V = live \ S /\ Fits(rest \ V, n)
    BY <1>0, <2>1, <2>2 DEF Evictions
  <2>4. e \in Ids \ live
    BY DEF FreshIds
  <2>5. new \in Entries /\ new.size = n
    BY DEF Entries
  <2>6. Fills(S, e, new)
    <3>1. Replaced(S, e, new, 0)
      BY <2>1, <2>2
    <3> HIDE DEF new, rest
    <3>2. Fits(live \ S, new.size)
      BY <2>3, <2>5
    <3>3. stale \ (S \cup {e}) \subseteq (live \ S) \cup {e}
      BY <1>0
    <3> QED
      BY <2>3, <2>4, <2>5, <3>1, <3>2, <3>3 DEF Fills, Replaced
  <2> QED
    BY <2>6, FillsKeep
<1> QED
  BY <1>1, <1>2, <1>3

\* acquire() frees entries, or fills the room it has made with a copy.
LEMMA AcquireCounts ==
  ASSUME Inv, BytesKept, NEW c \in Clients, NEW k \in Keys, NEW s \in Scopes,
         NEW m \in BOOLEAN, Acquire(c, k, s, m)
  PROVE  BytesKept'
<1>0. Unleased \subseteq live /\ stale \subseteq live /\ live \subseteq Ids /\ entry \in [Ids -> Entries]
  BY DEF Unleased, BytesKept, Inv, Shape
<1>1. PICK gone \in SUBSET (stale \cap Unleased) :
        LET L == live \ gone IN
        \/ Removed(gone) /\ entry' = entry
        \/ \E e \in Narrowest(Candidates(L, k, s)) :
             \/ /\ live' = L /\ entry' = entry
                /\ bytesUsed' = bytesUsed - Bytes(gone)
                /\ stale' = stale \ (gone \cup {e})
             \/ Removed(gone \cup Unleased) /\ entry' = entry
             \/ \E V \in Evictions(L, entry[e].size), f \in FreshIds :
                  Replaced(gone \cup V, f, [key |-> k, scope |-> s, size |-> entry[e].size,
                                            ephemeral |-> TRUE], 1)
  BY DEF Acquire
<1> DEFINE L == live \ gone
<1>2. CASE Removed(gone) /\ entry' = entry
  <2>1. FreesEntries(gone)
    BY <1>0, <1>2 DEF FreesEntries, Removed
  <2> QED
    BY <2>1, FreesKeep
<1>3. ASSUME NEW e, live' = L, entry' = entry, bytesUsed' = bytesUsed - Bytes(gone),
             stale' = stale \ (gone \cup {e})
      PROVE  BytesKept'
  <2>1. FreesEntries(gone)
    BY <1>0, <1>3 DEF FreesEntries
  <2> QED
    BY <2>1, FreesKeep
<1>4. CASE Removed(gone \cup Unleased) /\ entry' = entry
  <2>1. FreesEntries(gone \cup Unleased)
    BY <1>0, <1>4 DEF FreesEntries, Removed
  <2> QED
    BY <2>1, FreesKeep
<1>5. ASSUME NEW e \in Narrowest(Candidates(L, k, s)),
             NEW V \in Evictions(L, entry[e].size), NEW f \in FreshIds,
             Replaced(gone \cup V, f, [key |-> k, scope |-> s, size |-> entry[e].size,
                                       ephemeral |-> TRUE], 1)
      PROVE  BytesKept'
  <2>1. PICK new : new = [key |-> k, scope |-> s, size |-> entry[e].size, ephemeral |-> TRUE]
    OBVIOUS
  <2>2. e \in Ids
    BY <1>0 DEF Narrowest, Candidates
  <2>3. new \in Entries /\ new.size = entry[e].size
    BY <1>0, <2>1, <2>2 DEF Entries
  <2>4. PICK S : S = gone \cup V
    OBVIOUS
  <2>5. S \subseteq live /\ L \ V = live \ S /\ Fits(L \ V, entry[e].size) /\ f \in Ids \ live
    BY <1>0, <2>4 DEF Evictions, FreshIds
  <2>6. Replaced(S, f, new, 1)
    BY <1>5, <2>1, <2>4
  <2>7. stale \ (S \cup {f}) \subseteq (live \ S) \cup {f}
    BY <1>0
  <2>8. Fits(live \ S, new.size)
    BY <2>3, <2>5
  <2>9. Fills(S, f, new)
    BY <2>3, <2>5, <2>6, <2>7, <2>8 DEF Fills, Replaced
  <2> QED
    BY <2>9, FillsKeep
<1> QED
  BY <1>1, <1>2, <1>3, <1>4, <1>5

\* A step that touches no entry.
LEMMA CountsFrame ==
  ASSUME BytesKept, UNCHANGED <<live, entry, bytesUsed>>, stale' \subseteq live
  PROVE  BytesKept'
BY DEF BytesKept

\* Every step keeps the counts.
LEMMA CountsStep ==
  ASSUME Inv, BytesKept, [CacheNext]_sequenceCacheVars
  PROVE  BytesKept'
<1>0. Unleased \subseteq live /\ stale \subseteq live
  BY DEF Unleased, BytesKept
<1>1. ASSUME NEW k \in Keys, NEW s \in Scopes, NEW n \in Sizes, Put(k, s, n)
      PROVE  BytesKept'
  BY <1>1, PutCounts DEF Put
<1>2. ASSUME NEW c \in Clients, NEW k \in Keys, NEW s \in Scopes, NEW n \in Sizes,
             CommitPut(c, k, s, n)
      PROVE  BytesKept'
  BY <1>2, PutCounts DEF CommitPut
<1>3. ASSUME NEW c \in Clients, NEW k \in Keys, NEW s \in Scopes, NEW m \in BOOLEAN,
             Acquire(c, k, s, m)
      PROVE  BytesKept'
  BY <1>3, AcquireCounts
<1>4. ASSUME NEW c \in Clients, ReleaseLease(c) \/ CommitRelease(c)
      PROVE  BytesKept'
  <2>1. PICK e : e = lease[c].id
    OBVIOUS
  <2>2. Released(e)
    BY <1>4, <2>1 DEF ReleaseLease, CommitRelease
  <2>3. CASE UNCHANGED <<live, entry, bytesUsed, stale>>
    BY <1>0, <2>3, CountsFrame
  <2>4. CASE e \in live /\ Removed({e}) /\ entry' = entry
    <3>1. FreesEntries({e})
      BY <1>0, <2>4 DEF FreesEntries, Removed
    <3> QED
      BY <3>1, FreesKeep
  <2> QED
    BY <2>2, <2>3, <2>4 DEF Released, cacheVars
<1>5. ASSUME NEW c \in Clients, CommitCheck(c)
      PROVE  BytesKept'
  BY <1>0, <1>5, CountsFrame DEF CommitCheck, cacheVars
<1>6. ASSUME NEW t, NEW kinds, Invalidate(t, kinds)
      PROVE  BytesKept'
  <2>1. PICK S : S = {e \in Unleased : entry[e].scope.tenant = t /\ KindOf[entry[e].key] \in kinds}
    OBVIOUS
  <2>2. S \subseteq live /\ Removed(S) /\ entry' = entry
    BY <1>0, <1>6, <2>1 DEF Invalidate
  <2>3. FreesEntries(S)
    BY <1>0, <2>2 DEF FreesEntries, Removed
  <2> QED
    BY <2>3, FreesKeep
<1>7. CASE Prune
  <2>1. FreesEntries(stale \cap Unleased)
    BY <1>0, <1>7 DEF Prune, FreesEntries, Removed
  <2> QED
    BY <2>1, FreesKeep
<1>8. ASSUME NEW e \in Ids, TtlPasses(e)
      PROVE  BytesKept'
  BY <1>0, <1>8, CountsFrame DEF TtlPasses
<1>9. CASE UNCHANGED sequenceCacheVars
  BY <1>0, <1>9, CountsFrame DEF sequenceCacheVars, cacheVars
<1> QED
  BY <1>1, <1>2, <1>3, <1>4, <1>5, <1>6, <1>7, <1>8, <1>9 DEF CacheNext

\* _bytes_used is the sum of the sizes of the entries in every state, and
\* neither bound of the cache is ever exceeded, copies made on acquire, entries
\* replaced and puts that evicted something and then failed included.
THEOREM BudgetSafety == CacheSpec => []BudgetExact
<1>1. CacheInit => BytesKept
  <2> SUFFICES ASSUME CacheInit PROVE BytesKept
    OBVIOUS
  <2>1. live = {} /\ stale = {} /\ bytesUsed = 0
    BY DEF CacheInit
  <2>2. BytesOf(entry, live) = 0 /\ IsFiniteSet(live) /\ Cardinality(live) = 0
    BY <2>1, BytesOfNone, FS_EmptySet
  <2> QED
    BY <2>1, <2>2, CacheAssumption DEF BytesKept
<1>2. Inv /\ BytesKept /\ [CacheNext]_sequenceCacheVars => BytesKept'
  BY CountsStep
<1>3. Inv /\ BytesKept => BudgetExact
  <2> SUFFICES ASSUME Inv, BytesKept PROVE BudgetExact
    OBVIOUS
  <2>1. TypeOK
    BY DEF Inv, Shape, BytesKept, TypeOK, Leases, Steps
  <2>2. Bytes(live) = BytesOf(entry, live)
    BY DEF Bytes, BytesOf, Size
  <2>3. WithinBudget
    BY <2>2 DEF BytesKept, WithinBudget
  <2> QED
    BY <2>1, <2>3 DEF BudgetExact
<1> QED
  BY <1>1, <1>2, <1>3, AlwaysInv, PTL DEF CacheSpec
==============================================================================
