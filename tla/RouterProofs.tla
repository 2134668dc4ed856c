---------------------------- MODULE RouterProofs ----------------------------
(***************************************************************************)
(* Proofs about InferenceRouter and the BackendRegistry under it, for any  *)
(* finite set of calls and any backends.                                   *)
(***************************************************************************)
EXTENDS InferenceRouter, FiniteSetTheorems, WellFoundedInduction, TLAPS

\* The places where a call holds a lease.
Leased == {"leased", "release"} \cup InTarget

\* The places where a call tries a candidate.
Trying == {"acquire", "sleeping", "loading"}

\* A call has a lease in the places between acquire and release only, and a
\* candidate while it tries one.
CallInv ==
  \A c \in Calls :
    /\ pc[c] \in Leased => lease[c].name \in Backends
    /\ pc[c] \notin Leased => lease[c] = NoLease
    /\ pc[c] \in Trying => todo[c] # {}

\* What a lease guarantees, without the count.
LeaseInv ==
  \A c \in Calls, b \in Backends : lease[c].name = b =>
    /\ lifecycle[b] = "ready"
    /\ lease[c].generation = generation[b] /\ lease[c].instance = instance[b]

\* An entry has an instance when it is ready, and none when nothing is loaded.
EntryInv ==
  \A b \in Backends :
    /\ up[b] = {instance[b]} \ {0}
    /\ instance[b] # 0 => lifecycle[b] \in {"ready", "draining"}
    /\ lifecycle[b] = "ready" => instance[b] # 0

\* A backend drains as long as one admin shuts it down.
DrainInv ==
  \A a \in Admins, b \in Backends : task[a] = b =>
    lifecycle[b] = "draining" /\ \A x \in Admins : task[x] = b => x = a

\* A backend is loading as long as one call runs its factory; sleepers wait
\* for such a backend.
LoadInv ==
  /\ \A b \in Backends : lifecycle[b] = "loading" => \E c \in Calls : Loads(c, b)
  /\ \A c \in Calls : pc[c] \in {"loading", "sleeping"} => lifecycle[Candidate(c)] = "loading"
  /\ \A c, x \in Calls : pc[c] = "loading" /\ pc[x] = "loading" /\ Candidate(c) = Candidate(x) => c = x

\* An open record is waited for, cancelled, or left by a raising sink.
RecordInv ==
  \A c \in Calls : record[c] = "open" => pc[c] \in {"enlist", "wait"} \/ c \in lost

LeaseCount == \A b \in Backends : active_leases[b] = Cardinality(Holders(b))

IInv ==
  /\ TypeOK /\ CallInv /\ LeaseInv /\ EntryInv /\ DrainInv /\ LoadInv /\ RecordInv
  /\ IdsExact /\ LeaseCount /\ CapacityExact

-----------------------------------------------------------------------------
(***************************************************************************)
(* Candidates.                                                             *)
(***************************************************************************)

\* Some candidate ranks first.
LEMMA SomeFirst ==
  ASSUME NEW names \in SUBSET Backends, names # {}
  PROVE  First(names) \in names
<1> DEFINE ranks == {Rank[b] : b \in names}
<1>1. ranks \subseteq Nat /\ ranks # {}
  BY RegistryAssumption
<1>2. PICK r \in ranks : \A y \in ranks : ~(<<y, r>> \in OpToRel(<, Nat))
  <2> HIDE DEF ranks
  <2> QED BY <1>1, NatLessThanWellFounded, WFMin
<1>3. \A y \in ranks : r <= y
  <2> HIDE DEF ranks
  <2> SUFFICES ASSUME NEW y \in ranks PROVE ~(y < r)
    BY <1>1
  <2>1. <<y, r>> \in Nat \X Nat
    BY <1>1
  <2>2. y < r => <<y, r>> \in OpToRel(<, Nat)
    BY <2>1 DEF OpToRel
  <2> QED BY <1>2, <2>2
<1>4. PICK b \in names : r = Rank[b]
  BY <1>2
<1>5. \A x \in names : Rank[b] <= Rank[x]
  BY <1>3, <1>4
<1> QED BY <1>4, <1>5 DEF First

\* What a call tries is one of the backends.
LEMMA CandidateIsBackend ==
  ASSUME TypeOK, NEW c \in Calls, todo[c] # {}
  PROVE  Candidate(c) \in todo[c] /\ Candidate(c) \in Backends
BY SomeFirst DEF TypeOK, Candidate

-----------------------------------------------------------------------------
(***************************************************************************)
(* Type correctness.                                                       *)
(***************************************************************************)

RegistryType ==
  /\ registered \subseteq Backends
  /\ lifecycle \in [Backends -> {"unloaded", "loading", "ready", "draining", "failed"}]
  /\ generation \in [Backends -> Nat] /\ instance \in [Backends -> Nat]
  /\ active_leases \in [Backends -> Nat] /\ up \in [Backends -> SUBSET Nat]
  /\ pc \in [Calls -> Places] /\ todo \in [Calls -> SUBSET Backends]
  /\ lease \in [Calls -> [name : Backends \cup {NoBackend}, generation : Nat, instance : Nat]]
  /\ task \in [Admins -> Backends \cup {NoBackend}] /\ targets \in [Admins -> SUBSET Backends]

RouterType ==
  /\ active \in [Ids -> Calls \cup {NoCall}]
  /\ working \in [Backends -> [Ids -> Calls \cup {NoCall}]]
  /\ free \in [Backends -> Nat]
  /\ record \in [Calls -> {"none", "open", "cancelling", "ended"}] /\ lost \subseteq Calls

\* A step of a call outside the registry keeps the registry's types.
LEMMA MovesType ==
  ASSUME TypeOK, NEW c \in Calls, NEW from, NEW to \in Places, Moves(c, from, to)
  PROVE  RegistryType'
BY DEF TypeOK, RegistryType, Moves, entryVars, adminVars

\* The registry's own steps keep its types.
LEMMA AcquireType ==
  ASSUME TypeOK, CallInv, NEW c \in Calls, AcquireStep(c)
  PROVE  RegistryType'
<1> USE DEF TypeOK, RegistryType, entryVars, callVars, adminVars
<1>1. {"acquire", "sleeping", "loading", "refused", "leased"} \subseteq Places
  BY DEF Places
<1>2. CASE Route(c)
  BY <1>1, <1>2 DEF Route
<1>3. pc[c] \in Trying => Candidate(c) \in Backends
  BY CandidateIsBackend DEF CallInv
<1>4. AfterFailure(c) \in Places
  BY <1>1 DEF AfterFailure
<1>5. CASE AcquireWait(c)
  BY <1>1, <1>5 DEF AcquireWait
<1>6. CASE AcquireDraining(c)
  BY <1>4, <1>6 DEF AcquireDraining, DropCandidate
<1>7. CASE AcquireReady(c)
  <2>1. Candidate(c) \in Backends
    BY <1>3, <1>7 DEF AcquireReady, At, Trying
  <2> QED BY <1>1, <1>7, <2>1 DEF AcquireReady, LeaseOn
<1>8. CASE AcquireLoad(c)
  BY <1>1, <1>8 DEF AcquireLoad
<1>9. CASE LoadFails(c)
  BY <1>1, <1>4, <1>9 DEF LoadFails, WakeAllAndGo, DropCandidate
<1>10. CASE LoadSucceeds(c)
  <2>1. Candidate(c) \in Backends
    BY <1>3, <1>10 DEF LoadSucceeds, Trying
  <2>2. generation[Candidate(c)] + 1 \in Nat
    BY <2>1
  <2> QED BY <1>1, <1>10, <2>1, <2>2 DEF LoadSucceeds, WakeAllAndGo, LeaseOn
<1> QED BY <1>2, <1>5, <1>6, <1>7, <1>8, <1>9, <1>10 DEF AcquireStep

\* The steps of the admins keep the registry's types.
LEMMA AdminType ==
  ASSUME TypeOK, NEW a \in Admins, AdminStep(a)
  PROVE  RegistryType'
<1> USE DEF TypeOK, RegistryType, entryVars, callVars, adminVars
<1>1. ASSUME NEW b \in Backends, Unload(a, b) PROVE RegistryType'
  BY <1>1 DEF Unload, BeginUnload
<1>2. CASE UnloadEnds(a)
  <2>1. pc' \in [Calls -> Places]
    BY <1>2 DEF UnloadEnds, WakeAll, Places
  <2> QED BY <1>2, <2>1 DEF UnloadEnds
<1>3. CASE Sweep(a)
  BY <1>3 DEF Sweep
<1>4. CASE SweepNext(a)
  <2>1. PICK b \in targets[a] :
          /\ targets' = [targets EXCEPT ![a] = @ \ {b}]
          /\ BeginUnload(a, b) \/ UNCHANGED <<lifecycle, task>>
    BY <1>4 DEF SweepNext
  <2>2. b \in Backends
    OBVIOUS
  <2>3. /\ targets' \in [Admins -> SUBSET Backends]
        /\ task' \in [Admins -> Backends \cup {NoBackend}]
        /\ lifecycle' \in [Backends -> {"unloaded", "loading", "ready", "draining", "failed"}]
    <3>1. CASE BeginUnload(a, b)
      BY <2>1, <2>2, <3>1 DEF BeginUnload
    <3>2. CASE UNCHANGED <<lifecycle, task>>
      BY <2>1, <2>2, <3>2
    <3> QED BY <2>1, <3>1, <3>2
  <2> QED BY <1>4, <2>3 DEF SweepNext
<1> QED BY <1>1, <1>2, <1>3, <1>4 DEF AdminStep

\* The tables of the backends map ids to calls.
LEMMA TableType ==
  ASSUME TypeOK, NEW c \in Calls, Claim(c) \/ Disclaim(c) \/ UNCHANGED working
  PROVE  working' \in [Backends -> [Ids -> Calls \cup {NoCall}]]
<1>1. working \in [Backends -> [Ids -> Calls \cup {NoCall}]]
  BY DEF TypeOK
<1>2. ASSUME NEW v \in Calls \cup {NoCall},
             working' = [working EXCEPT ![Target(c)][IdOf[c]] = v]
      PROVE  working' \in [Backends -> [Ids -> Calls \cup {NoCall}]]
  BY <1>1, <1>2
<1> QED BY <1>1, <1>2 DEF Claim, Disclaim

\* Every step of router, registry and backends keeps the types.
LEMMA TypeStep ==
  ASSUME TypeOK, CallInv, [Next]_vars
  PROVE  TypeOK'
<1> USE RegistryAssumption, RouterAssumption
<1> SUFFICES RegistryType' /\ RouterType'
  BY DEF TypeOK, RegistryType, RouterType
<1>0. RouterType
  BY DEF TypeOK, RouterType
<1>1. ASSUME UNCHANGED routerVars PROVE RouterType'
  BY <1>0, <1>1 DEF RouterType, routerVars, targetVars
<1>2. \A p \in InTarget \cup {"ended", "route", "release"} : p \in Places
  BY DEF InTarget, Places
<1>3. ASSUME NEW c \in Calls, pc[c] \in Leased PROVE Target(c) \in Backends
  BY <1>3 DEF CallInv, Target
<1>4. ASSUME NEW c \in Calls, InferBegins(c) PROVE RegistryType' /\ RouterType'
  BY <1>1, <1>2, <1>4, MovesType DEF InferBegins
<1>5. ASSUME NEW c \in Calls, Acquires(c) PROVE RegistryType' /\ RouterType'
  <2>1. RegistryType'
    BY <1>5, AcquireType DEF Acquires
  <2>2. /\ UNCHANGED <<active, record, lost>>
        /\ UNCHANGED <<working, free>> \/ FreshTarget(Candidate(c))
    BY <1>5, Zenon DEF Acquires
  <2>3. ASSUME NEW b, FreshTarget(b)
        PROVE  /\ working' \in [Backends -> [Ids -> Calls \cup {NoCall}]]
               /\ free' \in [Backends -> Nat]
    BY <1>0, <2>3 DEF FreshTarget, RouterType
  <2> QED BY <1>0, <2>1, <2>2, <2>3 DEF RouterType
<1>6. ASSUME NEW c \in Calls, InferEnters(c) PROVE RegistryType' /\ RouterType'
  <2>1. pc[c] = "leased"
    BY <1>6 DEF InferEnters, Moves
  <2>2. Target(c) \in Backends
    BY <1>3, <2>1 DEF Leased
  <2>3. Entry(c) \in Places
    BY <2>2 DEF Entry, Places
  <2>4. RegistryType'
    BY <1>2, <1>6, <2>3, MovesType DEF InferEnters
  <2>5. RouterType'
    BY <1>0, <1>6 DEF InferEnters, Enters, RouterType, targetVars
  <2> QED BY <2>4, <2>5
<1>7. ASSUME NEW c \in Calls, InferPops(c) PROVE RegistryType' /\ RouterType'
  <2>1. RegistryType'
    BY <1>2, <1>7, MovesType DEF InferPops
  <2>2. RouterType'
    BY <1>0, <1>7 DEF InferPops, RouterType, targetVars
  <2> QED BY <2>1, <2>2
<1>8. ASSUME NEW c \in Calls, InferReleases(c) PROVE RegistryType' /\ RouterType'
  <2>1. Target(c) \in Backends
    BY <1>3, <1>8 DEF InferReleases, Leased
  <2>0. \/ /\ active_leases[Target(c)] # 0
           /\ active_leases' = [active_leases EXCEPT ![Target(c)] = @ - 1]
           /\ WakeAllAndGo(c, "ended")
        \/ active_leases' = active_leases /\ pc' = [pc EXCEPT ![c] = "ended"]
    BY <1>8 DEF InferReleases, Release, Target
  <2>2. active_leases' \in [Backends -> Nat]
    <3>1. active_leases \in [Backends -> Nat]
      BY DEF TypeOK
    <3>2. active_leases[Target(c)] # 0 => active_leases[Target(c)] - 1 \in Nat
      BY <2>1, <3>1
    <3> QED BY <2>0, <2>1, <3>1, <3>2
  <2>3. pc' \in [Calls -> Places]
    <3>1. pc \in [Calls -> Places] /\ "ended" \in Places /\ "acquire" \in Places
      BY DEF TypeOK, Places
    <3> QED BY <2>0, <3>1 DEF WakeAllAndGo
  <2>4. RegistryType'
    BY <1>8, <2>2, <2>3 DEF InferReleases, Release, NoLease, TypeOK, RegistryType, adminVars
  <2> QED BY <1>1, <1>8, <2>4 DEF InferReleases
<1>9. ASSUME NEW c \in Calls, ManagedStep(c) PROVE RegistryType' /\ RouterType'
  <2>1. pc[c] \in Leased
    BY <1>9 DEF ManagedStep, TakeCapacity, Admit, Post, PostHttp, PostLocal, Discard,
       DeadlineOver, Answered, GiveBack, Moves, Leased, InTarget
  <2>2. RegistryType'
    BY <1>2, <1>9, MovesType
       DEF ManagedStep, TakeCapacity, Admit, Post, PostHttp, PostLocal, Discard,
       DeadlineOver, Answered, GiveBack, InTarget
  <2>3. active' = active /\ record' = record /\ lost' = lost
    BY <1>9 DEF ManagedStep, TakeCapacity, Admit, Post, PostHttp, PostLocal, Discard,
       DeadlineOver, Answered, GiveBack, routerVars, targetVars
  <2>4. working' \in [Backends -> [Ids -> Calls \cup {NoCall}]]
    <3>1. Claim(c) \/ Disclaim(c) \/ UNCHANGED working
      BY <1>9, Zenon DEF ManagedStep, TakeCapacity, Admit, Post, PostHttp, PostLocal, Discard,
       DeadlineOver, Answered, GiveBack, routerVars,
                         targetVars
    <3> QED BY <3>1, TableType
  <2>5. free[Target(c)] \in Nat
    BY <1>0, <1>3, <2>1 DEF RouterType
  <2>6. free' \in [Backends -> Nat]
    BY <1>0, <1>9, <2>5
       DEF RouterType, ManagedStep, TakeCapacity, Admit, Post, PostHttp, PostLocal, Discard,
       DeadlineOver, Answered, GiveBack, routerVars,
           targetVars, GivesBack
  <2> QED BY <1>0, <2>2, <2>3, <2>4, <2>6 DEF RouterType
<1>10. ASSUME NEW c \in Calls, SerialStep(c) PROVE RegistryType' /\ RouterType'
  <2>1. pc[c] \in Leased
    BY <1>10 DEF SerialStep, SerialSubmits, SerialEnlists, SerialEnds, Moves, Leased, InTarget
  <2>2. RegistryType'
    BY <1>2, <1>10, MovesType DEF SerialStep, SerialSubmits, SerialEnlists, SerialEnds, InTarget
  <2>3. active' = active /\ free' = free /\ lost' \subseteq Calls
    BY <1>0, <1>10 DEF RouterType, SerialStep, SerialSubmits, SerialEnlists, SerialEnds
  <2>4. working' \in [Backends -> [Ids -> Calls \cup {NoCall}]]
    <3>1. Claim(c) \/ Disclaim(c) \/ UNCHANGED working
      BY <1>10, Zenon DEF SerialStep, SerialSubmits, SerialEnlists, SerialEnds
    <3> QED BY <3>1, TableType
  <2>5. record' \in [Calls -> {"none", "open", "cancelling", "ended"}]
    BY <1>0, <1>10 DEF RouterType, SerialStep, SerialSubmits, SerialEnlists, SerialEnds
  <2> QED BY <1>0, <2>2, <2>3, <2>4, <2>5 DEF RouterType
<1>11. ASSUME UNCHANGED registryVars PROVE RegistryType'
  BY <1>11 DEF TypeOK, RegistryType, registryVars, entryVars, callVars, adminVars
<1>12. ASSUME NEW c \in Calls, RecordEnds(c) \/ Cancel(c) PROVE RegistryType' /\ RouterType'
  BY <1>0, <1>11, <1>12 DEF RecordEnds, Cancel, RouterType
<1>13. CASE OutsideStep
  <2>1. ASSUME NEW b \in Backends, Register(b) PROVE RegistryType'
    BY <2>1 DEF Register, TypeOK, RegistryType, callVars, adminVars
  <2> QED BY <1>1, <1>13, <2>1, AdminType DEF OutsideStep
<1>14. CASE UNCHANGED vars
  BY <1>1, <1>11, <1>14 DEF vars
<1> QED
  BY <1>4, <1>5, <1>6, <1>7, <1>8, <1>9, <1>10, <1>12, <1>13, <1>14 DEF Next, CallStep

-----------------------------------------------------------------------------
(***************************************************************************)
(* The registry's part of the invariant.                                   *)
(***************************************************************************)

RegistryInv ==
  /\ CallInv /\ LeaseInv /\ EntryInv /\ DrainInv /\ LoadInv /\ LeaseCount

\* Leases are finitely many, and their number is zero when there is none.
LEMMA HoldersFinite ==
  ASSUME NEW b
  PROVE  IsFiniteSet(Holders(b)) /\ (Cardinality(Holders(b)) = 0 <=> Holders(b) = {})
BY RegistryAssumption, FS_Subset, FS_EmptySet DEF Holders

\* A step that touches no lease keeps their count.
LEMMA SameLeases ==
  ASSUME LeaseCount, UNCHANGED <<active_leases, lease>>
  PROVE  LeaseCount'
BY DEF LeaseCount, Holders

\* Nobody tries another candidate as long as his list stays the same.
LEMMA SameCandidate ==
  ASSUME NEW c, todo'[c] = todo[c]
  PROVE  Candidate(c)' = Candidate(c)
BY DEF Candidate

\* The invariant is about the entries, the calls and what the admins shut down.
LEMMA SameRegistry ==
  ASSUME RegistryInv,
         UNCHANGED <<lifecycle, generation, instance, active_leases, up, pc, todo, lease, task>>
  PROVE  RegistryInv'
<1>1. \A x \in Calls : Candidate(x)' = Candidate(x)
  BY SameCandidate
<1>2. CallInv' /\ LeaseInv'
  BY DEF RegistryInv, CallInv, LeaseInv
<1>3. EntryInv' /\ DrainInv'
  BY DEF RegistryInv, EntryInv, DrainInv
<1>4. LoadInv'
  BY <1>1 DEF RegistryInv, LoadInv, Loads
<1>5. LeaseCount'
  BY DEF RegistryInv, LeaseCount, Holders
<1> QED BY <1>2, <1>3, <1>4, <1>5 DEF RegistryInv

\* A call that moves on outside the registry leaves its invariant alone, if it
\* keeps its lease or has none and tries no candidate.
LEMMA MovesKeepRegistry ==
  ASSUME TypeOK, RegistryInv, NEW c \in Calls, NEW from, NEW to, Moves(c, from, to),
         \/ from \in Leased /\ to \in Leased
         \/ from = "new" /\ to \in {"route", "ended"}
  PROVE  RegistryInv'
<1> USE DEF RegistryInv, Moves, entryVars, adminVars
<1>1. /\ \A x \in Calls : pc'[x] = pc[x] \/ (x = c /\ pc[c] = from /\ pc'[c] = to)
      /\ UNCHANGED <<registered, lifecycle, generation, instance, active_leases, up, todo,
                     lease, task, targets>>
  BY DEF TypeOK
<1>2. from \notin Trying /\ to \notin Trying /\ (from \in Leased <=> to \in Leased)
  BY DEF Leased, Trying, InTarget
<1>3. CallInv'
  BY <1>1, <1>2 DEF CallInv
<1>4. LeaseInv' /\ EntryInv' /\ DrainInv'
  BY <1>1 DEF LeaseInv, EntryInv, DrainInv
<1>5. LoadInv'
  <2>1. \A x \in Calls : Candidate(x)' = Candidate(x)
    BY <1>1, SameCandidate
  <2>2. \A x \in Calls : /\ pc'[x] = "loading" <=> pc[x] = "loading"
                         /\ pc'[x] = "sleeping" <=> pc[x] = "sleeping"
    BY <1>1, <1>2 DEF Trying
  <2> QED BY <1>1, <2>1, <2>2 DEF LoadInv, Loads
<1>6. LeaseCount'
  BY <1>1, SameLeases
<1> QED BY <1>3, <1>4, <1>5, <1>6

\* The steps of acquire() keep the registry's invariant: the loader is alone,
\* and the lease it counts is the first one of its generation.
LEMMA AcquireKeepsRegistry ==
  ASSUME TypeOK, RegistryInv, NEW c \in Calls, AcquireStep(c)
  PROVE  RegistryInv'
<1> USE RegistryAssumption DEF RegistryInv, entryVars, callVars, adminVars
<1> DEFINE b == Candidate(c)
<1>0. /\ pc \in [Calls -> Places] /\ todo \in [Calls -> SUBSET Backends]
      /\ lifecycle \in [Backends -> {"unloaded", "loading", "ready", "draining", "failed"}]
      /\ generation \in [Backends -> Nat] /\ instance \in [Backends -> Nat]
      /\ active_leases \in [Backends -> Nat] /\ up \in [Backends -> SUBSET Nat]
      /\ lease \in [Calls -> [name : Backends \cup {NoBackend}, generation : Nat, instance : Nat]]
  BY DEF TypeOK
<1>1. CASE Route(c)
  <2>1. /\ \A x \in Calls \ {c} : pc'[x] = pc[x] /\ todo'[x] = todo[x]
        /\ pc[c] = "route" /\ pc'[c] \in {"refused", "acquire"}
        /\ pc'[c] = "acquire" => todo'[c] # {}
        /\ UNCHANGED <<registered, lifecycle, generation, instance, active_leases, up, lease,
                       task, targets>>
    BY <1>0, <1>1 DEF Route
  <2>2. CallInv'
    BY <2>1 DEF CallInv, Leased, Trying, InTarget
  <2>3. LeaseInv' /\ EntryInv' /\ DrainInv'
    BY <2>1 DEF LeaseInv, EntryInv, DrainInv
  <2>4. LoadInv'
    <3>1. \A x \in Calls : \/ pc'[x] \notin {"loading", "sleeping"}
                           \/ pc'[x] = pc[x] /\ Candidate(x)' = Candidate(x)
      BY <2>1, SameCandidate
    <3>2. \A x \in Calls : pc[x] = "loading" => pc'[x] = "loading" /\ Candidate(x)' = Candidate(x)
      BY <2>1, SameCandidate
    <3> QED BY <2>1, <3>1, <3>2 DEF LoadInv, Loads
  <2>5. LeaseCount'
    BY <2>1, SameLeases
  <2> QED BY <2>2, <2>3, <2>4, <2>5
<1>2. ASSUME pc[c] \in Trying PROVE b \in todo[c] /\ b \in Backends /\ lease[c] = NoLease
  BY <1>2, CandidateIsBackend DEF CallInv, Trying, Leased, InTarget
<1> HIDE DEF b
<1>3. CASE AcquireWait(c)
  <2>1. /\ \A x \in Calls \ {c} : pc'[x] = pc[x]
        /\ pc[c] = "acquire" /\ pc'[c] = "sleeping" /\ lifecycle[Candidate(c)] = "loading"
        /\ UNCHANGED <<registered, lifecycle, generation, instance, active_leases, up, todo, lease,
                       task, targets>>
    BY <1>0, <1>3 DEF AcquireWait, At
  <2>2. CallInv'
    BY <2>1 DEF CallInv, Leased, Trying, InTarget
  <2>3. LeaseInv' /\ EntryInv' /\ DrainInv'
    BY <2>1 DEF LeaseInv, EntryInv, DrainInv
  <2>4. LoadInv'
    <3>1. \A x \in Calls : Candidate(x)' = Candidate(x)
      BY <2>1, SameCandidate
    <3> QED BY <2>1, <3>1 DEF LoadInv, Loads
  <2>5. LeaseCount'
    BY <2>1, SameLeases
  <2> QED BY <2>2, <2>3, <2>4, <2>5
<1>4. ASSUME todo' = [todo EXCEPT ![c] = @ \ {Candidate(c)}], b \in todo[c],
             AfterFailure(c) = "acquire"
      PROVE  todo'[c] # {}
  BY <1>0, <1>4 DEF AfterFailure, b
<1>5. CASE AcquireDraining(c)
  <2>1. /\ \A x \in Calls \ {c} : pc'[x] = pc[x] /\ todo'[x] = todo[x]
        /\ pc[c] = "acquire" /\ pc'[c] \in {"refused", "acquire"}
        /\ UNCHANGED <<registered, lifecycle, generation, instance, active_leases, up, lease,
                       task, targets>>
    BY <1>0, <1>5 DEF AcquireDraining, At, AfterFailure, DropCandidate
  <2>2. pc'[c] = "acquire" => todo'[c] # {}
    BY <1>0, <1>2, <1>4, <1>5, <2>1 DEF AcquireDraining, DropCandidate, Trying
  <2>3. CallInv'
    BY <2>1, <2>2 DEF CallInv, Leased, Trying, InTarget
  <2>4. LeaseInv' /\ EntryInv' /\ DrainInv'
    BY <2>1 DEF LeaseInv, EntryInv, DrainInv
  <2>5. LoadInv'
    <3>1. \A x \in Calls : \/ pc'[x] \notin {"loading", "sleeping"}
                           \/ pc'[x] = pc[x] /\ Candidate(x)' = Candidate(x)
      BY <2>1, SameCandidate
    <3>2. \A x \in Calls : pc[x] = "loading" => pc'[x] = "loading" /\ Candidate(x)' = Candidate(x)
      BY <2>1, SameCandidate
    <3> QED BY <2>1, <3>1, <3>2 DEF LoadInv, Loads
  <2>6. LeaseCount'
    BY <2>1, SameLeases
  <2> QED BY <2>3, <2>4, <2>5, <2>6
<1>6. CASE AcquireReady(c)
  <2>1. /\ \A x \in Calls \ {c} : pc'[x] = pc[x] /\ lease'[x] = lease[x]
        /\ pc[c] = "acquire" /\ pc'[c] = "leased" /\ lifecycle[b] = "ready"
        /\ lease'[c] = LeaseOn(b, generation[b], instance[b])
        /\ active_leases' = [active_leases EXCEPT ![b] = @ + 1]
        /\ UNCHANGED <<registered, lifecycle, generation, instance, up, todo, task, targets>>
    BY <1>0, <1>6 DEF AcquireReady, At, b
  <2>2. b \in Backends /\ lease[c] = NoLease
    BY <1>2, <2>1 DEF Trying
  <2>3. CallInv'
    BY <2>1, <2>2 DEF CallInv, Leased, Trying, InTarget, LeaseOn
  <2>4. LeaseInv'
    BY <2>1, <2>2 DEF LeaseInv, LeaseOn
  <2>5. EntryInv' /\ DrainInv'
    BY <2>1 DEF EntryInv, DrainInv
  <2>6. LoadInv'
    <3>1. \A x \in Calls : Candidate(x)' = Candidate(x)
      BY <2>1, SameCandidate
    <3> QED BY <2>1, <3>1 DEF LoadInv, Loads
  <2>7. LeaseCount'
    <3>1. ASSUME NEW d \in Backends PROVE Holders(d)' = IF d = b THEN Holders(d) \cup {c} ELSE Holders(d)
      BY <2>1, <2>2 DEF Holders, LeaseOn, NoLease
    <3>2. c \notin Holders(b)
      BY <2>2 DEF Holders, NoLease
    <3>3. Cardinality(Holders(b) \cup {c}) = Cardinality(Holders(b)) + 1
      BY <3>2, HoldersFinite, FS_AddElement
    <3> QED BY <1>0, <2>1, <2>2, <3>1, <3>3 DEF LeaseCount
  <2> QED BY <2>3, <2>4, <2>5, <2>6, <2>7
<1>7. CASE AcquireLoad(c)
  <2>1. /\ \A x \in Calls \ {c} : pc'[x] = pc[x]
        /\ pc[c] = "acquire" /\ pc'[c] = "loading" /\ lifecycle[b] \in {"unloaded", "failed"}
        /\ lifecycle' = [lifecycle EXCEPT ![b] = "loading"]
        /\ UNCHANGED <<registered, generation, instance, active_leases, up, todo, lease,
                       task, targets>>
    BY <1>0, <1>7 DEF AcquireLoad, At, b
  <2>2. b \in Backends
    BY <1>2, <2>1 DEF Trying
  <2>3. CallInv'
    BY <2>1 DEF CallInv, Leased, Trying, InTarget
  <2>4. LeaseInv' /\ EntryInv' /\ DrainInv'
    BY <1>0, <2>1, <2>2 DEF LeaseInv, EntryInv, DrainInv
  <2>5. LoadInv'
    <3>1. \A x \in Calls : Candidate(x)' = Candidate(x)
      BY <2>1, SameCandidate
    <3>2. \A x \in Calls : pc[x] \in {"loading", "sleeping"} => Candidate(x) # b
      BY <2>1 DEF LoadInv
    <3>3. \A x \in Calls : pc[x] \in {"loading", "sleeping"} => Candidate(x) \in Backends
      BY CandidateIsBackend DEF CallInv, Trying
    <3>4. ASSUME NEW d \in Backends, lifecycle'[d] = "loading"
          PROVE  \E x \in Calls : Loads(x, d)'
      <4>1. CASE d = b
        BY <2>1, <3>1, <4>1 DEF Loads, b
      <4>2. CASE d # b
        <5>1. PICK x \in Calls : Loads(x, d)
          BY <1>0, <2>1, <3>4, <4>2 DEF LoadInv
        <5>2. x # c
          BY <2>1, <5>1 DEF Loads
        <5> QED BY <2>1, <3>1, <5>1, <5>2 DEF Loads
      <4> QED BY <4>1, <4>2
    <3>5. \A x \in Calls : pc'[x] \in {"loading", "sleeping"} => lifecycle'[Candidate(x)'] = "loading"
      BY <1>0, <2>1, <2>2, <3>1, <3>3 DEF LoadInv, b
    <3>6. \A x, y \in Calls : pc'[x] = "loading" /\ pc'[y] = "loading"
                               /\ Candidate(x)' = Candidate(y)' => x = y
      BY <2>1, <3>1, <3>2 DEF LoadInv, b
    <3> QED BY <3>4, <3>5, <3>6 DEF LoadInv
  <2>6. LeaseCount'
    BY <2>1, SameLeases
  <2> QED BY <2>3, <2>4, <2>5, <2>6
<1>8. ASSUME pc[c] = "loading"
      PROVE  /\ lifecycle[b] = "loading" /\ instance[b] = 0 /\ up[b] = {}
             /\ \A x \in Calls : lease[x].name # b
             /\ \A x \in Calls \ {c} : pc[x] = "loading" => Candidate(x) # b
             /\ \A a \in Admins : task[a] # b
  BY <1>2, <1>8 DEF LoadInv, LeaseInv, EntryInv, DrainInv, Trying, b
<1>9. \A x \in Calls : pc[x] = "loading" => Candidate(x) \in Backends
  BY CandidateIsBackend DEF CallInv, Trying
<1>10. CASE LoadFails(c)
  <2>1. /\ \A x \in Calls \ {c} :
             /\ todo'[x] = todo[x]
             /\ pc'[x] = IF pc[x] = "sleeping" THEN "acquire" ELSE pc[x]
        /\ pc[c] = "loading" /\ pc'[c] \in {"refused", "acquire"}
        /\ lifecycle' = [lifecycle EXCEPT ![b] = "failed"]
        /\ instance' = [instance EXCEPT ![b] = 0]
        /\ UNCHANGED <<registered, generation, active_leases, up, lease, task, targets>>
    BY <1>0, <1>10 DEF LoadFails, WakeAllAndGo, AfterFailure, DropCandidate, b
  <2>2. b \in Backends
    BY <1>2, <2>1 DEF Trying
  <2>3. pc'[c] = "acquire" => todo'[c] # {}
    BY <1>0, <1>2, <1>4, <1>10, <2>1 DEF LoadFails, WakeAllAndGo, DropCandidate, Trying
  <2>4. CallInv'
    BY <2>1, <2>3 DEF CallInv, Leased, Trying, InTarget
  <2>5. LeaseInv'
    BY <1>0, <1>8, <2>1, <2>2 DEF LeaseInv
  <2>6. EntryInv' /\ DrainInv'
    BY <1>0, <1>8, <2>1, <2>2 DEF EntryInv, DrainInv
  <2>7. LoadInv'
    <3>1. \A x \in Calls : pc'[x] # "sleeping" /\ (pc'[x] = "loading" => x # c)
      BY <2>1
    <3>2. \A x \in Calls \ {c} : pc'[x] = "loading" <=> pc[x] = "loading"
      BY <2>1
    <3>3. \A x \in Calls \ {c} : Candidate(x)' = Candidate(x)
      BY <2>1, SameCandidate
    <3>4. ASSUME NEW d \in Backends, lifecycle'[d] = "loading"
          PROVE  \E x \in Calls : Loads(x, d)'
      <4>1. d # b /\ lifecycle[d] = "loading"
        BY <1>0, <2>1, <3>4
      <4>2. PICK x \in Calls : Loads(x, d)
        BY <4>1 DEF LoadInv
      <4>3. x # c
        BY <4>1, <4>2 DEF Loads, b
      <4> QED BY <3>2, <3>3, <4>2, <4>3 DEF Loads
    <3>5. \A x \in Calls : pc'[x] \in {"loading", "sleeping"} => lifecycle'[Candidate(x)'] = "loading"
      BY <1>0, <1>8, <1>9, <2>1, <3>1, <3>2, <3>3 DEF LoadInv
    <3>6. \A x, y \in Calls : pc'[x] = "loading" /\ pc'[y] = "loading"
                               /\ Candidate(x)' = Candidate(y)' => x = y
      BY <3>1, <3>2, <3>3 DEF LoadInv
    <3> QED BY <3>4, <3>5, <3>6 DEF LoadInv
  <2>8. LeaseCount'
    BY <2>1, SameLeases
  <2> QED BY <2>4, <2>5, <2>6, <2>7, <2>8
<1>11. CASE LoadSucceeds(c)
  <2>0. PICK g \in Nat : g = generation[b] + 1
    BY <1>0, <1>2, <1>11 DEF LoadSucceeds, Trying
  <2>1. /\ \A x \in Calls \ {c} :
             /\ lease'[x] = lease[x]
             /\ pc'[x] = IF pc[x] = "sleeping" THEN "acquire" ELSE pc[x]
        /\ pc[c] = "loading" /\ pc'[c] = "leased"
        /\ lease'[c] = LeaseOn(b, g, g)
    BY <1>0, <1>11, <2>0 DEF LoadSucceeds, WakeAllAndGo, b
  <2>2. /\ lifecycle' = [lifecycle EXCEPT ![b] = "ready"]
        /\ instance' = [instance EXCEPT ![b] = g]
        /\ generation' = [generation EXCEPT ![b] = g]
        /\ active_leases' = [active_leases EXCEPT ![b] = 1]
        /\ up' = [up EXCEPT ![b] = @ \cup {g}]
        /\ UNCHANGED <<registered, todo, task, targets>>
    BY <1>11, <2>0 DEF LoadSucceeds, b
  <2>3. b \in Backends /\ g # 0
    BY <1>0, <1>2, <2>0, <2>1 DEF Trying
  <2>4. CallInv'
    BY <2>1, <2>2, <2>3 DEF CallInv, Leased, Trying, InTarget, LeaseOn
  <2>5. LeaseInv'
    <3>1. ASSUME NEW x \in Calls, NEW d \in Backends, lease'[x].name = d
          PROVE  /\ lifecycle'[d] = "ready"
                 /\ lease'[x].generation = generation'[d] /\ lease'[x].instance = instance'[d]
      <4>1. CASE x = c
        BY <1>0, <2>1, <2>2, <2>3, <3>1, <4>1 DEF LeaseOn
      <4>2. CASE x # c
        BY <1>0, <1>8, <2>1, <2>2, <3>1, <4>2 DEF LeaseInv
      <4> QED BY <4>1, <4>2
    <3> QED BY <3>1 DEF LeaseInv
  <2>6. EntryInv' /\ DrainInv'
    <3>1. EntryInv'
      BY <1>0, <1>8, <2>1, <2>2, <2>3 DEF EntryInv
    <3>2. DrainInv'
      BY <1>0, <1>8, <2>1, <2>2, <2>3 DEF DrainInv
    <3> QED BY <3>1, <3>2
  <2>7. LoadInv'
    <3>1. \A x \in Calls : pc'[x] # "sleeping" /\ (pc'[x] = "loading" => x # c)
      BY <2>1
    <3>2. \A x \in Calls \ {c} : pc'[x] = "loading" <=> pc[x] = "loading"
      BY <2>1
    <3>3. \A x \in Calls : Candidate(x)' = Candidate(x)
      BY <2>2, SameCandidate
    <3>4. ASSUME NEW d \in Backends, lifecycle'[d] = "loading"
          PROVE  \E x \in Calls : Loads(x, d)'
      <4>1. d # b /\ lifecycle[d] = "loading"
        BY <1>0, <2>2, <3>4
      <4>2. PICK x \in Calls : Loads(x, d)
        BY <4>1 DEF LoadInv
      <4>3. x # c
        BY <4>1, <4>2 DEF Loads, b
      <4> QED BY <3>2, <3>3, <4>2, <4>3 DEF Loads
    <3>5. \A x \in Calls : pc'[x] \in {"loading", "sleeping"} => lifecycle'[Candidate(x)'] = "loading"
      BY <1>0, <1>8, <1>9, <2>1, <2>2, <3>1, <3>2, <3>3 DEF LoadInv
    <3>6. \A x, y \in Calls : pc'[x] = "loading" /\ pc'[y] = "loading"
                               /\ Candidate(x)' = Candidate(y)' => x = y
      BY <3>1, <3>2, <3>3 DEF LoadInv
    <3> QED BY <3>4, <3>5, <3>6 DEF LoadInv
  <2>8. LeaseCount'
    <3>1. ASSUME NEW d \in Backends PROVE Holders(d)' = IF d = b THEN {c} ELSE Holders(d)
      BY <1>2, <1>8, <2>1, <2>3 DEF Holders, LeaseOn, NoLease, Trying
    <3>2. Cardinality({c}) = 1
      BY FS_Singleton
    <3> QED BY <1>0, <2>2, <2>3, <3>1, <3>2 DEF LeaseCount
  <2> QED BY <2>4, <2>5, <2>6, <2>7, <2>8
<1> QED BY <1>1, <1>3, <1>5, <1>6, <1>7, <1>10, <1>11 DEF AcquireStep

\* unload() only begins where nobody holds a lease, loads or unloads.
LEMMA UnloadKeepsRegistry ==
  ASSUME TypeOK, RegistryInv, NEW a \in Admins, NEW b \in Backends, task[a] = NoBackend,
         Unloadable(b), BeginUnload(a, b),
         UNCHANGED <<generation, instance, active_leases, up, callVars>>
  PROVE  RegistryInv'
<1> USE DEF RegistryInv, callVars
<1>0. /\ lifecycle \in [Backends -> {"unloaded", "loading", "ready", "draining", "failed"}]
      /\ task \in [Admins -> Backends \cup {NoBackend}]
      /\ lifecycle[b] \in {"ready", "failed"} /\ active_leases[b] = 0
      /\ lifecycle' = [lifecycle EXCEPT ![b] = "draining"] /\ task' = [task EXCEPT ![a] = b]
      /\ UNCHANGED <<generation, instance, active_leases, up, pc, todo, lease>>
  BY DEF TypeOK, Unloadable, BeginUnload
<1>1. Holders(b) = {}
  BY <1>0, HoldersFinite DEF LeaseCount
<1>2. CallInv'
  BY <1>0 DEF CallInv
<1>3. LeaseInv'
  BY <1>0, <1>1 DEF LeaseInv, Holders
<1>4. EntryInv'
  BY <1>0 DEF EntryInv
<1>5. DrainInv'
  <2>1. \A x \in Admins : task[x] # b
    BY <1>0 DEF DrainInv
  <2> QED BY <1>0, <2>1, RegistryAssumption DEF DrainInv
<1>6. LoadInv'
  <2>1. \A x \in Calls : Candidate(x)' = Candidate(x)
    BY <1>0, SameCandidate
  <2>2. \A x \in Calls : pc[x] \in {"loading", "sleeping"} => Candidate(x) \in Backends \ {b}
    BY <1>0, CandidateIsBackend DEF CallInv, Trying, LoadInv
  <2> QED BY <1>0, <2>1, <2>2 DEF LoadInv, Loads
<1>7. LeaseCount'
  BY <1>0, SameLeases
<1> QED BY <1>2, <1>3, <1>4, <1>5, <1>6, <1>7

\* The admins' steps keep the registry's invariant.
LEMMA AdminKeepsRegistry ==
  ASSUME TypeOK, RegistryInv, NEW a \in Admins, AdminStep(a)
  PROVE  RegistryInv'
<1> USE DEF entryVars
<1>1. ASSUME UNCHANGED <<lifecycle, generation, instance, active_leases, up, callVars, task>>
      PROVE  RegistryInv'
  BY <1>1, SameRegistry DEF callVars
<1>2. ASSUME NEW b \in Backends, Unload(a, b) PROVE RegistryInv'
  BY <1>2, UnloadKeepsRegistry DEF Unload
<1>3. CASE UnloadEnds(a)
  <2>0. PICK b \in Backends : b = task[a]
    BY <1>3 DEF UnloadEnds, TypeOK
  <2>1. /\ lifecycle \in [Backends -> {"unloaded", "loading", "ready", "draining", "failed"}]
        /\ task \in [Admins -> Backends \cup {NoBackend}]
        /\ instance \in [Backends -> Nat] /\ up \in [Backends -> SUBSET Nat]
    BY DEF TypeOK
  <2>2. /\ \A x \in Calls : pc'[x] = IF pc[x] = "sleeping" THEN "acquire" ELSE pc[x]
        /\ \/ lifecycle' = [lifecycle EXCEPT ![b] = "unloaded"]
           \/ lifecycle' = [lifecycle EXCEPT ![b] = "failed"]
        /\ up' = [up EXCEPT ![b] = @ \ {instance[b]}]
        /\ instance' = [instance EXCEPT ![b] = 0]
        /\ task' = [task EXCEPT ![a] = NoBackend]
        /\ UNCHANGED <<generation, active_leases, todo, lease>>
    BY <1>3, <2>0 DEF UnloadEnds, WakeAll
  <2>3. lifecycle[b] = "draining" /\ \A x \in Admins : task[x] = b => x = a
    BY <2>0 DEF RegistryInv, DrainInv
  <2>4. CallInv'
    BY <2>2 DEF RegistryInv, CallInv, Trying, Leased, InTarget
  <2>5. LeaseInv'
    BY <2>1, <2>2, <2>3 DEF RegistryInv, LeaseInv
  <2>6. EntryInv'
    BY <2>1, <2>2, <2>3 DEF RegistryInv, EntryInv
  <2>7. DrainInv'
    <3>1. \A x \in Admins, d \in Backends : task'[x] = d => task[x] = d /\ d # b
      BY <2>1, <2>2, <2>3, RegistryAssumption
    <3> QED BY <2>1, <2>2, <3>1 DEF RegistryInv, DrainInv
  <2>8. LoadInv'
    <3>1. \A x \in Calls : Candidate(x)' = Candidate(x)
      BY <2>2, SameCandidate
    <3>2. \A x \in Calls : pc[x] = "loading" => Candidate(x) \in Backends \ {b}
      BY <2>3, CandidateIsBackend DEF RegistryInv, CallInv, Trying, LoadInv
    <3>3. \A x \in Calls : pc'[x] # "sleeping" /\ (pc'[x] = "loading" <=> pc[x] = "loading")
      BY <2>2
    <3>4. \A d \in Backends : lifecycle'[d] = "loading" => lifecycle[d] = "loading"
      BY <2>1, <2>2
    <3>5. \A x \in Calls : pc[x] = "loading" => lifecycle'[Candidate(x)] = "loading"
      BY <2>1, <2>2, <3>2 DEF RegistryInv, LoadInv
    <3> QED BY <3>1, <3>3, <3>4, <3>5 DEF RegistryInv, LoadInv, Loads
  <2>9. LeaseCount'
    BY <2>2 DEF RegistryInv, LeaseCount, Holders
  <2> QED BY <2>4, <2>5, <2>6, <2>7, <2>8, <2>9 DEF RegistryInv
<1>4. CASE Sweep(a)
  BY <1>1, <1>4 DEF Sweep
<1>5. CASE SweepNext(a)
  <2>1. PICK b \in targets[a] :
          \/ Unloadable(b) /\ BeginUnload(a, b)
          \/ UNCHANGED <<lifecycle, task>>
    BY <1>5 DEF SweepNext
  <2>2. b \in Backends
    BY DEF TypeOK
  <2> QED BY <1>1, <1>5, <2>1, <2>2, UnloadKeepsRegistry DEF SweepNext
<1> QED BY <1>2, <1>3, <1>4, <1>5 DEF AdminStep

\* release() counts every lease: none is of another generation, and none is
\* more than were acquired.
LEMMA ReleaseKeepsRegistry ==
  ASSUME TypeOK, RegistryInv, NEW c \in Calls, InferReleases(c)
  PROVE  RegistryInv'
<1> DEFINE b == Target(c)
<1>0. /\ pc \in [Calls -> Places] /\ active_leases \in [Backends -> Nat]
      /\ lease \in [Calls -> [name : Backends \cup {NoBackend}, generation : Nat, instance : Nat]]
  BY DEF TypeOK
<1>1. pc[c] = "release" /\ lease[c].name = b /\ b \in Backends
  BY DEF InferReleases, RegistryInv, CallInv, Leased, Target
<1>2. c \in Holders(b) /\ active_leases[b] = Cardinality(Holders(b)) /\ active_leases[b] # 0
  BY <1>1, HoldersFinite DEF Holders, RegistryInv, LeaseCount
<1>3. lease[c].generation = generation[b]
  BY <1>1 DEF RegistryInv, LeaseInv
<1>4. /\ lease' = [lease EXCEPT ![c] = NoLease]
      /\ active_leases' = [active_leases EXCEPT ![b] = @ - 1]
      /\ WakeAllAndGo(c, "ended")
      /\ UNCHANGED <<registered, lifecycle, generation, instance, up, todo, task, targets>>
  BY <1>2, <1>3 DEF InferReleases, Release, Target, adminVars
<1> HIDE DEF b
<1>5. /\ \A x \in Calls \ {c} : /\ lease'[x] = lease[x]
                                /\ pc'[x] = IF pc[x] = "sleeping" THEN "acquire" ELSE pc[x]
      /\ pc'[c] = "ended" /\ lease'[c] = NoLease
  BY <1>0, <1>4 DEF WakeAllAndGo
<1>6. CallInv'
  BY <1>4, <1>5 DEF RegistryInv, CallInv, Trying, Leased, InTarget
<1>7. LeaseInv'
  BY <1>4, <1>5, RegistryAssumption DEF RegistryInv, LeaseInv, NoLease
<1>8. EntryInv' /\ DrainInv'
  BY <1>4 DEF RegistryInv, EntryInv, DrainInv
<1>9. LoadInv'
  <2>1. \A x \in Calls : Candidate(x)' = Candidate(x)
    BY <1>4, SameCandidate
  <2>2. \A x \in Calls : pc'[x] # "sleeping" /\ (pc'[x] = "loading" <=> pc[x] = "loading")
    BY <1>1, <1>5
  <2> QED BY <1>4, <2>1, <2>2 DEF RegistryInv, LoadInv, Loads
<1>10. LeaseCount'
  <2>1. ASSUME NEW d \in Backends
        PROVE  Holders(d)' = IF d = b THEN Holders(d) \ {c} ELSE Holders(d)
    BY <1>1, <1>5, RegistryAssumption DEF Holders, NoLease
  <2>2. Cardinality(Holders(b) \ {c}) = Cardinality(Holders(b)) - 1
    BY <1>2, HoldersFinite, FS_RemoveElement
  <2> QED BY <1>0, <1>2, <1>4, <2>1, <2>2 DEF RegistryInv, LeaseCount
<1> QED BY <1>6, <1>7, <1>8, <1>9, <1>10 DEF RegistryInv

\* Every step keeps the registry's invariant, whatever a call does with its lease.
LEMMA RegistryStep ==
  ASSUME TypeOK, RegistryInv, [Next]_vars
  PROVE  RegistryInv'
<1> USE RouterAssumption
<1>0. InTarget \cup {"leased", "release"} = Leased
  BY DEF Leased
<1>1. ASSUME UNCHANGED registryVars PROVE RegistryInv'
  BY <1>1, SameRegistry DEF registryVars, entryVars, callVars, adminVars
<1>2. ASSUME NEW c \in Calls, InferBegins(c) PROVE RegistryInv'
  BY <1>2, MovesKeepRegistry DEF InferBegins
<1>3. ASSUME NEW c \in Calls, Acquires(c) PROVE RegistryInv'
  BY <1>3, AcquireKeepsRegistry DEF Acquires
<1>4. ASSUME NEW c \in Calls, InferEnters(c) PROVE RegistryInv'
  <2>1. Target(c) \in Backends
    BY <1>4 DEF InferEnters, Moves, RegistryInv, CallInv, Leased, Target
  <2>2. Entry(c) \in Leased
    BY <2>1 DEF Entry, Leased, InTarget
  <2> QED BY <1>0, <1>4, <2>2, MovesKeepRegistry DEF InferEnters
<1>5. ASSUME NEW c \in Calls, InferPops(c) PROVE RegistryInv'
  BY <1>0, <1>5, MovesKeepRegistry DEF InferPops, InTarget
<1>6. ASSUME NEW c \in Calls, ManagedStep(c) PROVE RegistryInv'
  BY <1>0, <1>6, MovesKeepRegistry
     DEF ManagedStep, TakeCapacity, Admit, Post, PostHttp, PostLocal, Discard,
       DeadlineOver, Answered, GiveBack, InTarget
<1>7. ASSUME NEW c \in Calls, SerialStep(c) PROVE RegistryInv'
  BY <1>0, <1>7, MovesKeepRegistry DEF SerialStep, SerialSubmits, SerialEnlists, SerialEnds, InTarget
<1>8. CASE OutsideStep
  <2>1. ASSUME NEW b \in Backends, Register(b) PROVE RegistryInv'
    BY <2>1, SameRegistry DEF Register, callVars, adminVars
  <2> QED BY <1>8, <2>1, AdminKeepsRegistry DEF OutsideStep
<1> QED
  BY <1>1, <1>2, <1>3, <1>4, <1>5, <1>6, <1>7, <1>8, ReleaseKeepsRegistry
     DEF Next, CallStep, RecordEnds, Cancel, vars

-----------------------------------------------------------------------------
(***************************************************************************)
(* The tables and the capacity.                                            *)
(***************************************************************************)

ActiveExact ==
  \A c \in Calls, i \in Ids :
    active[i] = c <=> c \in Routed /\ IdOf[c] = i /\ pc[c] \in InTarget

OwnersExact ==
  \A c \in Calls, i \in Ids, b \in Backends :
    working[b][i] = c <=> lease[c].name = b /\ IdOf[c] = i /\ pc[c] \in InTable

\* The two halves of the statement about ids.
LEMMA IdsHalves == IdsExact <=> ActiveExact /\ OwnersExact
BY DEF IdsExact, ActiveExact, OwnersExact, Owner, Target

\* How a move of one call shows in pc.
LEMMA MovesPlace ==
  ASSUME TypeOK, NEW c \in Calls, NEW from, NEW to, Moves(c, from, to)
  PROVE  /\ \A x \in Calls \ {c} : pc'[x] = pc[x]
         /\ pc[c] = from /\ pc'[c] = to /\ lease' = lease
BY DEF TypeOK, Moves

\* The router's table does not notice a move on one side of it.
LEMMA SameActive ==
  ASSUME TypeOK, ActiveExact, NEW c \in Calls, NEW from, NEW to, Moves(c, from, to),
         from \in InTarget <=> to \in InTarget, active' = active
  PROVE  ActiveExact'
BY MovesPlace DEF ActiveExact

\* Nor do the backends' tables.
LEMMA SameOwners ==
  ASSUME TypeOK, OwnersExact, NEW c \in Calls, NEW from, NEW to, Moves(c, from, to),
         from \in InTable <=> to \in InTable, working' = working
  PROVE  OwnersExact'
BY MovesPlace DEF OwnersExact

\* A call that is no duplicate may claim its id.
LEMMA ClaimExact ==
  ASSUME TypeOK, OwnersExact, NEW c \in Calls, NEW from, NEW to, Moves(c, from, to),
         Target(c) \in Backends, from \notin InTable, to \in InTable, ~Duplicate(c), Claim(c)
  PROVE  OwnersExact'
<1>1. /\ \A x \in Calls \ {c} : pc'[x] = pc[x]
      /\ pc[c] = from /\ pc'[c] = to /\ lease' = lease
  BY MovesPlace
<1>2. working \in [Backends -> [Ids -> Calls \cup {NoCall}]] /\ IdOf \in [Calls -> Ids] /\ NoCall \notin Calls
  BY RouterAssumption DEF TypeOK
<1>3. \A b \in Backends, i \in Ids :
        working'[b][i] = IF b = Target(c) /\ i = IdOf[c] THEN c ELSE working[b][i]
  BY <1>2 DEF Claim
<1>4. \A x \in Calls : working[Target(c)][IdOf[c]] # x
  BY <1>2 DEF Duplicate, Owner
<1> QED BY <1>1, <1>2, <1>3, <1>4 DEF OwnersExact, Target

\* A call gives up what it claimed.
LEMMA DisclaimExact ==
  ASSUME TypeOK, OwnersExact, NEW c \in Calls, NEW from, NEW to, Moves(c, from, to),
         Target(c) \in Backends, from \in InTable, to \notin InTable, Disclaim(c)
  PROVE  OwnersExact'
<1>1. /\ \A x \in Calls \ {c} : pc'[x] = pc[x]
      /\ pc[c] = from /\ pc'[c] = to /\ lease' = lease
  BY MovesPlace
<1>2. working \in [Backends -> [Ids -> Calls \cup {NoCall}]] /\ IdOf \in [Calls -> Ids] /\ NoCall \notin Calls
  BY RouterAssumption DEF TypeOK
<1>3. \A b \in Backends, i \in Ids :
        working'[b][i] = IF b = Target(c) /\ i = IdOf[c] THEN NoCall ELSE working[b][i]
  BY <1>2 DEF Disclaim
<1>4. working[Target(c)][IdOf[c]] = c
  BY <1>1, <1>2 DEF OwnersExact, Target
<1> QED BY <1>1, <1>2, <1>3, <1>4 DEF OwnersExact, Target

\* The calls inside a backend are finitely many.
LEMMA InsideFinite ==
  ASSUME NEW b
  PROVE  IsFiniteSet(Inside(b)) /\ Cardinality(Inside(b)) \in Nat
BY RegistryAssumption, FS_Subset, FS_CardinalityType DEF Inside, Holders

\* A move on one side of the semaphore leaves the capacity alone.
LEMMA SameCapacity ==
  ASSUME TypeOK, CapacityExact, NEW c \in Calls, NEW from, NEW to, Moves(c, from, to),
         from \in WithCapacity <=> to \in WithCapacity, free' = free
  PROVE  CapacityExact'
<1>1. \A b \in Backends : Inside(b)' = Inside(b)
  BY MovesPlace DEF Inside, Holders
<1> QED BY <1>1 DEF CapacityExact

\* Taking the semaphore.
LEMMA TakesCapacity ==
  ASSUME TypeOK, CapacityExact, NEW c \in Calls, NEW from, NEW to, Moves(c, from, to),
         Target(c) \in Backends, from \notin WithCapacity, to \in WithCapacity,
         free[Target(c)] > 0, free' = [free EXCEPT ![Target(c)] = @ - 1]
  PROVE  CapacityExact'
<1>0. free \in [Backends -> Nat] /\ Capacity \in [Backends -> Nat]
  BY RouterAssumption DEF TypeOK
<1>1. \A b \in Backends : Inside(b)' = IF b = Target(c) THEN Inside(b) \cup {c} ELSE Inside(b)
  BY MovesPlace DEF Inside, Holders, Target
<1>2. c \notin Inside(Target(c))
  BY MovesPlace DEF Inside
<1>3. Cardinality(Inside(Target(c)) \cup {c}) = Cardinality(Inside(Target(c))) + 1
  BY <1>2, InsideFinite, FS_AddElement
<1>4. \A b \in Backends : Cardinality(Inside(b)) \in Nat
  BY InsideFinite
<1>5. ASSUME NEW b \in Backends PROVE free'[b] + Cardinality(Inside(b)') = Capacity[b]
  <2>1. free[b] + Cardinality(Inside(b)) = Capacity[b]
    BY DEF CapacityExact
  <2>2. CASE b = Target(c)
    <3>1. free'[b] = free[b] - 1
      BY <1>0, <2>2
    <3>2. Cardinality(Inside(b)') = Cardinality(Inside(b)) + 1
      BY <1>1, <1>3, <2>2
    <3>3. free[b] \in Nat /\ Cardinality(Inside(b)) \in Nat
      BY <1>0, <1>4
    <3> QED BY <2>1, <3>1, <3>2, <3>3
  <2>3. CASE b # Target(c)
    BY <1>0, <1>1, <2>1, <2>3
  <2> QED BY <2>2, <2>3
<1> QED BY <1>5 DEF CapacityExact

\* Giving the semaphore back.
LEMMA ReturnsCapacity ==
  ASSUME TypeOK, CapacityExact, NEW c \in Calls, NEW from, NEW to, Moves(c, from, to),
         Target(c) \in Backends, from \in WithCapacity, to \notin WithCapacity, GivesBack(c)
  PROVE  CapacityExact'
<1>0. free \in [Backends -> Nat] /\ Capacity \in [Backends -> Nat]
  BY RouterAssumption DEF TypeOK
<1>1. \A b \in Backends : Inside(b)' = IF b = Target(c) THEN Inside(b) \ {c} ELSE Inside(b)
  BY MovesPlace DEF Inside, Holders, Target
<1>2. c \in Inside(Target(c))
  BY MovesPlace DEF Inside, Holders, Target
<1>3. Cardinality(Inside(Target(c)) \ {c}) = Cardinality(Inside(Target(c))) - 1
  BY <1>2, InsideFinite, FS_RemoveElement
<1>4. \A b \in Backends : Cardinality(Inside(b)) \in Nat
  BY InsideFinite
<1>5. ASSUME NEW b \in Backends PROVE free'[b] + Cardinality(Inside(b)') = Capacity[b]
  <2>1. free[b] + Cardinality(Inside(b)) = Capacity[b]
    BY DEF CapacityExact
  <2>2. CASE b = Target(c)
    <3>1. free'[b] = free[b] + 1
      BY <1>0, <2>2 DEF GivesBack
    <3>2. Cardinality(Inside(b)') = Cardinality(Inside(b)) - 1
      BY <1>1, <1>3, <2>2
    <3>3. free[b] \in Nat /\ Cardinality(Inside(b)) \in Nat
      BY <1>0, <1>4
    <3> QED BY <2>1, <3>1, <3>2, <3>3
  <2>3. CASE b # Target(c)
    BY <1>0, <1>1, <2>1, <2>3 DEF GivesBack
  <2> QED BY <2>2, <2>3
<1> QED BY <1>5 DEF CapacityExact

TableInv == ActiveExact /\ OwnersExact /\ CapacityExact /\ RecordInv

\* What happens to calls outside the targets is nothing to the tables.
LEMMA AwayKeepsTables ==
  ASSUME TableInv, UNCHANGED routerVars,
         \A x \in Calls : \/ pc'[x] = pc[x] /\ lease'[x] = lease[x]
                          \/ pc[x] \notin InTarget /\ pc'[x] \notin InTarget
  PROVE  TableInv'
<1> USE DEF TableInv, routerVars, targetVars
<1>1. \A p \in InTable \cup WithCapacity \cup {"enlist", "wait"} : p \in InTarget
  BY DEF InTable, WithCapacity, InTarget
<1>2. ActiveExact'
  BY DEF ActiveExact
<1>3. OwnersExact'
  BY <1>1 DEF OwnersExact
<1>4. CapacityExact'
  <2>1. \A b \in Backends : Inside(b)' = Inside(b)
    BY <1>1 DEF Inside, Holders
  <2> QED BY <2>1 DEF CapacityExact
<1>5. RecordInv'
  BY <1>1 DEF RecordInv
<1> QED BY <1>2, <1>3, <1>4, <1>5

\* The steps of acquire(): a new instance comes with tables of its own, and no
\* call is inside yet.
LEMMA AcquireKeepsTables ==
  ASSUME TypeOK, RegistryInv, TableInv, NEW c \in Calls, Acquires(c)
  PROVE  TableInv'
<1>1. CASE AcquireStep(c) /\ ~LoadSucceeds(c)
  <2>1. \A x \in Calls : pc'[x] = pc[x] \/ (pc[x] \notin InTarget /\ pc'[x] \notin InTarget)
    BY <1>1 DEF AcquireStep, Route, AcquireWait, AcquireDraining, AcquireReady, AcquireLoad,
                LoadFails, WakeAllAndGo, AfterFailure, At, TypeOK, InTarget
  <2>2. \A x \in Calls \ {c} : lease'[x] = lease[x]
    BY <1>1 DEF AcquireStep, Route, AcquireWait, AcquireDraining, AcquireReady, AcquireLoad,
                LoadFails, TypeOK
  <2>3. pc[c] \notin InTarget /\ pc'[c] \notin InTarget
    BY <1>1 DEF AcquireStep, Route, AcquireWait, AcquireDraining, AcquireReady, AcquireLoad,
                LoadFails, WakeAllAndGo, AfterFailure, At, TypeOK, InTarget
  <2>4. generation' = generation
    BY <1>1 DEF AcquireStep, Route, AcquireWait, AcquireDraining, AcquireReady, AcquireLoad,
                LoadFails, entryVars
  <2>5. UNCHANGED routerVars
    BY <2>4 DEF Acquires, routerVars, targetVars
  <2> QED BY <2>1, <2>2, <2>3, <2>5, AwayKeepsTables
<1>2. CASE LoadSucceeds(c)
  <2> DEFINE b == Candidate(c)
  <2>0. /\ pc \in [Calls -> Places] /\ generation \in [Backends -> Nat]
        /\ lease \in [Calls -> [name : Backends \cup {NoBackend}, generation : Nat, instance : Nat]]
        /\ working \in [Backends -> [Ids -> Calls \cup {NoCall}]] /\ free \in [Backends -> Nat]
    BY DEF TypeOK
  <2>1. pc[c] = "loading" /\ b \in Backends
    BY <1>2, CandidateIsBackend DEF LoadSucceeds, RegistryInv, CallInv, Trying
  <2>2. generation'[b] = generation[b] + 1
    BY <1>2, <2>0, <2>1 DEF LoadSucceeds
  <2>3. generation' # generation
    BY <2>0, <2>1, <2>2
  <2>4. /\ working' = [working EXCEPT ![b] = [i \in Ids |-> NoCall]]
        /\ free' = [free EXCEPT ![b] = Capacity[b]]
        /\ UNCHANGED <<active, record, lost>>
    BY <2>3 DEF Acquires, FreshTarget
  <2>5. \A x \in Calls : lease[x].name # b
    BY <2>1 DEF RegistryInv, LeaseInv, LoadInv
  <2>6. /\ \A x \in Calls \ {c} :
             /\ lease'[x] = lease[x]
             /\ pc'[x] = pc[x] \/ (pc[x] = "sleeping" /\ pc'[x] = "acquire")
        /\ pc'[c] = "leased"
    BY <1>2, <2>0 DEF LoadSucceeds, WakeAllAndGo
  <2>7. lease[c] = NoLease /\ lease'[c].name = b
    BY <1>2, <2>0, <2>1 DEF LoadSucceeds, LeaseOn, RegistryInv, CallInv, Leased, InTarget
  <2> HIDE DEF b
  <2>8. ActiveExact'
    BY <2>1, <2>4, <2>6 DEF TableInv, ActiveExact, InTarget
  <2>9. OwnersExact'
    <3>1. ASSUME NEW x \in Calls, NEW i \in Ids, NEW d \in Backends
          PROVE  working'[d][i] = x <=> lease'[x].name = d /\ IdOf[x] = i /\ pc'[x] \in InTable
      <4>1. CASE d = b
        <5>1. working'[d][i] = NoCall
          BY <2>0, <2>4, <4>1
        <5>2. lease'[x].name = d => pc'[x] \notin InTable
          BY <2>5, <2>6, <4>1 DEF InTable
        <5> QED BY <5>1, <5>2, RouterAssumption
      <4>2. CASE d # b
        <5>1. working'[d][i] = working[d][i]
          BY <2>0, <2>4, <4>2
        <5>2. working[d][i] = x <=> lease[x].name = d /\ IdOf[x] = i /\ pc[x] \in InTable
          BY DEF TableInv, OwnersExact
        <5>3. CASE x = c
          BY <2>1, <2>7, <4>2, <5>1, <5>2, <5>3 DEF InTable
        <5>4. CASE x # c
          BY <2>6, <5>1, <5>2, <5>4 DEF InTable
        <5> QED BY <5>3, <5>4
      <4> QED BY <4>1, <4>2
    <3> QED BY <3>1 DEF OwnersExact
  <2>10. CapacityExact'
    <3>1. ASSUME NEW d \in Backends PROVE Inside(d)' = IF d = b THEN {} ELSE Inside(d)
      BY <2>1, <2>5, <2>6, <2>7 DEF Inside, Holders, WithCapacity
    <3>2. Cardinality({}) = 0 /\ Capacity \in [Backends -> Nat]
      BY FS_EmptySet, RouterAssumption
    <3>3. ASSUME NEW d \in Backends PROVE free'[d] + Cardinality(Inside(d)') = Capacity[d]
      <4>1. CASE d = b
        <5>1. free'[d] = Capacity[d] /\ Cardinality(Inside(d)') = 0
          BY <2>0, <2>4, <3>1, <3>2, <4>1
        <5> QED BY <3>2, <5>1
      <4>2. CASE d # b
        BY <2>0, <2>4, <3>1, <4>2 DEF TableInv, CapacityExact
      <4> QED BY <4>1, <4>2
    <3> QED BY <3>3 DEF CapacityExact
  <2>11. RecordInv'
    BY <2>1, <2>4, <2>6 DEF TableInv, RecordInv
  <2> QED BY <2>8, <2>9, <2>10, <2>11 DEF TableInv
<1> QED BY <1>1, <1>2 DEF Acquires

\* The admins and release() touch no call inside a target.
LEMMA OthersKeepTables ==
  ASSUME TypeOK, RegistryInv, TableInv, OutsideStep \/ \E c \in Calls : InferReleases(c)
  PROVE  TableInv'
<1>1. ASSUME NEW a \in Admins, AdminStep(a)
      PROVE  lease' = lease /\ \A x \in Calls : pc'[x] = pc[x] \/ (pc[x] = "sleeping" /\ pc'[x] = "acquire")
  BY <1>1 DEF AdminStep, Unload, UnloadEnds, Sweep, SweepNext, WakeAll, callVars
<1>2. ASSUME NEW b \in Backends, Register(b) PROVE lease' = lease /\ pc' = pc
  BY <1>2 DEF Register, callVars
<1>3. CASE OutsideStep
  BY <1>1, <1>2, <1>3, AwayKeepsTables DEF OutsideStep, InTarget
<1>4. ASSUME NEW c \in Calls, InferReleases(c) PROVE TableInv'
  <2>1. /\ pc[c] = "release" /\ pc'[c] = "ended"
        /\ \A x \in Calls \ {c} :
             /\ lease'[x] = lease[x]
             /\ pc'[x] = pc[x] \/ (pc[x] = "sleeping" /\ pc'[x] = "acquire")
    BY <1>4 DEF InferReleases, Release, WakeAllAndGo, TypeOK
  <2> QED BY <1>4, <2>1, AwayKeepsTables DEF InferReleases, InTarget
<1> QED BY <1>3, <1>4

\* infer() outside the registry: only one routed call gets past the lookup.
LEMMA InferKeepsTables ==
  ASSUME TypeOK, RegistryInv, TableInv, NEW c \in Calls,
         InferBegins(c) \/ InferEnters(c) \/ InferPops(c)
  PROVE  TableInv'
<1>1. CASE InferBegins(c)
  <2>1. Moves(c, "new", "ended") \/ Moves(c, "new", "route")
    BY <1>1 DEF InferBegins
  <2>2. /\ \A x \in Calls \ {c} : pc'[x] = pc[x]
        /\ pc[c] = "new" /\ pc'[c] \in {"ended", "route"} /\ lease' = lease
    BY <2>1, MovesPlace
  <2> QED BY <1>1, <2>2, AwayKeepsTables DEF InferBegins, InTarget
<1>2. CASE InferEnters(c)
  <2>1. CASE Moves(c, "leased", "release") /\ UNCHANGED routerVars
    <3>1. /\ \A x \in Calls \ {c} : pc'[x] = pc[x]
          /\ pc[c] = "leased" /\ pc'[c] = "release" /\ lease' = lease
      BY <2>1, MovesPlace
    <3> QED BY <2>1, <3>1, AwayKeepsTables DEF InTarget
  <2>2. CASE Moves(c, "leased", Entry(c)) /\ ~Taken(c) /\ Enters(c) /\ UNCHANGED targetVars
    <3>1. /\ \A x \in Calls \ {c} : pc'[x] = pc[x]
          /\ pc[c] = "leased" /\ pc'[c] = Entry(c) /\ lease' = lease
      BY <2>2, MovesPlace
    <3>2. Target(c) \in Backends
      BY <3>1 DEF RegistryInv, CallInv, Leased, Target
    <3>3. Entry(c) \in {"managed", "serial", "pop"}
      BY <3>2, RouterAssumption DEF Entry
    <3>4. ActiveExact'
      <4>1. CASE c \in Routed
        <5>1. /\ active[IdOf[c]] = NoCall
              /\ active' = [active EXCEPT ![IdOf[c]] = c]
              /\ IdOf \in [Calls -> Ids] /\ NoCall \notin Calls
              /\ active \in [Ids -> Calls \cup {NoCall}]
          BY <2>2, <4>1, RouterAssumption DEF Taken, Enters, TypeOK
        <5> QED BY <3>1, <3>3, <4>1, <5>1 DEF TableInv, ActiveExact, InTarget
      <4>2. CASE c \notin Routed
        BY <2>2, <3>1, <4>2 DEF TableInv, ActiveExact, Enters
      <4> QED BY <4>1, <4>2
    <3>5. OwnersExact'
      BY <2>2, <3>3, SameOwners DEF TableInv, InTable, targetVars
    <3>6. CapacityExact'
      BY <2>2, <3>3, SameCapacity DEF TableInv, WithCapacity, targetVars
    <3>7. RecordInv'
      BY <2>2, <3>1 DEF TableInv, RecordInv, targetVars
    <3> QED BY <3>4, <3>5, <3>6, <3>7 DEF TableInv
  <2> QED BY <1>2, <2>1, <2>2 DEF InferEnters, routerVars
<1>3. CASE InferPops(c)
  <2>1. /\ \A x \in Calls \ {c} : pc'[x] = pc[x]
        /\ pc[c] = "pop" /\ pc'[c] = "release" /\ lease' = lease
    BY <1>3, MovesPlace DEF InferPops
  <2>2. ActiveExact'
    <3>1. CASE c \in Routed
      <4>1. /\ active[IdOf[c]] = c
            /\ active' = [active EXCEPT ![IdOf[c]] = NoCall]
            /\ IdOf \in [Calls -> Ids] /\ NoCall \notin Calls
            /\ active \in [Ids -> Calls \cup {NoCall}]
        BY <1>3, <2>1, <3>1, RouterAssumption DEF InferPops, TypeOK, TableInv, ActiveExact, InTarget
      <4> QED BY <2>1, <3>1, <4>1 DEF TableInv, ActiveExact, InTarget
    <3>2. CASE c \notin Routed
      BY <1>3, <2>1, <3>2 DEF TableInv, ActiveExact, InferPops
    <3> QED BY <3>1, <3>2
  <2>3. OwnersExact'
    BY <1>3, SameOwners DEF InferPops, TableInv, InTable, targetVars
  <2>4. CapacityExact'
    BY <1>3, SameCapacity DEF InferPops, TableInv, WithCapacity, targetVars
  <2>5. RecordInv'
    BY <1>3, <2>1 DEF InferPops, TableInv, RecordInv, targetVars
  <2> QED BY <2>2, <2>3, <2>4, <2>5 DEF TableInv
<1> QED BY <1>1, <1>2, <1>3

\* The managed backend: on every path out of generate() the id and the
\* capacity are given back once.
LEMMA ManagedKeepsTables ==
  ASSUME TypeOK, RegistryInv, TableInv, NEW c \in Calls, ManagedStep(c)
  PROVE  TableInv'
<1> USE DEF TableInv, InTarget, InTable, WithCapacity
<1>0. pc[c] \in InTarget /\ Target(c) \in Backends
  BY DEF ManagedStep, TakeCapacity, Admit, Post, PostHttp, PostLocal, Discard,
       DeadlineOver, Answered, GiveBack, Moves, RegistryInv, CallInv,
         Leased, Target
<1>1. ASSUME NEW from \in InTarget \ {"enlist", "wait"}, NEW to \in InTarget, Moves(c, from, to),
             UNCHANGED <<record, lost>>
      PROVE  RecordInv'
  BY <1>1, MovesPlace DEF RecordInv
<1>2. CASE TakeCapacity(c)
  BY <1>0, <1>1, <1>2, SameActive, SameOwners, SameCapacity, TakesCapacity DEF TakeCapacity
<1>3. CASE Admit(c)
  <2>1. CASE Moves(c, "admit", "pop") /\ GivesBack(c) /\ UNCHANGED <<active, working, record, lost>>
    BY <1>0, <1>1, <2>1, SameActive, SameOwners, ReturnsCapacity
  <2>2. CASE Moves(c, "admit", "post") /\ ~Duplicate(c) /\ Claim(c) /\ UNCHANGED <<active, free, record, lost>>
    BY <1>0, <1>1, <2>2, SameActive, ClaimExact, SameCapacity
  <2> QED BY <1>3, <2>1, <2>2 DEF Admit
<1>4. CASE Post(c)
  BY <1>0, <1>1, <1>4, SameActive, SameOwners, SameCapacity DEF Post, PostHttp, PostLocal, routerVars, targetVars
<1>5. CASE Discard(c)
  BY <1>0, <1>1, <1>5, SameActive, DisclaimExact, SameCapacity DEF Discard, DeadlineOver, Answered
<1>6. CASE GiveBack(c)
  BY <1>0, <1>1, <1>6, SameActive, SameOwners, ReturnsCapacity DEF GiveBack
<1> QED BY <1>2, <1>3, <1>4, <1>5, <1>6 DEF ManagedStep

\* The serial adapter: a record is open only while its call is on its way to
\* the wait or in it, or its sink has raised.
LEMMA SerialKeepsTables ==
  ASSUME TypeOK, RegistryInv, TableInv, NEW c \in Calls, SerialStep(c)
  PROVE  TableInv'
<1> USE DEF TableInv, InTarget, InTable, WithCapacity
<1>0. Target(c) \in Backends /\ IdOf[c] \in Ids /\ record \in [Calls -> {"none", "open", "cancelling", "ended"}]
  BY RouterAssumption
     DEF SerialStep, SerialSubmits, SerialEnlists, SerialEnds, Moves, RegistryInv, CallInv,
         Leased, Target, TypeOK
<1>1. CASE SerialSubmits(c)
  <2>1. ActiveExact' /\ OwnersExact' /\ CapacityExact'
    BY <1>1, SameActive, SameOwners, SameCapacity DEF SerialSubmits
  <2>2. RecordInv'
    BY <1>0, <1>1, MovesPlace DEF SerialSubmits, RecordInv
  <2> QED BY <2>1, <2>2
<1>2. CASE SerialEnlists(c)
  <2>1. CASE /\ Moves(c, "enlist", "pop") /\ UNCHANGED <<active, working, free, lost>>
             /\ record' = [record EXCEPT ![c] = IF @ = "open" THEN "cancelling" ELSE @]
    <3>1. ActiveExact' /\ OwnersExact' /\ CapacityExact'
      BY <2>1, SameActive, SameOwners, SameCapacity
    <3>2. RecordInv'
      BY <1>0, <2>1, MovesPlace DEF RecordInv
    <3> QED BY <3>1, <3>2
  <2>2. ASSUME NEW to \in {"wait", "withdraw"}, Moves(c, "enlist", to), ~Duplicate(c), Claim(c),
               UNCHANGED <<active, free, record>>,
               IF to = "wait" THEN lost' = lost ELSE lost' = lost \cup {c}
        PROVE  TableInv'
    <3>1. ActiveExact' /\ OwnersExact' /\ CapacityExact'
      BY <1>0, <2>2, SameActive, ClaimExact, SameCapacity
    <3>2. RecordInv'
      BY <1>0, <2>2, MovesPlace DEF RecordInv
    <3> QED BY <3>1, <3>2
  <2> QED BY <1>2, <2>1, <2>2 DEF SerialEnlists
<1>3. CASE SerialEnds(c)
  <2>1. PICK from \in {"wait", "withdraw"} :
          /\ Moves(c, from, "pop")
          /\ from = "wait" => record[c] = "ended"
    BY <1>3 DEF SerialEnds
  <2>2. Owner(Target(c), IdOf[c]) = c
    BY <1>0, <2>1, MovesPlace DEF OwnersExact, Owner, Target
  <2>3. Disclaim(c) /\ UNCHANGED <<active, free, record, lost>>
    BY <1>3, <2>2 DEF SerialEnds
  <2>4. ActiveExact' /\ OwnersExact' /\ CapacityExact'
    BY <1>0, <2>1, <2>3, SameActive, DisclaimExact, SameCapacity
  <2>5. RecordInv'
    BY <2>1, <2>3, MovesPlace DEF RecordInv
  <2> QED BY <2>4, <2>5
<1> QED BY <1>1, <1>2, <1>3 DEF SerialStep

-----------------------------------------------------------------------------
(***************************************************************************)
(* The theorems.                                                           *)
(***************************************************************************)

\* In the beginning nothing is registered, loaded, leased or running.
LEMMA InitHolds == Init => IInv
<1> SUFFICES ASSUME Init PROVE IInv
  OBVIOUS
<1> USE RegistryAssumption, RouterAssumption DEF Init, RegistryInit
<1>1. TypeOK
  BY DEF TypeOK, Places, NoLease
<1>2. \A b \in Backends : Holders(b) = {} /\ Inside(b) = {}
  BY DEF Holders, Inside, NoLease
<1>3. CallInv /\ LeaseInv /\ EntryInv /\ DrainInv /\ LoadInv /\ RecordInv
  BY DEF CallInv, LeaseInv, EntryInv, DrainInv, LoadInv, RecordInv, Loads, Leased, Trying,
         InTarget, NoLease
<1>4. IdsExact
  BY DEF IdsExact, Owner, InTarget, InTable
<1>5. LeaseCount /\ CapacityExact
  <2>1. Cardinality({}) = 0
    BY FS_EmptySet
  <2>2. ASSUME NEW b \in Backends
        PROVE  /\ active_leases[b] = Cardinality(Holders(b))
               /\ free[b] + Cardinality(Inside(b)) = Capacity[b]
    <3>1. active_leases[b] = 0 /\ free[b] = Capacity[b] /\ Capacity[b] \in Nat
      OBVIOUS
    <3>2. Cardinality(Holders(b)) = 0 /\ Cardinality(Inside(b)) = 0
      BY <1>2, <2>1
    <3> QED BY <3>1, <3>2
  <2> QED BY <2>2 DEF LeaseCount, CapacityExact
<1> QED BY <1>1, <1>3, <1>4, <1>5 DEF IInv

\* Every step of calls, admins and dispatcher keeps the invariant.
LEMMA StepHolds == IInv /\ [Next]_vars => IInv'
<1> SUFFICES ASSUME IInv, [Next]_vars PROVE IInv'
  OBVIOUS
<1>1. TypeOK /\ RegistryInv /\ TableInv
  BY IdsHalves DEF IInv, RegistryInv, TableInv
<1>2. TypeOK'
  BY <1>1, TypeStep DEF RegistryInv
<1>3. RegistryInv'
  BY <1>1, RegistryStep
<1>4. TableInv'
  <2>1. ASSUME UNCHANGED <<pc, lease, active, working, free>>, RecordInv' PROVE TableInv'
    BY <1>1, <2>1 DEF TableInv, ActiveExact, OwnersExact, CapacityExact, Inside, Holders
  <2>2. CASE UNCHANGED vars
    <3>1. RecordInv'
      BY <1>1, <2>2 DEF TableInv, RecordInv, vars, registryVars, callVars, routerVars, targetVars
    <3> QED BY <2>1, <2>2, <3>1 DEF vars, registryVars, callVars, routerVars, targetVars
  <2>3. ASSUME NEW c \in Calls, RecordEnds(c) \/ Cancel(c) PROVE TableInv'
    <3>1. RecordInv'
      BY <1>1, <2>3 DEF TableInv, RecordInv, RecordEnds, Cancel, registryVars, callVars, TypeOK
    <3> QED BY <2>1, <2>3, <3>1 DEF RecordEnds, Cancel, registryVars, callVars
  <2> QED
    BY <1>1, <2>2, <2>3, AcquireKeepsTables, OthersKeepTables, InferKeepsTables,
       ManagedKeepsTables, SerialKeepsTables
       DEF Next, CallStep
<1>5. ActiveExact' /\ OwnersExact' => IdsExact'
  BY IdsHalves, PTL
<1> QED BY <1>2, <1>3, <1>4, <1>5 DEF IInv, RegistryInv, TableInv

\* The inductive invariant of registry, router and backends.
THEOREM Invariance == Spec => []IInv
BY InitHolds, StepHolds, PTL DEF Spec

\* Loads, sweeps and unloads never overwrite or forget an engine that passed
\* the capability check of _acquire_name: it is the instance of its entry until
\* unload() has called its shutdown().  Nothing is said of an engine that was
\* refused, nor of one whose shutdown failed.
THEOREM AcceptedEnginesHeld == Spec => []EnginesHeld
<1>1. IInv => EnginesHeld
  BY DEF IInv, EnginesHeld, EntryInv
<1> QED BY <1>1, Invariance, PTL

\* Leases are counted exactly, and no lease outlives the instance it was given
\* out for: unload() and sweep() never shut down a backend in use.
THEOREM LeasesAreExact == Spec => []LeasesExact
<1>1. IInv => LeasesExact
  <2> SUFFICES ASSUME IInv PROVE LeasesExact
    OBVIOUS
  <2>1. ASSUME NEW b \in Backends
        PROVE  /\ active_leases[b] = Cardinality(Holders(b))
               /\ \A c \in Holders(b) :
                    /\ lifecycle[b] = "ready" /\ instance[b] \in up[b]
                    /\ lease[c].generation = generation[b] /\ lease[c].instance = instance[b]
    BY SMTT(30) DEF IInv, LeaseCount, LeaseInv, EntryInv, Holders
  <2>2. TypeOK /\ EnginesHeld
    BY DEF IInv, EnginesHeld, EntryInv
  <2> QED BY <2>1, <2>2 DEF LeasesExact
<1> QED BY <1>1, Invariance, PTL

\* A request id belongs to one call in the router and in each backend, and the
\* capacity of a managed backend is exactly what its calls have left.
THEOREM TablesAreExact == Spec => []TablesExact
<1>1. IInv => TablesExact
  BY DEF IInv, TablesExact
<1> QED BY <1>1, Invariance, PTL

\* A call of the serial adapter that is over left no open record in the
\* dispatcher, except through a sink that raised.
THEOREM NothingRunsOn == Spec => []NothingLeftRunning
<1>1. IInv => NothingLeftRunning
  BY DEF IInv, NothingLeftRunning, RecordInv, Ended
<1> QED BY <1>1, Invariance, PTL

\* A factory runs once at a time, and whoever sleeps in acquire() has somebody
\* who will notify it.
THEOREM NoLostWakeup == Spec => []NobodySleepsInVain
<1>1. IInv => NobodySleepsInVain
  <2> SUFFICES ASSUME IInv PROVE NobodySleepsInVain
    OBVIOUS
  <2>1. OneLoader
    <3> SUFFICES ASSUME NEW b \in Backends
                 PROVE  lifecycle[b] = "loading" <=>
                          \E c \in Calls : Loads(c, b) /\ \A x \in Calls : Loads(x, b) => x = c
      BY DEF OneLoader
    <3> QED BY DEF IInv, LoadInv, Loads
  <2> QED BY <2>1 DEF NobodySleepsInVain, IInv, LoadInv
<1> QED BY <1>1, Invariance, PTL
==============================================================================
