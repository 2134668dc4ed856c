--------------------------- MODULE BackendRegistry ---------------------------
(***************************************************************************)
(* BackendRegistry (inference_runtime/registry.py): backends loaded on     *)
(* demand, leased to callers, unloaded when idle.                          *)
(*                                                                         *)
(* Actors: the calls that acquire and release a lease (what they do with   *)
(* it is InferenceRouter's), and the admins: threads in sweep() or in      *)
(* unload().  A section under `_condition' is one step; the factory and    *)
(* the shutdown of an instance run between two such sections.  A thread in *)
(* wait() sleeps until a notify_all.  An instance is the generation it was *)
(* loaded as.  The clock is left out: any backend in nobody's use may have *)
(* been idle for keepalive_seconds.                                        *)
(***************************************************************************)
EXTENDS Naturals, FiniteSets

CONSTANTS
  Calls, Admins,
  Backends, NoBackend,
  Rank,       \* position of a backend by (-priority, name)
  Serves      \* the backends that declare what a call requires

ASSUME RegistryAssumption ==
  /\ IsFiniteSet(Calls) /\ NoBackend \notin Backends
  /\ Rank \in [Backends -> Nat]
  /\ \A a, b \in Backends : Rank[a] = Rank[b] => a = b
  /\ Serves \in [Calls -> SUBSET Backends]

VARIABLES
  registered,  \* names in _entries
  lifecycle, generation, instance, active_leases, \* fields of each _Entry
  up,          \* instances accepted from a factory and not yet told to shut down
  pc,          \* where each call is
  todo,        \* the candidates it has not tried yet
  lease,       \* the BackendLease it holds
  task,        \* the backend an admin is shutting down
  targets      \* what its sweep() has still to unload

entryVars == <<registered, lifecycle, generation, instance, active_leases>>
callVars  == <<pc, todo, lease>>
adminVars == <<task, targets>>
registryVars == <<entryVars, up, callVars, adminVars>>

NoLease == [name |-> NoBackend, generation |-> 0, instance |-> 0]

LeaseOn(b, g, i) == [name |-> b, generation |-> g, instance |-> i]

\* notify_all, while call c goes on at the given place.
WakeAllAndGo(c, place) ==
  pc' = [x \in Calls |-> IF x = c THEN place
                         ELSE IF pc[x] = "sleeping" THEN "acquire" ELSE pc[x]]

WakeAll == pc' = [x \in Calls |-> IF pc[x] = "sleeping" THEN "acquire" ELSE pc[x]]

-----------------------------------------------------------------------------
(***************************************************************************)
(* register() and acquire().                                               *)
(***************************************************************************)

\* A second registration of a name is refused.
Register(b) ==
  /\ b \notin registered
  /\ registered' = registered \cup {b}
  /\ UNCHANGED <<lifecycle, generation, instance, active_leases, up, callVars, adminVars>>

\* _candidate_names: what is registered by now and serves the call.
Route(c) ==
  /\ pc[c] = "route"
  /\ todo' = [todo EXCEPT ![c] = registered \cap Serves[c]]
  /\ pc'   = [pc EXCEPT ![c] = IF todo'[c] = {} THEN "refused" ELSE "acquire"]
  /\ UNCHANGED <<entryVars, up, lease, adminVars>>

\* The first of some names by descending priority.
First(names) == CHOOSE b \in names : \A x \in names : Rank[b] <= Rank[x]

\* The candidate acquire() tries next.
Candidate(c) == First(todo[c])

\* Where acquire() goes after a candidate failed.
AfterFailure(c) == IF todo[c] = {Candidate(c)} THEN "refused" ELSE "acquire"

DropCandidate(c) == todo' = [todo EXCEPT ![c] = @ \ {Candidate(c)}]

At(c, place, states) == pc[c] = place /\ lifecycle[Candidate(c)] \in states

\* Somebody else loads it: sleep until notified, then look again.
AcquireWait(c) ==
  /\ At(c, "acquire", {"loading"})
  /\ pc' = [pc EXCEPT ![c] = "sleeping"]
  /\ UNCHANGED <<entryVars, up, todo, lease, adminVars>>

AcquireDraining(c) ==
  /\ At(c, "acquire", {"draining"})
  /\ pc' = [pc EXCEPT ![c] = AfterFailure(c)]
  /\ DropCandidate(c)
  /\ UNCHANGED <<entryVars, up, lease, adminVars>>

AcquireReady(c) ==
  /\ At(c, "acquire", {"ready"})
  /\ LET b == Candidate(c) IN
     /\ active_leases' = [active_leases EXCEPT ![b] = @ + 1]
     /\ lease' = [lease EXCEPT ![c] = LeaseOn(b, generation[b], instance[b])]
  /\ pc' = [pc EXCEPT ![c] = "leased"]
  /\ UNCHANGED <<registered, lifecycle, generation, instance, up, todo, adminVars>>

\* This call loads it; everybody else waits from now on.
AcquireLoad(c) ==
  /\ At(c, "acquire", {"unloaded", "failed"})
  /\ lifecycle' = [lifecycle EXCEPT ![Candidate(c)] = "loading"]
  /\ pc' = [pc EXCEPT ![c] = "loading"]
  /\ UNCHANGED <<registered, generation, instance, active_leases, up,
                 todo, lease, adminVars>>

\* Mutation: the waiters are not told of a failed load.
LoadFailsSilently(c) ==
  /\ pc[c] = "loading"
  /\ lifecycle' = [lifecycle EXCEPT ![Candidate(c)] = "failed"]
  /\ instance'  = [instance EXCEPT ![Candidate(c)] = 0]
  /\ pc' = [pc EXCEPT ![c] = AfterFailure(c)]
  /\ DropCandidate(c)
  /\ UNCHANGED <<registered, generation, active_leases, up, lease, adminVars>>

\* The factory raises, or what it built differs from its declaration: the
\* registry drops it without a shutdown and never counts it among its own.
LoadFails(c) ==
  /\ pc[c] = "loading"
  /\ lifecycle' = [lifecycle EXCEPT ![Candidate(c)] = "failed"]
  /\ instance'  = [instance EXCEPT ![Candidate(c)] = 0]
  /\ WakeAllAndGo(c, AfterFailure(c))
  /\ DropCandidate(c)
  /\ UNCHANGED <<registered, generation, active_leases, up, lease, adminVars>>

LoadSucceeds(c) ==
  /\ pc[c] = "loading"
  /\ LET b == Candidate(c) g == generation[b] + 1 IN
     /\ up' = [up EXCEPT ![b] = @ \cup {g}]
     /\ instance'      = [instance EXCEPT ![b] = g]
     /\ generation'    = [generation EXCEPT ![b] = g]
     /\ active_leases' = [active_leases EXCEPT ![b] = 1]
     /\ lifecycle' = [lifecycle EXCEPT ![b] = "ready"]
     /\ lease'     = [lease EXCEPT ![c] = LeaseOn(b, g, g)]
  /\ WakeAllAndGo(c, "leased")
  /\ UNCHANGED <<registered, todo, adminVars>>

-----------------------------------------------------------------------------
(***************************************************************************)
(* release(), unload() and sweep().                                        *)
(***************************************************************************)

\* A lease of another generation is not counted; neither is a surplus one.
Release(c, place) ==
  LET b == lease[c].name IN
  /\ lease' = [lease EXCEPT ![c] = NoLease]
  /\ IF generation[b] = lease[c].generation /\ active_leases[b] # 0
       THEN /\ active_leases' = [active_leases EXCEPT ![b] = @ - 1]
            /\ WakeAllAndGo(c, place)
       ELSE /\ pc' = [pc EXCEPT ![c] = place]
            /\ UNCHANGED active_leases
  /\ UNCHANGED <<registered, lifecycle, generation, instance, up, todo, adminVars>>

\* Mutation: what the sweep saw is taken for granted.
UnloadableBusy(b) == lifecycle[b] \in {"ready", "failed"}

\* unload() goes on: loaded or failed, and nobody holds a lease.
Unloadable(b) == lifecycle[b] \in {"ready", "failed"} /\ active_leases[b] = 0

BeginUnload(a, b) ==
  /\ lifecycle' = [lifecycle EXCEPT ![b] = "draining"]
  /\ task' = [task EXCEPT ![a] = b]

Unload(a, b) ==
  /\ task[a] = NoBackend /\ targets[a] = {}
  /\ b \in registered /\ Unloadable(b)
  /\ BeginUnload(a, b)
  /\ UNCHANGED <<registered, generation, instance, active_leases, up,
                 callVars, targets>>

\* shutdown() was called: the instance has stopped or may run on, and either
\* way the registry lets go of it.
UnloadEnds(a) ==
  LET b == task[a] IN
  /\ b # NoBackend
  /\ \/ lifecycle' = [lifecycle EXCEPT ![b] = "unloaded"]
     \/ instance[b] # 0 /\ lifecycle' = [lifecycle EXCEPT ![b] = "failed"]
  /\ up' = [up EXCEPT ![b] = @ \ {instance[b]}]
  /\ instance' = [instance EXCEPT ![b] = 0]
  /\ WakeAll
  /\ task' = [task EXCEPT ![a] = NoBackend]
  /\ UNCHANGED <<registered, generation, active_leases, todo, lease, targets>>

\* sweep() notes backends that are idle in a section of its own ...
Sweep(a) ==
  /\ task[a] = NoBackend /\ targets[a] = {}
  /\ \E idle \in SUBSET {b \in registered : lifecycle[b] = "ready" /\ active_leases[b] = 0} :
       targets' = [targets EXCEPT ![a] = idle]
  /\ UNCHANGED <<entryVars, up, callVars, task>>

\* ... and unloads them one by one; what was leased meanwhile is left alone.
SweepNext(a) ==
  /\ task[a] = NoBackend
  /\ \E b \in targets[a] :
       /\ targets' = [targets EXCEPT ![a] = @ \ {b}]
       /\ IF Unloadable(b) THEN BeginUnload(a, b) ELSE UNCHANGED <<lifecycle, task>>
  /\ UNCHANGED <<registered, generation, instance, active_leases, up, callVars>>

RegistryInit ==
  /\ registered = {}
  /\ lifecycle = [b \in Backends |-> "unloaded"]
  /\ generation = [b \in Backends |-> 0] /\ instance = [b \in Backends |-> 0]
  /\ active_leases = [b \in Backends |-> 0]
  /\ up = [b \in Backends |-> {}]
  /\ pc = [c \in Calls |-> "new"] /\ todo = [c \in Calls |-> {}]
  /\ lease = [c \in Calls |-> NoLease]
  /\ task = [a \in Admins |-> NoBackend] /\ targets = [a \in Admins |-> {}]

AcquireStep(c) ==
  \/ Route(c) \/ AcquireWait(c) \/ AcquireDraining(c) \/ AcquireReady(c) \/ AcquireLoad(c)
  \/ LoadFails(c) \/ LoadSucceeds(c)

AdminStep(a) ==
  \/ \E b \in Backends : Unload(a, b)
  \/ UnloadEnds(a) \/ Sweep(a) \/ SweepNext(a)
==============================================================================
