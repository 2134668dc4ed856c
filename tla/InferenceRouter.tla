--------------------------- MODULE InferenceRouter ---------------------------
(***************************************************************************)
(* InferenceRouter (inference_runtime/router.py) over the BackendRegistry, *)
(* with the full-request backends it leads to: the managed backend of      *)
(* adapters/openai_compatible.py over an HTTP or an MLX transport          *)
(* (adapters/mlx_lm.py), and the serial adapter of the model worker        *)
(* (adapters/model_worker.py).                                             *)
(*                                                                         *)
(* A call either goes through the router or takes its lease from the       *)
(* registry itself.  What is asked and answered is left out: a call that   *)
(* raises goes the way of one that returns, through the same finally       *)
(* blocks.  Published events are left out too, but a sink that raises is   *)
(* not.  The dispatcher behind the serial adapter is Dispatcher's; here a  *)
(* record ends at some time.                                               *)
(***************************************************************************)
EXTENDS BackendRegistry

CONSTANTS
  Routed,     \* the calls of router.infer; the others hold a lease themselves
  Ids, IdOf,  \* request ids
  NoCall,
  Kind,       \* what each backend offers: "managed", "serial" or "steppable"
  Capacity,   \* max_concurrent_requests of a managed backend
  Local       \* managed backends on MLXLocalTransport

ASSUME RouterAssumption ==
  /\ Routed \subseteq Calls /\ IdOf \in [Calls -> Ids] /\ NoCall \notin Calls
  /\ Kind \in [Backends -> {"managed", "serial", "steppable"}]
  /\ Capacity \in [Backends -> Nat \ {0}] /\ Local \subseteq Backends

VARIABLES
  active,   \* the router's _active: the call that owns each id
  working,  \* _active of each backend's instance: the call that owns each id
  free,     \* value of each managed backend's semaphore
  record,   \* the dispatcher's record of a call: "none", "open", "cancelling", "ended"
  lost      \* calls left by an event sink that raised

targetVars == <<working, free, record, lost>>
routerVars == <<active, targetVars>>
vars == <<registryVars, routerVars>>

Target(c) == lease[c].name

\* The call that has the id in the table of b's instance.
Owner(b, i) == working[b][i]

Duplicate(c) == Owner(Target(c), IdOf[c]) # NoCall

Claim(c) == working' = [working EXCEPT ![Target(c)][IdOf[c]] = c]

Disclaim(c) == working' = [working EXCEPT ![Target(c)][IdOf[c]] = NoCall]

\* A step of call c outside the registry.
Moves(c, from, to) ==
  /\ pc[c] = from /\ pc' = [pc EXCEPT ![c] = to]
  /\ UNCHANGED <<entryVars, up, todo, lease, adminVars>>

-----------------------------------------------------------------------------
(***************************************************************************)
(* InferenceRouter.infer and cancel.                                       *)
(***************************************************************************)

\* The id of a routed call is in use.
Taken(c) == c \in Routed /\ active[IdOf[c]] # NoCall

InferBegins(c) ==
  /\ Moves(c, "new", IF Taken(c) THEN "ended" ELSE "route")
  /\ UNCHANGED routerVars

\* What the call does with its target; one that only steps sequences is no route.
Entry(c) == IF Kind[Target(c)] = "steppable" THEN "pop" ELSE Kind[Target(c)]

Enters(c) == active' = IF c \in Routed THEN [active EXCEPT ![IdOf[c]] = c] ELSE active

\* With the lease in hand the id is looked up again, and the target called.
InferEnters(c) ==
  /\ \/ Moves(c, "leased", "release") /\ Taken(c) /\ UNCHANGED active
     \/ Moves(c, "leased", Entry(c)) /\ ~Taken(c) /\ Enters(c)
  /\ UNCHANGED targetVars

\* The finally block: the id first, then the lease.
InferPops(c) ==
  /\ Moves(c, "pop", "release")
  /\ active' = IF c \in Routed THEN [active EXCEPT ![IdOf[c]] = NoCall] ELSE active
  /\ UNCHANGED targetVars

InferReleases(c) ==
  /\ pc[c] = "release"
  /\ Release(c, "ended")
  /\ UNCHANGED routerVars

\* cancel() looks up the target under the router's lock and tells it outside,
\* where the id may belong to another call by now.  The serial adapter cancels
\* whatever record has the id; of the transports here none can cancel.
Cancel(c) ==
  /\ record[c] = "open" /\ \E b \in Backends : Owner(b, IdOf[c]) = c
  /\ record' = [record EXCEPT ![c] = "cancelling"]
  /\ UNCHANGED <<registryVars, active, working, free, lost>>

-----------------------------------------------------------------------------
(***************************************************************************)
(* OpenAICompatibleManagedBackend.generate.                                *)
(***************************************************************************)

GivesBack(c) == free' = [free EXCEPT ![Target(c)] = @ + 1]

\* The semaphore is taken within the queue timeout, or the call fails, as it
\* does for a model that is not served.
TakeCapacity(c) ==
  /\ \/ /\ Moves(c, "managed", "admit") /\ free[Target(c)] > 0
        /\ free' = [free EXCEPT ![Target(c)] = @ - 1]
     \/ Moves(c, "managed", "pop") /\ UNCHANGED free
  /\ UNCHANGED <<active, working, record, lost>>

\* Mutation: a duplicate keeps the capacity it took.
DuplicateKeepsCapacity(c) ==
  /\ \/ Moves(c, "admit", "pop") /\ Duplicate(c) /\ UNCHANGED working
     \/ Moves(c, "admit", "post") /\ ~Duplicate(c) /\ Claim(c)
  /\ UNCHANGED <<active, free, record, lost>>

\* A duplicate gives the capacity back and fails.
Admit(c) ==
  /\ \/ Moves(c, "admit", "pop") /\ Duplicate(c) /\ GivesBack(c) /\ UNCHANGED working
     \/ Moves(c, "admit", "post") /\ ~Duplicate(c) /\ Claim(c) /\ UNCHANGED free
  /\ UNCHANGED <<active, record, lost>>

\* UrllibJSONTransport.post_json: a request of its own.
PostHttp(c) == Moves(c, "post", "posting") /\ Target(c) \notin Local

\* An MLX runtime completes one prompt at a time, under its lock.
RuntimeFree(b) == \A x \in Calls : ~(pc[x] = "posting" /\ Target(x) = b)

\* MLXLocalTransport.post_json, which waits for the runtime however long.
PostLocal(c) == Moves(c, "post", "posting") /\ Target(c) \in Local /\ RuntimeFree(Target(c))

Post(c) == (PostHttp(c) \/ PostLocal(c)) /\ UNCHANGED routerVars

\* The deadline was over before the post.
DeadlineOver(c) == Moves(c, "post", "give_back")

\* The provider failed, or answered what _result accepts or does not.
Answered(c) == Moves(c, "posting", "give_back")

\* The finally block drops the id ...
Discard(c) ==
  /\ DeadlineOver(c) \/ Answered(c)
  /\ Disclaim(c)
  /\ UNCHANGED <<active, free, record, lost>>

\* ... and then the semaphore.
GiveBack(c) ==
  /\ Moves(c, "give_back", "pop") /\ GivesBack(c)
  /\ UNCHANGED <<active, working, record, lost>>

-----------------------------------------------------------------------------
(***************************************************************************)
(* SerialModelWorkerAdapter.generate.                                      *)
(***************************************************************************)

\* The request is submitted, unless its deadline is over, its id in use or
\* the dispatcher refuses it.
SerialSubmits(c) ==
  /\ \/ Moves(c, "serial", "pop") /\ UNCHANGED record
     \/ /\ Moves(c, "serial", "enlist") /\ ~Duplicate(c)
        /\ record' = [record EXCEPT ![c] = "open"]
  /\ UNCHANGED <<active, working, free, lost>>

\* Mutation: a duplicate leaves its record to the dispatcher.
DuplicateRunsOn(c) ==
  /\ \/ Moves(c, "enlist", "pop") /\ Duplicate(c) /\ UNCHANGED <<working, lost>>
     \/ Moves(c, "enlist", "wait") /\ ~Duplicate(c) /\ Claim(c) /\ UNCHANGED lost
     \/ Moves(c, "enlist", "withdraw") /\ ~Duplicate(c) /\ Claim(c) /\ lost' = lost \cup {c}
  /\ UNCHANGED <<active, free, record>>

\* The id is looked up again; the record of a duplicate is cancelled.  The
\* sink is called unguarded: when it raises, the record runs on.
SerialEnlists(c) ==
  /\ \/ /\ Moves(c, "enlist", "pop") /\ Duplicate(c)
        /\ record' = [record EXCEPT ![c] = IF @ = "open" THEN "cancelling" ELSE @]
        /\ UNCHANGED <<working, lost>>
     \/ /\ \/ Moves(c, "enlist", "wait") /\ UNCHANGED lost
           \/ Moves(c, "enlist", "withdraw") /\ lost' = lost \cup {c}
        /\ ~Duplicate(c) /\ Claim(c)
        /\ UNCHANGED record
  /\ UNCHANGED <<active, free>>

\* dispatcher.wait has returned, or the sink raised.  The finally block gives
\* up the id if it is still this call's.
SerialEnds(c) ==
  /\ \/ Moves(c, "wait", "pop") /\ record[c] = "ended"
     \/ Moves(c, "withdraw", "pop")
  /\ IF Owner(Target(c), IdOf[c]) = c THEN Disclaim(c) ELSE UNCHANGED working
  /\ UNCHANGED <<active, free, record, lost>>

\* The dispatcher settles a record, cancelled or not.
RecordEnds(c) ==
  /\ record[c] \in {"open", "cancelling"}
  /\ record' = [record EXCEPT ![c] = "ended"]
  /\ UNCHANGED <<registryVars, active, working, free, lost>>

-----------------------------------------------------------------------------

\* A new instance has a semaphore and a table of its own.
FreshTarget(b) ==
  /\ working' = [working EXCEPT ![b] = [i \in Ids |-> NoCall]]
  /\ free' = [free EXCEPT ![b] = Capacity[b]]

Acquires(c) ==
  /\ AcquireStep(c)
  /\ IF generation' = generation THEN UNCHANGED <<working, free>>
                                 ELSE FreshTarget(Candidate(c))
  /\ UNCHANGED <<active, record, lost>>

Init ==
  /\ RegistryInit
  /\ active = [i \in Ids |-> NoCall]
  /\ working = [b \in Backends |-> [i \in Ids |-> NoCall]]
  /\ free = [b \in Backends |-> Capacity[b]]
  /\ record = [c \in Calls |-> "none"] /\ lost = {}

ManagedStep(c) == TakeCapacity(c) \/ Admit(c) \/ Post(c) \/ Discard(c) \/ GiveBack(c)

SerialStep(c) == SerialSubmits(c) \/ SerialEnlists(c) \/ SerialEnds(c)

CallStep(c) ==
  \/ Acquires(c) \/ InferEnters(c) \/ InferPops(c) \/ InferReleases(c)
  \/ ManagedStep(c) \/ SerialStep(c)

OutsideStep ==
  /\ \/ \E b \in Backends : Register(b)
     \/ \E a \in Admins : AdminStep(a)
  /\ UNCHANGED routerVars

Next ==
  \/ \E c \in Calls : InferBegins(c) \/ CallStep(c) \/ RecordEnds(c) \/ Cancel(c)
  \/ OutsideStep

Spec == Init /\ [][Next]_vars

-----------------------------------------------------------------------------
(***************************************************************************)
(* Properties.                                                             *)
(***************************************************************************)

Places == {"new", "route", "acquire", "sleeping", "loading", "refused", "leased",
           "managed", "admit", "post", "posting", "give_back",
           "serial", "enlist", "wait", "withdraw", "pop", "release", "ended"}

\* Type invariant.
TypeOK ==
  /\ registered \subseteq Backends
  /\ lifecycle \in [Backends -> {"unloaded", "loading", "ready", "draining", "failed"}]
  /\ generation \in [Backends -> Nat] /\ instance \in [Backends -> Nat]
  /\ active_leases \in [Backends -> Nat] /\ up \in [Backends -> SUBSET Nat]
  /\ pc \in [Calls -> Places] /\ todo \in [Calls -> SUBSET Backends]
  /\ lease \in [Calls -> [name : Backends \cup {NoBackend}, generation : Nat, instance : Nat]]
  /\ task \in [Admins -> Backends \cup {NoBackend}] /\ targets \in [Admins -> SUBSET Backends]
  /\ active \in [Ids -> Calls \cup {NoCall}]
  /\ working \in [Backends -> [Ids -> Calls \cup {NoCall}]]
  /\ free \in [Backends -> Nat]
  /\ record \in [Calls -> {"none", "open", "cancelling", "ended"}] /\ lost \subseteq Calls

\* Call c runs the factory of b.
Loads(c, b) == pc[c] = "loading" /\ Candidate(c) = b

Holders(b) == {c \in Calls : lease[c].name = b}

\* The registry keeps hold of each engine it has accepted until it calls its
\* shutdown(): none is overwritten by a second load or forgotten.  An engine
\* it refused, or one that did not confirm its shutdown, is none of its own
\* any more and may run beside the next one.
EnginesHeld == \A b \in Backends : up[b] = {instance[b]} \ {0}

\* The state is well typed, the registry holds the engines it accepted and
\* counts its leases exactly, and a leased backend stays loaded: whatever
\* loads, sweeps, unloads and failures come in between, a lease names the
\* ready instance of the current generation, which was not told to shut down.
LeasesExact ==
  /\ TypeOK /\ EnginesHeld
  /\ \A b \in Backends :
       /\ active_leases[b] = Cardinality(Holders(b))
       /\ \A c \in Holders(b) :
            /\ lifecycle[b] = "ready" /\ instance[b] \in up[b]
            /\ lease[c].generation = generation[b] /\ lease[c].instance = instance[b]

WithCapacity == {"admit", "post", "posting", "give_back"}

Inside(b) == {c \in Holders(b) : pc[c] \in WithCapacity}

\* Capacity is never lost or handed out twice, on no path out of generate().
CapacityExact ==
  \A b \in Backends : free[b] + Cardinality(Inside(b)) = Capacity[b]

InTarget == {"managed", "admit", "post", "posting", "give_back",
             "serial", "enlist", "wait", "withdraw", "pop"}

InTable == {"post", "posting", "wait", "withdraw"}

\* An id belongs to one call: the tables of router and backends hold exactly
\* the calls under way, each in the places between its entry and its exit.
IdsExact ==
  \A c \in Calls, i \in Ids :
    /\ active[i] = c <=> c \in Routed /\ IdOf[c] = i /\ pc[c] \in InTarget
    /\ \A b \in Backends :
         Owner(b, i) = c <=> Target(c) = b /\ IdOf[c] = i /\ pc[c] \in InTable

\* Router and backends account for every call: its capacity and its id.
TablesExact == CapacityExact /\ IdsExact

Ended(c) == pc[c] \in {"ended", "refused"}

\* A call that is over leaves no request running in the dispatcher that nobody
\* waits for and nobody cancelled, unless its own event sink raised.
NothingLeftRunning ==
  \A c \in Calls : Ended(c) /\ record[c] = "open" => c \in lost

\* An entry is loading while exactly one call runs its factory: nobody runs one
\* beside it, and no entry is left loading by a call that went on.
OneLoader ==
  \A b \in Backends :
    lifecycle[b] = "loading" <=> \E c \in Calls : Loads(c, b) /\ \A x \in Calls : Loads(x, b) => x = c

\* No wakeup is lost: a call sleeps only while another one loads the backend
\* it waits for, and that one will notify it.
NobodySleepsInVain ==
  /\ OneLoader
  /\ \A c \in Calls : pc[c] = "sleeping" => lifecycle[Candidate(c)] = "loading"
==============================================================================
