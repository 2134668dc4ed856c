---------------------------- MODULE SequenceCache ----------------------------
(***************************************************************************)
(* SequenceStateCache (inference_runtime/cache.py): a bounded cache of     *)
(* prefix and session states with shared and copy-on-write leases.         *)
(*                                                                         *)
(* Every method runs under the lock except commit_session, which checks    *)
(* its lease, puts and releases in three sections.  A client is a thread   *)
(* that holds at most one lease and gives it back once.  Which unleased    *)
(* entry is least recently used is left open: any may be evicted.  put and *)
(* acquire read the clock before they take the lock, so entries that       *)
(* expired since may be missed.                                            *)
(***************************************************************************)
EXTENDS Naturals, FiniteSets, FiniteSetsExt

CONSTANTS Clients,
          Ids,         \* entry ids; a fresh one is never in use
          Keys, KindOf, \* exact-token keys and their kind
          Scopes,      \* [tenant, workflow, agent, visibility]
          Sizes,       \* payload lengths
          ByteBudget, MaxEntries,
          NoId         \* "no entry"

ASSUME CacheAssumption ==
  /\ IsFiniteSet(Clients) /\ NoId \notin Ids
  /\ KindOf \in [Keys -> {"prefix", "session"}]
  /\ Keys # {} /\ Scopes # {} /\ Sizes # {} /\ Sizes \subseteq Nat \ {0}
  /\ ByteBudget \in Nat \ {0} /\ MaxEntries \in Nat \ {0}

VARIABLES
  live,      \* keys of _entries
  entry,     \* their immutable part: key, scope, size, ephemeral
  refs,      \* refcount
  index,     \* _index
  bytesUsed, \* _bytes_used
  stale,     \* entries past their expires_at
  lease,     \* the lease of each client: entry id, key, mutable
  step       \* where each client is: "idle", "holding", "put", "release"

cacheVars == <<live, entry, refs, index, bytesUsed, stale>>
sequenceCacheVars == <<cacheVars, lease, step>>

NoLease == [id |-> NoId, mutable |-> FALSE]

-----------------------------------------------------------------------------

\* CacheScope.allows
Allows(s, requester) ==
  /\ s.tenant = requester.tenant
  /\ \/ s.visibility = "tenant"
     \/ s.visibility = "workflow" /\ s.workflow = requester.workflow
     \/ s.workflow = requester.workflow /\ s.agent = requester.agent

Rank(s) == CASE s.visibility = "private"  -> 0
             [] s.visibility = "workflow" -> 1
             [] s.visibility = "tenant"   -> 2

Unleased == {e \in live : refs[e] = 0}

Bytes(S) == MapThenSumSet(LAMBDA e : entry[e].size, S)

Pointers(S) == {<<entry[e].key, entry[e].scope>> : e \in {x \in S : ~entry[x].ephemeral}}

\* Mutation: the index entry of the shared state goes with its clone.
DropPointers(S, idx) ==
  [p \in Keys \X Scopes |->
     IF \E e \in S : p = <<entry[e].key, entry[e].scope>> THEN NoId ELSE idx[p]]

\* What _remove_locked leaves of the index for the entries of S: a clone was
\* never indexed.
Unindexed(S, idx) == [p \in Keys \X Scopes |-> IF p \in Pointers(S) THEN NoId ELSE idx[p]]

\* Mutation: off by one in the number of entries.
FitsOneMore(L, n) == Bytes(L) + n <= ByteBudget /\ Cardinality(L) <= MaxEntries

Fits(L, n) == Bytes(L) + n <= ByteBudget /\ Cardinality(L) < MaxEntries

\* _ensure_capacity_locked: the sets it may evict from L before a payload of
\* n bytes fits.  The last victim was needed; none if leases pin too much.
Evictions(L, n) ==
  {V \in SUBSET (L \cap Unleased) :
     /\ Fits(L \ V, n)
     /\ V # {} => \E v \in V : ~Fits((L \ V) \cup {v}, n)}

FreshIds == {e \in Ids \ live : \A c \in Clients : lease[c].id # e}

-----------------------------------------------------------------------------

\* _remove_locked, for the entries of S.
Removed(S) ==
  /\ live' = live \ S
  /\ index' = Unindexed(S, index)
  /\ bytesUsed' = bytesUsed - Bytes(S)
  /\ stale' = stale \ S

\* Entries S make room for a new entry e.
Replaced(S, e, new, count) ==
  /\ live' = (live \ S) \cup {e}
  /\ entry' = [entry EXCEPT ![e] = new]
  /\ refs' = [refs EXCEPT ![e] = count]
  /\ bytesUsed' = (bytesUsed - Bytes(S)) + new.size
  /\ stale' = stale \ (S \cup {e})

\* put(): prunes, drops the entry it replaces, makes room and inserts.  If
\* there is no room, what was removed stays removed.
PutAfter(gone, k, s, n) ==
  LET old  == {e \in live \ gone : index[<<k, s>>] = e}
      rest == live \ (gone \cup old)
  IN IF \E e \in old : refs[e] > 0
       THEN Removed(gone) /\ UNCHANGED <<entry, refs>>
     ELSE IF Evictions(rest, n) = {}
       THEN Removed(gone \cup old \cup (rest \cap Unleased)) /\ UNCHANGED <<entry, refs>>
     ELSE \E V \in Evictions(rest, n), e \in FreshIds :
            LET S == gone \cup old \cup V IN
            /\ Replaced(S, e, [key |-> k, scope |-> s, size |-> n, ephemeral |-> FALSE], 0)
            /\ index' = [Unindexed(S, index) EXCEPT ![<<k, s>>] = e]

Inserted(k, s) == index'[<<k, s>>] \in live' \ live

Put(k, s, n) ==
  /\ n <= ByteBudget
  /\ \E gone \in SUBSET (stale \cap Unleased) : PutAfter(gone, k, s, n)
  /\ UNCHANGED <<lease, step>>

Candidates(L, k, requester) ==
  {e \in L : ~entry[e].ephemeral /\ entry[e].key = k /\ Allows(entry[e].scope, requester)}

Narrowest(C) == {e \in C : \A f \in C : Rank(entry[e].scope) <= Rank(entry[f].scope)}

\* Mutation: a mutable lease shares the entry another one is changing.
NeverCopies(e, mutable) == FALSE

\* copy_on_write
CopyOnWrite(e, mutable) == mutable /\ refs[e] > 0

Lease(c, e, mutable) ==
  /\ lease' = [lease EXCEPT ![c] = [id |-> e, mutable |-> mutable]]
  /\ step' = [step EXCEPT ![c] = "holding"]

\* acquire() of an entry: shared, or a private copy if it is in use already.
Acquire(c, k, requester, mutable) ==
  /\ step[c] = "idle" /\ (mutable => KindOf[k] = "session")
  /\ \E gone \in SUBSET (stale \cap Unleased) :
       LET L == live \ gone IN
       \/ /\ Candidates(L, k, requester) = {}
          /\ Removed(gone)
          /\ UNCHANGED <<entry, refs, lease, step>>
       \/ \E e \in Narrowest(Candidates(L, k, requester)) :
            IF ~CopyOnWrite(e, mutable)
              THEN /\ live' = L
                   /\ index' = Unindexed(gone, index)
                   /\ bytesUsed' = bytesUsed - Bytes(gone)
                   /\ refs' = [refs EXCEPT ![e] = @ + 1]
                   /\ stale' = stale \ (gone \cup {e})
                   /\ Lease(c, e, mutable)
                   /\ UNCHANGED entry
            ELSE IF Evictions(L, entry[e].size) = {}
              THEN Removed(gone \cup Unleased) /\ UNCHANGED <<entry, refs, lease, step>>
            ELSE \E V \in Evictions(L, entry[e].size), f \in FreshIds :
                   /\ Replaced(gone \cup V, f,
                        [key |-> k, scope |-> requester, size |-> entry[e].size,
                         ephemeral |-> TRUE], 1)
                   /\ index' = Unindexed(gone \cup V, index)
                   /\ Lease(c, f, mutable)

-----------------------------------------------------------------------------

\* _lease_entry_locked accepts the lease.
Valid(c) == lease[c].id \in live /\ refs[lease[c].id] > 0

\* release(): a clone goes with its only lease.
Released(e) ==
  IF e \notin live \/ refs[e] = 0
    THEN UNCHANGED cacheVars
    ELSE /\ refs' = [refs EXCEPT ![e] = @ - 1]
         /\ IF entry[e].ephemeral /\ refs[e] = 1
              THEN Removed({e}) ELSE UNCHANGED <<live, index, bytesUsed, stale>>
         /\ UNCHANGED entry

Forget(c) ==
  /\ lease' = [lease EXCEPT ![c] = NoLease]
  /\ step' = [step EXCEPT ![c] = "idle"]

ReleaseLease(c) ==
  /\ step[c] = "holding"
  /\ Released(lease[c].id)
  /\ Forget(c)

\* commit_session: first section, the check of the lease.
CommitCheck(c) ==
  /\ step[c] = "holding" /\ lease[c].mutable /\ Valid(c)
  /\ step' = [step EXCEPT ![c] = "put"]
  /\ UNCHANGED <<cacheVars, lease>>

\* Second section: put().  If it raises, the client still has its lease.
CommitPut(c, k, s, n) ==
  /\ step[c] = "put" /\ KindOf[k] = "session" /\ n <= ByteBudget
  /\ \E gone \in SUBSET (stale \cap Unleased) : PutAfter(gone, k, s, n)
  /\ step' = [step EXCEPT ![c] = IF Inserted(k, s) THEN "release" ELSE "holding"]
  /\ UNCHANGED lease

\* Third section: release().
CommitRelease(c) ==
  /\ step[c] = "release"
  /\ Released(lease[c].id)
  /\ Forget(c)

\* Mutation: leased entries are invalidated as well.
InvalidateAll(t, kinds) ==
  /\ Removed({e \in live : entry[e].scope.tenant = t /\ KindOf[entry[e].key] \in kinds})
  /\ UNCHANGED <<entry, refs, lease, step>>

Invalidate(t, kinds) ==
  /\ Removed({e \in Unleased : entry[e].scope.tenant = t /\ KindOf[entry[e].key] \in kinds})
  /\ UNCHANGED <<entry, refs, lease, step>>

Prune ==
  /\ Removed(stale \cap Unleased)
  /\ UNCHANGED <<entry, refs, lease, step>>

\* The clock passes an entry's expires_at.
TtlPasses(e) ==
  /\ e \in live \ stale
  /\ stale' = stale \cup {e}
  /\ UNCHANGED <<live, entry, refs, index, bytesUsed, lease, step>>

-----------------------------------------------------------------------------

AnyEntry == [key |-> CHOOSE k \in Keys : TRUE, scope |-> CHOOSE s \in Scopes : TRUE,
             size |-> CHOOSE n \in Sizes : TRUE, ephemeral |-> FALSE]

CacheInit ==
  /\ live = {} /\ stale = {} /\ bytesUsed = 0
  /\ entry = [e \in Ids |-> AnyEntry] /\ refs = [e \in Ids |-> 0]
  /\ index = [p \in Keys \X Scopes |-> NoId]
  /\ lease = [c \in Clients |-> NoLease] /\ step = [c \in Clients |-> "idle"]

CacheNext ==
  \/ \E k \in Keys, s \in Scopes, n \in Sizes : Put(k, s, n)
  \/ \E c \in Clients, k \in Keys, s \in Scopes, m \in BOOLEAN : Acquire(c, k, s, m)
  \/ \E c \in Clients : ReleaseLease(c) \/ CommitCheck(c) \/ CommitRelease(c)
  \/ \E c \in Clients, k \in Keys, s \in Scopes, n \in Sizes : CommitPut(c, k, s, n)
  \/ \E s \in Scopes, kinds \in {{"prefix"}, {"session"}, {"prefix", "session"}} :
       Invalidate(s.tenant, kinds)
  \/ Prune
  \/ \E e \in Ids : TtlPasses(e)

CacheSpec == CacheInit /\ [][CacheNext]_sequenceCacheVars

-----------------------------------------------------------------------------
(***************************************************************************)
(* Properties.                                                             *)
(***************************************************************************)

Holders(e) == {c \in Clients : lease[c].id = e}

Entries == [key : Keys, scope : Scopes, size : Sizes, ephemeral : BOOLEAN]

\* Type invariant.
TypeOK ==
  /\ live \subseteq Ids /\ stale \subseteq live
  /\ entry \in [Ids -> Entries]
  /\ refs \in [Ids -> Nat]
  /\ index \in [Keys \X Scopes -> Ids \cup {NoId}]
  /\ bytesUsed \in Nat
  /\ lease \in [Clients -> [id : Ids \cup {NoId}, mutable : BOOLEAN]]
  /\ step \in [Clients -> {"idle", "holding", "put", "release"}]

\* A lease protects its entry: whatever is put, pruned, evicted, invalidated
\* or released meanwhile, a client that holds a lease can read through it,
\* and the reference count is exactly the number of leases given out.
LeaseProtects ==
  /\ \A c \in Clients : step[c] # "idle" => Valid(c)
  /\ \A e \in live : refs[e] = Cardinality(Holders(e))

\* Two mutable leases never share an entry.
MutableIsExclusive ==
  \A c, d \in Clients :
    c # d /\ lease[c].mutable /\ lease[d].mutable => lease[c].id # lease[d].id

\* The index and the shared entries are in step: each shared entry is the
\* one its key and scope lead to, and no pointer dangles.
IndexExact ==
  /\ \A e \in live : ~entry[e].ephemeral => index[<<entry[e].key, entry[e].scope>>] = e
  /\ \A p \in Keys \X Scopes : index[p] # NoId =>
       /\ index[p] \in live /\ ~entry[index[p]].ephemeral
       /\ p = <<entry[index[p]].key, entry[index[p]].scope>>

\* The running byte count is exact, and with all clones counted the cache
\* stays within both of its bounds.
WithinBudget ==
  /\ bytesUsed = Bytes(live) /\ bytesUsed <= ByteBudget
  /\ Cardinality(live) <= MaxEntries

\* A private copy lives and dies with the one lease it was made for.
ClonesAreLeased ==
  \A e \in live : entry[e].ephemeral => Cardinality(Holders(e)) = 1

\* The books of the cache are right: its state is well typed and its byte and
\* entry counts are exact and bounded.
BudgetExact == TypeOK /\ WithinBudget

\* At most one client at a time may commit what it makes of an entry, and a
\* copy made on acquire is the affair of the one lease it was made for.  An
\* immutable lease granted later may share the entry of a mutable one: it reads
\* on what was there, for commit_session files a new entry.
CopiesArePrivate == MutableIsExclusive /\ ClonesAreLeased
==============================================================================
