--------------------------- MODULE SchedulerProofs ---------------------------
(***************************************************************************)
(* Proofs about ContinuousScheduler, for any finite set of attempts and    *)
(* any admission limits.                                                   *)
(***************************************************************************)
EXTENDS ContinuousScheduler, FiniteSetTheorems, WellFoundedInduction, TLAPS

InFlight == {"prefill_inflight", "decode_inflight"}

\* An entry is found by its id from infer() until it returns.
EntriesInv ==
  /\ \A a, b \in entries : IdOf[a] = IdOf[b] => a = b
  /\ \A a \in entries : state[a] # "new"
  /\ \A a \in Attempts \ entries : state[a] \in {"new", "terminal"}
  /\ cancelRequested \subseteq entries

\* What the scheduler thread holds at each place of its loop.
LoopInv ==
  /\ loop = "opening" => Len(batch) = 1 /\ state[batch[1]] = "opening"
  /\ loop \in {"prefill_run", "decode_run"} =>
       batch # <<>> /\ \A i \in DOMAIN batch : state[batch[i]] \in InFlight
  /\ loop \in {"release", "settle"} =>
       todo # <<>> /\ \A i \in DOMAIN todo : state[todo[i].entry] # "new"
  /\ loop \notin {"release", "settle"} => todo = <<>>
  /\ loop \notin {"opening", "prefill_run", "decode_run"} => batch = <<>>

\* Between its terminal event and its terminal state an entry is at the head
\* of `todo'.
SettleInv ==
  /\ loop = "settle" =>
       /\ Live(todo[1].entry) /\ lastEvent[todo[1].entry] = "terminal"
       /\ todo[1].entry \in opened => todo[1].verdict = "release_failed"
  /\ \A a \in Attempts : lastEvent[a] = "terminal" =>
       state[a] = "terminal" \/ (loop = "settle" /\ a = todo[1].entry)

\* A live handle is open in the backend until its terminal event.
HandleInv ==
  /\ handles \subseteq entries
  /\ \A a \in handles : Live(a) /\ lastEvent[a] # "terminal" => a \in opened

-----------------------------------------------------------------------------
(***************************************************************************)
(* Deques.                                                                 *)
(***************************************************************************)

\* A sub-list of a deque has exactly the elements at the kept positions.
LEMMA KeptElements ==
  ASSUME NEW S, NEW q \in Seq(S), NEW P \in SUBSET DOMAIN q, NEW s \in Kept(q, P)
  PROVE  /\ s \in Seq(S)
         /\ Range(s) = {q[i] : i \in P}
         /\ IsInjective(q) => IsInjective(s)
<1>1. IsFiniteSet(P) /\ Cardinality(P) \in Nat
  <2>1. IsFiniteSet(1 .. Len(q))
    BY FS_Interval
  <2>2. P \in SUBSET (1 .. Len(q))
    OBVIOUS
  <2> QED
    BY <2>1, <2>2, FS_Subset, FS_CardinalityType
<1> DEFINE n == Cardinality(P)
<1>2. PICK w \in [1 .. n -> P] :
        /\ \A i, j \in DOMAIN w : i < j => w[i] < w[j]
        /\ s = [k \in DOMAIN w |-> q[w[k]]]
  BY DEF Kept, Ascending
<1>3. IsFiniteSet(1 .. n) /\ Cardinality(1 .. n) = n
  BY <1>1, FS_Interval
<1> HIDE DEF n
<1>n. n \in Nat
  BY <1>1 DEF n
<1>4. IsInjective(w)
  <2> SUFFICES ASSUME NEW i \in 1 .. n, NEW j \in 1 .. n, w[i] = w[j] PROVE i = j
    BY DEF IsInjective
  <2>1. w[i] \in Nat /\ w[j] \in Nat
    OBVIOUS
  <2>2. (i < j => w[i] < w[j]) /\ (j < i => w[j] < w[i])
    BY <1>2
  <2> QED
    BY <2>1, <2>2, <1>n
<1>5. w \in Injection(1 .. n, P)
  BY <1>4 DEF Injection
<1>6. w \in Surjection(1 .. n, P)
  BY <1>1, <1>3, <1>5, FS_Injection DEF n
<1>7. \A i \in P : \E k \in 1 .. n : w[k] = i
  BY <1>6 DEF Surjection
<1>8. DOMAIN s = 1 .. n /\ \A k \in 1 .. n : s[k] = q[w[k]] /\ w[k] \in P
  BY <1>2
<1>9. s \in Seq(S)
  BY <1>2, <1>n
<1>10. Range(s) = {q[i] : i \in P}
  BY <1>7, <1>8 DEF Range
<1>11. ASSUME IsInjective(q) PROVE IsInjective(s)
  BY <1>4, <1>8, <1>11 DEF IsInjective
<1> QED
  BY <1>9, <1>10, <1>11

\* The positions kept in order are a list of them.
LEMMA AscendingList ==
  ASSUME NEW S, NEW q \in Seq(S), NEW P \in SUBSET DOMAIN q, NEW w \in Ascending(P)
  PROVE  w \in Seq(P) /\ IsInjective(w)
<1>1. IsFiniteSet(P) /\ Cardinality(P) \in Nat
  <2>1. IsFiniteSet(1 .. Len(q))
    BY FS_Interval
  <2> QED
    BY <2>1, FS_Subset, FS_CardinalityType
<1>2. w \in [1 .. Cardinality(P) -> P]
  BY DEF Ascending
<1>3. \A i, j \in DOMAIN w : i < j => w[i] < w[j]
  BY DEF Ascending
<1> DEFINE n == Cardinality(P)
<1> HIDE DEF n
<1>n. n \in Nat /\ w \in [1 .. n -> P]
  BY <1>1, <1>2 DEF n
<1>4. IsInjective(w)
  <2> SUFFICES ASSUME NEW i \in 1 .. n, NEW j \in 1 .. n, w[i] = w[j] PROVE i = j
    BY <1>n DEF IsInjective
  <2>1. w[i] \in Nat /\ w[j] \in Nat
    BY <1>n
  <2>2. (i < j => w[i] < w[j]) /\ (j < i => w[j] < w[i])
    BY <1>3, <1>n
  <2> QED
    BY <2>1, <2>2, <1>n
<1> QED
  BY <1>n, <1>4

\* Pruning the left end of a deque keeps what is valid in it.
LEMMA PrunedElements ==
  ASSUME NEW S, NEW q \in Seq(S), NEW st, NEW s \in Pruned(q, st)
  PROVE  /\ s \in Seq(S)
         /\ Range(s) \subseteq Range(q)
         /\ \A i \in Valid(q, st) : q[i] \in Range(s)
         /\ IsInjective(q) => IsInjective(s)
<1>1. CASE ~HasState(q, st)
  BY <1>1 DEF Pruned, HasState, Range, IsInjective
<1>2. CASE HasState(q, st)
  <2>1. PICK f \in FirstOf(Valid(q, st)) : s = SubSeq(q, f, Len(q))
    BY <1>2 DEF Pruned
  <2>2. f \in 1 .. Len(q) /\ \A j \in Valid(q, st) : f <= j /\ j \in 1 .. Len(q)
    BY <2>1 DEF FirstOf, Valid
  <2>3. s \in Seq(S) /\ Len(s) = Len(q) - f + 1
        /\ \A k \in 1 .. Len(s) : s[k] = q[f + k - 1]
    BY <2>1, <2>2
  <2>4. Range(s) \subseteq Range(q)
    BY <2>2, <2>3 DEF Range
  <2>5. \A i \in Valid(q, st) : q[i] \in Range(s)
    <3> TAKE i \in Valid(q, st)
    <3>1. i - f + 1 \in 1 .. Len(s) /\ f + (i - f + 1) - 1 = i
      BY <2>2, <2>3
    <3>2. s[i - f + 1] = q[i]
      BY <2>3, <3>1
    <3> QED
      BY <2>3, <3>1, <3>2 DEF Range
  <2>6. ASSUME IsInjective(q) PROVE IsInjective(s)
    <3> SUFFICES ASSUME NEW i \in 1 .. Len(s), NEW j \in 1 .. Len(s), s[i] = s[j]
                 PROVE  i = j
      BY <2>3 DEF IsInjective
    <3>a. Len(s) = Len(q) - f + 1 /\ Len(q) \in Nat /\ f \in 1 .. Len(q)
      BY <2>2, <2>3
    <3>b. f + i - 1 \in 1 .. Len(q) /\ f + j - 1 \in 1 .. Len(q)
      BY <3>a
    <3>c. q[f + i - 1] = q[f + j - 1]
      BY <2>3
    <3>1. q[f + i - 1] = q[f + j - 1] /\ f + i - 1 \in 1 .. Len(q) /\ f + j - 1 \in 1 .. Len(q)
      BY <3>b, <3>c
    <3>2. f + i - 1 = f + j - 1
      BY <3>1, <2>6 DEF IsInjective
    <3> QED
      BY <3>2, <2>2
  <2> QED
    BY <2>3, <2>4, <2>5, <2>6
<1> QED
  BY <1>1, <1>2

\* An id names at most one entry, so a lookup finds it.
LEMMA Lookup ==
  ASSUME EntriesInv, NEW a \in entries
  PROVE  Entry(IdOf[a]) = a
BY DEF Entry, EntriesInv

\* A taken batch is a list of entries in the state asked for, and each stood
\* at a position that is taken.
LEMMA TakenEntries ==
  ASSUME entries \subseteq Attempts, BatchSize \in Nat, EntriesInv,
         NEW S, NEW q \in Seq(S), NEW st, NEW p \in Takes(q, st)
  PROVE  /\ Taken(q, p) \in Seq(entries)
         /\ Range(p) \subseteq Valid(q, st)
         /\ DOMAIN Taken(q, p) = DOMAIN p
         /\ \A k \in DOMAIN p :
              state[Taken(q, p)[k]] = st /\ IdOf[Taken(q, p)[k]] = q[p[k]]
         /\ IsInjective(q) => IsInjective(Taken(q, p))
         /\ BatchSize > 0 /\ HasState(q, st) => Taken(q, p) # <<>>
<1> DEFINE V == Valid(q, st)  n == Cardinality(V)
           m == IF n < BatchSize THEN n ELSE BatchSize
<1>1. n \in Nat
  <2>1. IsFiniteSet(1 .. Len(q))
    BY FS_Interval
  <2>2. V \in SUBSET (1 .. Len(q))
    BY DEF Valid
  <2> QED
    BY <2>1, <2>2, FS_Subset, FS_CardinalityType
<1>2. m \in Nat
  BY <1>1
<1>3. p \in [1 .. m -> V] /\ IsInjective(p)
  BY DEF Takes
<1> HIDE DEF m, n
<1>4. \A i \in V : Entry(q[i]) \in entries /\ state[Entry(q[i])] = st /\ IdOf[Entry(q[i])] = q[i]
  <2> SUFFICES ASSUME NEW i \in V
               PROVE  Entry(q[i]) \in entries /\ state[Entry(q[i])] = st /\ IdOf[Entry(q[i])] = q[i]
    OBVIOUS
  <2>1. PICK a \in EntryOf(q[i]) : state[a] = st
    BY DEF Valid
  <2>2. a \in entries /\ IdOf[a] = q[i]
    BY DEF EntryOf
  <2>3. Entry(IdOf[a]) = a
    BY <2>2, Lookup
  <2> QED
    BY <2>1, <2>2, <2>3
<1> DEFINE t == Taken(q, p)
<1>5. DOMAIN t = 1 .. m /\ \A k \in 1 .. m : t[k] = Entry(q[p[k]]) /\ p[k] \in V
  BY <1>3 DEF Taken
<1>6. t \in [1 .. m -> entries]
  BY <1>3, <1>4 DEF Taken
<1>7. t \in Seq(entries)
  BY <1>2, <1>6
<1>8. \A k \in DOMAIN p : state[t[k]] = st /\ IdOf[t[k]] = q[p[k]]
  BY <1>3, <1>4, <1>5
<1>9. Range(p) \subseteq V
  BY <1>3 DEF Range
<1>10. ASSUME IsInjective(q) PROVE IsInjective(t)
  <2> SUFFICES ASSUME NEW i \in 1 .. m, NEW j \in 1 .. m, t[i] = t[j] PROVE i = j
    BY <1>5 DEF IsInjective
  <2>1. q[p[i]] = q[p[j]]
    BY <1>3, <1>8
  <2>2. p[i] \in DOMAIN q /\ p[j] \in DOMAIN q
    BY <1>3 DEF Valid
  <2>3. p[i] = p[j]
    BY <1>10, <2>1, <2>2 DEF IsInjective
  <2> QED
    BY <1>3, <2>3 DEF IsInjective
<1>11. ASSUME BatchSize > 0, HasState(q, st) PROVE t # <<>>
  <2>1. V # {}
    BY <1>11 DEF HasState
  <2>2. IsFiniteSet(V)
    <3>1. IsFiniteSet(1 .. Len(q)) /\ V \in SUBSET (1 .. Len(q))
      BY FS_Interval DEF Valid
    <3> QED
      BY <3>1, FS_Subset
  <2>3. n # 0
    BY <2>1, <2>2, FS_EmptySet DEF n
  <2>4. m > 0
    BY <1>1, <1>11, <2>3 DEF m
  <2>5. 1 \in DOMAIN t
    BY <1>2, <1>5, <2>4
  <2> QED
    BY <2>5
<1> QED
  BY <1>3, <1>5, <1>7, <1>8, <1>9, <1>10, <1>11

-----------------------------------------------------------------------------
(***************************************************************************)
(* Types.                                                                  *)
(***************************************************************************)

\* The constants, as the proofs use them.
LEMMA Constants ==
  /\ IsFiniteSet(Attempts) /\ DOMAIN IdOf = Attempts
  /\ Estimate \in [Attempts -> Nat \ {0}]
  /\ BatchSize \in Nat /\ BatchSize > 0 /\ MaxDecodeBurst \in Nat /\ MaxDecodeBurst > 0
  /\ \A a \in Attempts : IdOf[a] \in Range(IdOf)
BY AdmissionAssumption, SchedulerAssumption DEF Range

\* The ids of a list of attempts.
LEMMA IdsOf ==
  ASSUME NEW s \in Seq(Attempts)
  PROVE  /\ Ids(s) \in Seq(Range(IdOf)) /\ DOMAIN Ids(s) = DOMAIN s
         /\ \A k \in DOMAIN s : Ids(s)[k] = IdOf[s[k]]
         /\ Range(Ids(s)) = {IdOf[s[k]] : k \in DOMAIN s}
<1>1. Ids(s) \in [1 .. Len(s) -> Range(IdOf)] /\ Len(s) \in Nat /\ DOMAIN s = 1 .. Len(s)
  BY Constants DEF Ids
<1>2. \A k \in 1 .. Len(s) : Ids(s)[k] = IdOf[s[k]]
  BY DEF Ids
<1> QED
  BY <1>1, <1>2 DEF Range

\* The entries of a list, each with a verdict.
LEMMA ReleasesOf ==
  ASSUME NEW s \in Seq(Attempts), NEW v \in Verdicts
  PROVE  /\ Releases(s, v) \in Seq([entry : Attempts, verdict : Verdicts])
         /\ DOMAIN Releases(s, v) = DOMAIN s /\ Len(Releases(s, v)) = Len(s)
         /\ \A k \in DOMAIN s : Releases(s, v)[k].entry = s[k]
<1>1. Len(s) \in Nat /\ DOMAIN s = 1 .. Len(s) /\ \A k \in 1 .. Len(s) : s[k] \in Attempts
  OBVIOUS
<1>2. Releases(s, v) = [k \in 1 .. Len(s) |-> [entry |-> s[k], verdict |-> v]]
  BY DEF Releases
<1>3. Releases(s, v) \in [1 .. Len(s) -> [entry : Attempts, verdict : Verdicts]]
  BY <1>1, <1>2
<1> QED
  BY <1>1, <1>2, <1>3

\* A list with one entry to release.
LEMMA OneRelease ==
  ASSUME NEW a \in Attempts, NEW v \in Verdicts, NEW t,
         t = <<[entry |-> a, verdict |-> v]>>
  PROVE  /\ t \in Seq([entry : Attempts, verdict : Verdicts])
         /\ Len(t) = 1 /\ t # <<>> /\ DOMAIN t = {1} /\ t[1].entry = a /\ t[1].verdict = v
<1>1. [entry |-> a, verdict |-> v] \in [entry : Attempts, verdict : Verdicts]
  OBVIOUS
<1>2. t \in Seq([entry : Attempts, verdict : Verdicts])
  BY <1>1
<1> QED
  BY <1>2

\* A list with one more element.
LEMMA Appended ==
  ASSUME NEW S, NEW q \in Seq(S), NEW x \in S
  PROVE  /\ Append(q, x) \in Seq(S)
         /\ Range(Append(q, x)) = Range(q) \cup {x}
         /\ IsInjective(q) /\ x \notin Range(q) => IsInjective(Append(q, x))
<1> DEFINE t == Append(q, x)  n == Len(q)
<1>1. t \in Seq(S) /\ n \in Nat /\ DOMAIN q = 1 .. n /\ DOMAIN t = 1 .. n + 1
  OBVIOUS
<1>2. t[n + 1] = x /\ \A i \in 1 .. n : t[i] = q[i]
  OBVIOUS
<1>3. \A i \in 1 .. n + 1 : i = n + 1 \/ i \in 1 .. n
  BY <1>1
<1>4. 1 .. n \subseteq 1 .. n + 1 /\ n + 1 \in 1 .. n + 1
  BY <1>1
<1> HIDE DEF t, n
<1>5. Range(t) = Range(q) \cup {x}
  BY <1>1, <1>2, <1>3, <1>4 DEF Range
<1>6. IsInjective(q) /\ x \notin Range(q) => IsInjective(t)
  BY <1>1, <1>2, <1>3 DEF Range, IsInjective
<1> QED
  BY <1>1, <1>5, <1>6 DEF t

\* Two lists one after the other.
LEMMA Concatenated ==
  ASSUME NEW S, NEW q \in Seq(S), NEW s \in Seq(S)
  PROVE  /\ q \o s \in Seq(S)
         /\ Range(q \o s) = Range(q) \cup Range(s)
         /\ IsInjective(q) /\ IsInjective(s) /\ Range(q) \cap Range(s) = {} => IsInjective(q \o s)
<1> DEFINE t == q \o s  n == Len(q)  m == Len(s)
<1>1. /\ t \in Seq(S) /\ n \in Nat /\ m \in Nat
      /\ DOMAIN q = 1 .. n /\ DOMAIN s = 1 .. m /\ DOMAIN t = 1 .. n + m
  OBVIOUS
<1>2. (\A i \in 1 .. n : t[i] = q[i]) /\ (\A i \in 1 .. m : t[n + i] = s[i])
  OBVIOUS
<1>3. \A i \in 1 .. n + m : i \in 1 .. n \/ \E j \in 1 .. m : i = n + j
  <2> SUFFICES ASSUME NEW i \in 1 .. n + m, i \notin 1 .. n PROVE \E j \in 1 .. m : i = n + j
    OBVIOUS
  <2>1. i - n \in 1 .. m /\ i = n + (i - n)
    BY <1>1
  <2> QED
    BY <2>1
<1>4. 1 .. n \subseteq 1 .. n + m /\ \A j \in 1 .. m : n + j \in 1 .. n + m
  BY <1>1
<1> HIDE DEF t, n, m
<1>5. Range(t) = Range(q) \cup Range(s)
  <2>1. /\ Range(q) = {q[i] : i \in 1 .. n} /\ Range(s) = {s[i] : i \in 1 .. m}
        /\ Range(t) = {t[i] : i \in 1 .. n + m}
    BY <1>1 DEF Range
  <2>2. Range(q) \subseteq Range(t)
    BY <1>2, <1>4, <2>1
  <2>3. Range(s) \subseteq Range(t)
    BY <1>2, <1>4, <2>1
  <2>4. ASSUME NEW i \in 1 .. n + m PROVE t[i] \in Range(q) \cup Range(s)
    BY <1>2, <1>3, <2>1
  <2> QED
    BY <2>1, <2>2, <2>3, <2>4
<1>6. ASSUME IsInjective(q), IsInjective(s), Range(q) \cap Range(s) = {}
      PROVE  IsInjective(t)
  <2> SUFFICES ASSUME NEW i \in 1 .. n + m, NEW j \in 1 .. n + m, t[i] = t[j] PROVE i = j
    BY <1>1 DEF IsInjective
  <2>1. CASE i \in 1 .. n /\ j \in 1 .. n
    BY <1>1, <1>2, <1>6, <2>1 DEF IsInjective
  <2>2. CASE i \notin 1 .. n /\ j \notin 1 .. n
    <3>1. PICK k \in 1 .. m, l \in 1 .. m : i = n + k /\ j = n + l
      BY <1>3, <2>2
    <3>2. s[k] = s[l]
      BY <1>2, <3>1
    <3> QED
      BY <1>1, <1>6, <3>1, <3>2 DEF IsInjective
  <2>3. \A k \in 1 .. n, l \in 1 .. m : q[k] # s[l]
    BY <1>1, <1>6 DEF Range
  <2>4. CASE i \in 1 .. n /\ j \notin 1 .. n
    BY <1>2, <1>3, <2>3, <2>4
  <2>5. CASE i \notin 1 .. n /\ j \in 1 .. n
    BY <1>2, <1>3, <2>3, <2>5
  <2> QED
    BY <2>1, <2>2, <2>4, <2>5
<1> QED
  BY <1>1, <1>5, <1>6 DEF t

\* The batch entries with a given outcome.
LEMMA WithOutcome ==
  ASSUME TypeOK, NEW outs, NEW kind, NEW s \in With(outs, kind)
  PROVE  /\ s \in Seq(Attempts)
         /\ Range(s) = {batch[i] : i \in {j \in DOMAIN batch : outs[j] = kind}}
         /\ IsInjective(batch) => IsInjective(s)
<1>1. batch \in Seq(Attempts)
  BY DEF TypeOK
<1>2. {j \in DOMAIN batch : outs[j] = kind} \in SUBSET DOMAIN batch
  OBVIOUS
<1> QED
  BY <1>1, <1>2, KeptElements DEF With

\* The lists of the type invariant.
ListTypes ==
  /\ queued \in Seq(Range(IdOf)) /\ prefill \in Seq(Range(IdOf)) /\ decode \in Seq(Range(IdOf))
  /\ batch \in Seq(Attempts)
  /\ todo \in Seq([entry : Attempts, verdict : Verdicts])

\* Its functions, sets, numbers and flags.
PlainTypes ==
  /\ state \in [Attempts -> States]
  /\ outcome \in [Attempts -> Verdicts]
  /\ lastEvent \in [Attempts -> {"none", "admitted", "opened", "progress", "released",
                                 "terminal"}]
  /\ entries \subseteq Attempts /\ cancelRequested \subseteq Attempts
  /\ queueDue \subseteq Attempts /\ execDue \subseteq Attempts
  /\ handles \subseteq Attempts /\ opened \subseteq Attempts
  /\ ledger \subseteq Attempts /\ kv \in [Attempts -> Nat]
  /\ burst \in 0 .. MaxDecodeBurst
  /\ loop \in {"unstarted", "boundaries", "open", "opening", "choose", "prefill_run",
               "decode_run", "release", "settle", "idle", "wait", "fail_all", "stop",
               "done", "dead"}
  /\ armed \subseteq Attempts
  /\ stopping \in BOOLEAN /\ stopped \in BOOLEAN /\ failing \in BOOLEAN

\* The type invariant in its two parts.
LEMMA TypeParts ==
  TypeOK <=> PlainTypes /\ ListTypes
<1>1. {queued, prefill, decode} \subseteq Seq(Range(IdOf)) <=>
        /\ queued \in Seq(Range(IdOf)) /\ prefill \in Seq(Range(IdOf))
        /\ decode \in Seq(Range(IdOf))
  OBVIOUS
<1> QED
  BY <1>1 DEF TypeOK, PlainTypes, ListTypes

\* The entry being opened.
LEMMA Opening ==
  ASSUME TypeOK, LoopInv, loop = "opening"
  PROVE  batch[1] \in Attempts /\ state[batch[1]] = "opening" /\ 1 \in DOMAIN batch
<1>1. batch \in Seq(Attempts)
  BY DEF TypeOK
<1>2. Len(batch) = 1 /\ state[batch[1]] = "opening"
  BY DEF LoopInv
<1> QED
  BY <1>1, <1>2, SMTT(30)

\* The head and the tail of a list.
LEMMA HeadTail ==
  ASSUME NEW S, NEW t \in Seq(S), t # <<>>
  PROVE  /\ Head(t) = t[1] /\ t[1] \in S /\ 1 \in DOMAIN t /\ Len(t) \in Nat /\ Len(t) > 0
         /\ Tail(t) \in Seq(S) /\ Len(Tail(t)) = Len(t) - 1
         /\ \A k \in DOMAIN Tail(t) : k + 1 \in DOMAIN t /\ Tail(t)[k] = t[k + 1]
         /\ Len(t) > 1 => Tail(t) # <<>>
         /\ ~(Len(t) > 1) => Tail(t) = <<>>
<1>1. Len(t) \in Nat /\ Len(t) > 0
  OBVIOUS
<1>2. Head(t) = t[1] /\ t[1] \in S /\ 1 \in DOMAIN t
  BY <1>1
<1>3. Tail(t) \in Seq(S) /\ Len(Tail(t)) = Len(t) - 1
  BY <1>1
<1>4. \A k \in 1 .. Len(Tail(t)) : k + 1 \in 1 .. Len(t) /\ Tail(t)[k] = t[k + 1]
  BY <1>1, <1>3
<1>5. DOMAIN t = 1 .. Len(t) /\ DOMAIN Tail(t) = 1 .. Len(Tail(t))
  BY <1>3
<1>6. Len(t) > 1 => Tail(t) # <<>>
  <2>1. Len(<<>>) = 0
    OBVIOUS
  <2>2. Len(t) > 1 => Len(Tail(t)) # 0
    BY <1>1, <1>3
  <2> QED
    BY <2>1, <2>2
<1>7. ~(Len(t) > 1) => Tail(t) = <<>>
  BY <1>1, <1>3
<1> QED
  BY <1>1, <1>2, <1>3, <1>4, <1>5, <1>6, <1>7

\* The list of releases once the first of them has failed.
LEMMA FailedRelease ==
  ASSUME NEW t \in Seq([entry : Attempts, verdict : Verdicts]), 1 \in DOMAIN t
  PROVE  LET u == [t EXCEPT ![1] = [entry |-> t[1].entry, verdict |-> "release_failed"]] IN
         /\ u \in Seq([entry : Attempts, verdict : Verdicts])
         /\ DOMAIN u = DOMAIN t /\ u # <<>>
         /\ \A k \in DOMAIN t : u[k].entry = t[k].entry
         /\ u[1].verdict = "release_failed"
<1> DEFINE R == [entry : Attempts, verdict : Verdicts]
           x == [entry |-> t[1].entry, verdict |-> "release_failed"]
           u == [t EXCEPT ![1] = [entry |-> t[1].entry, verdict |-> "release_failed"]]
<1>1. t[1] \in R
  <2> HIDE DEF R, x, u
  <2>1. t \in Seq(R)
    BY DEF R
  <2> QED
    BY <2>1
<1>2. x \in R /\ x.entry = t[1].entry /\ x.verdict = "release_failed"
  BY <1>1 DEF Verdicts
<1>3. u = [t EXCEPT ![1] = x]
  OBVIOUS
<1> HIDE DEF R, x, u
<1>4. t \in Seq(R)
  BY DEF R
<1>5. t \in [1 .. Len(t) -> R] /\ Len(t) \in Nat /\ DOMAIN t = 1 .. Len(t)
  BY <1>4
<1>6. u \in [1 .. Len(t) -> R] /\ u[1] = x /\ \A k \in 1 .. Len(t) : k # 1 => u[k] = t[k]
  BY <1>2, <1>3, <1>5
<1>7. u \in Seq(R) /\ DOMAIN u = DOMAIN t
  BY <1>5, <1>6
<1>8. u # <<>>
  BY <1>5, <1>6, <1>7
<1>9. \A k \in DOMAIN t : u[k].entry = t[k].entry
  BY <1>2, <1>5, <1>6
<1> QED
  BY <1>2, <1>6, <1>7, <1>8, <1>9 DEF R, u

\* The entry being released.
LEMMA Releasing ==
  ASSUME TypeOK, LoopInv, loop \in {"release", "settle"}
  PROVE  /\ Head(todo) = todo[1] /\ todo[1].entry \in Attempts /\ todo[1].verdict \in Verdicts
         /\ state[todo[1].entry] # "new" /\ Len(todo) \in Nat /\ Len(todo) > 0
         /\ 1 \in DOMAIN todo
         /\ Tail(todo) \in Seq([entry : Attempts, verdict : Verdicts])
         /\ Len(Tail(todo)) = Len(todo) - 1
         /\ \A k \in DOMAIN Tail(todo) : k + 1 \in DOMAIN todo /\ Tail(todo)[k] = todo[k + 1]
         /\ Len(todo) > 1 => Tail(todo) # <<>>
         /\ ~(Len(todo) > 1) => Tail(todo) = <<>>
<1>1. todo \in Seq([entry : Attempts, verdict : Verdicts])
  BY DEF TypeOK
<1>2. todo # <<>> /\ \A i \in DOMAIN todo : state[todo[i].entry] # "new"
  BY DEF LoopInv
<1> DEFINE R == [entry : Attempts, verdict : Verdicts]
<1>3. \A r \in R : r.entry \in Attempts /\ r.verdict \in Verdicts
  OBVIOUS
<1> HIDE DEF R
<1>4. todo \in Seq(R)
  BY <1>1 DEF R
<1>5. todo[1] \in R /\ 1 \in DOMAIN todo
  BY <1>2, <1>4, HeadTail
<1> QED
  BY <1>2, <1>3, <1>4, <1>5, HeadTail DEF R

\* What OpenSucceeds does with the entry `a': it sends it to its release, or
\* queues it for prefill.
OpenedThenReleased(a) ==
  /\ state' = [state EXCEPT ![a] = "releasing"]
  /\ \E v \in Verdicts : todo' = <<[entry |-> a, verdict |-> v]>>
  /\ loop' = "release"
  /\ prefill' = prefill
  /\ execDue' \in {execDue, execDue \cup {a}}
  /\ kv' = kv \/ \E actual \in 1 .. Estimate[a] :
                   ActivateAccepts(ledger, kv, a, actual) /\ kv' = [kv EXCEPT ![a] = actual]

OpenedThenQueued(a) ==
  /\ state' = [state EXCEPT ![a] = "prefill"]
  /\ prefill' = Append(prefill, IdOf[a])
  /\ loop' = "boundaries"
  /\ todo' = todo /\ execDue' = execDue
  /\ \E actual \in 1 .. Estimate[a] :
       ActivateAccepts(ledger, kv, a, actual) /\ kv' = [kv EXCEPT ![a] = actual]

\* The two ways in which an opened entry goes on.
LEMMA OpenCases ==
  ASSUME OpenSucceeds
  PROVE  OpenedThenReleased(batch[1]) \/ OpenedThenQueued(batch[1])
<1> DEFINE a == batch[1]
           kept == \E actual \in 1 .. Estimate[a] :
                     ActivateAccepts(ledger, kv, a, actual) /\ kv' = [kv EXCEPT ![a] = actual]
<1>1. CASE /\ state' = [state EXCEPT ![a] = "releasing"]
           /\ todo'  = <<[entry |-> a, verdict |-> "backend_error"]>>
           /\ loop'  = "release"
           /\ UNCHANGED <<kv, prefill, execDue>>
  BY <1>1, "backend_error" \in Verdicts DEF OpenedThenReleased, Verdicts
<1>2. CASE /\ kept
           /\ state'   = [state EXCEPT ![a] = "prefill"]
           /\ prefill' = Append(prefill, IdOf[a])
           /\ loop'    = "boundaries"
           /\ UNCHANGED <<todo, execDue>>
  BY <1>2 DEF OpenedThenQueued
<1>3. CASE /\ kept
           /\ state' = [state EXCEPT ![a] = "releasing"]
           /\ IF a \in cancelRequested \/ stopping
                THEN UNCHANGED execDue ELSE execDue' = execDue \cup {a}
           /\ todo' = <<[entry |-> a, verdict |->
                IF a \in cancelRequested THEN "cancelled" ELSE "deadline_exceeded"]>>
           /\ loop' = "release"
           /\ UNCHANGED prefill
  <2>1. execDue' \in {execDue, execDue \cup {a}}
    BY <1>3
  <2>2. (IF a \in cancelRequested THEN "cancelled" ELSE "deadline_exceeded") \in Verdicts
    BY DEF Verdicts
  <2>3. \E v \in Verdicts : todo' = <<[entry |-> a, verdict |-> v]>>
    BY <1>3, <2>2
  <2> QED
    BY <1>3, <2>1, <2>3 DEF OpenedThenReleased
<1> QED
  <2> HIDE DEF kept
  <2> QED
    BY <1>1, <1>2, <1>3 DEF OpenSucceeds, Activates, kept

\* However the loop fails, it comes to _fail_all, or ends if it was there, with
\* nothing in its hands; clients, events and the ledger are as they were.
LEMMA CrashEffect ==
  ASSUME LoopInv, Crashes
  PROVE  /\ batch' = <<>> /\ todo' = <<>>
         /\ loop' = "fail_all" \/ (loop' = "dead" /\ failing)
         /\ loop \notin {"unstarted", "wait", "fail_all", "stop", "done", "dead"}
         /\ UNCHANGED <<clientVars, clockVars, lastEvent, burst, ledger,
                        stopped, failing, armed>>
<1> USE DEF clientVars, clockVars, entryVars, dequeVars, ledgerVars
<1>1. CASE Crash
  BY <1>1 DEF Crash
<1>2. CASE CrashTaking
  BY <1>2 DEF CrashTaking, LoopInv
<1>3. CASE CrashOpening
  BY <1>3 DEF CrashOpening, LoopInv
<1>4. CASE CrashSettling
  BY <1>4 DEF CrashSettling, LoopInv
<1> QED
  BY <1>1, <1>2, <1>3, <1>4 DEF Crashes

\* A choice that fails takes from the deques and changes nothing else.
LEMMA TakingEffect ==
  ASSUME TypeOK, CrashTaking
  PROVE  /\ queued' \in Seq(Range(IdOf))
         /\ prefill' \in Seq(Range(IdOf)) /\ decode' \in Seq(Range(IdOf))
         /\ Range(prefill') \subseteq Range(prefill) /\ Range(decode') \subseteq Range(decode)
         /\ IsInjective(prefill) => IsInjective(prefill')
         /\ IsInjective(decode) => IsInjective(decode')
         /\ loop \in {"open", "choose"} /\ UNCHANGED <<entryVars, kv, opened>>
<1>0. queued \in Seq(Range(IdOf)) /\ prefill \in Seq(Range(IdOf)) /\ decode \in Seq(Range(IdOf))
  BY DEF TypeOK
<1>1. ASSUME NEW q \in Seq(Range(IdOf)), NEW st, NEW p, NEW r \in Left(q, st, p)
      PROVE  /\ r \in Seq(Range(IdOf)) /\ Range(r) \subseteq Range(q)
             /\ IsInjective(q) => IsInjective(r)
  <2> DEFINE P == Valid(q, st) \ Range(p)
  <2>1. P \in SUBSET DOMAIN q
    BY DEF Valid
  <2>2. r \in Kept(q, P)
    BY <1>1 DEF Left
  <2> HIDE DEF P
  <2>3. {q[i] : i \in P} \subseteq Range(q)
    BY <2>1 DEF Range
  <2> QED
    BY <2>1, <2>2, <2>3, KeptElements
<1>2. \/ /\ \E p : decode' \in Left(decode, "decode", p)
         /\ prefill' \in Pruned(prefill, "prefill")
      \/ /\ \E p : prefill' \in Left(prefill, "prefill", p)
         /\ decode' \in Pruned(decode, "decode")
      \/ UNCHANGED <<prefill, decode>>
  BY DEF CrashTaking
<1>3. /\ prefill' \in Seq(Range(IdOf)) /\ Range(prefill') \subseteq Range(prefill)
      /\ IsInjective(prefill) => IsInjective(prefill')
  BY <1>0, <1>1, <1>2, PrunedElements
<1>4. /\ decode' \in Seq(Range(IdOf)) /\ Range(decode') \subseteq Range(decode)
      /\ IsInjective(decode) => IsInjective(decode')
  BY <1>0, <1>1, <1>2, PrunedElements
<1>5. loop \in {"open", "choose"} /\ UNCHANGED <<entryVars, kv, opened>>
  BY DEF CrashTaking, ledgerVars
<1>6. queued' \in Seq(Range(IdOf))
  <2>1. Valid(queued, "queued") \in SUBSET DOMAIN queued
    BY DEF Valid
  <2>2. queued' = queued \/ queued' \in Kept(queued, Valid(queued, "queued"))
    BY DEF CrashTaking
  <2> QED
    BY <1>0, <2>1, <2>2, KeptElements
<1> QED
  BY <1>3, <1>4, <1>5, <1>6

\* The type invariant is inductive, together with what the loop holds.
LEMMA TypeStep ==
  ASSUME TypeOK, EntriesInv, LoopInv, [Next]_vars
  PROVE  TypeOK'
<1>0. PlainTypes /\ ListTypes
  BY TypeParts
<1> SUFFICES PlainTypes' /\ ListTypes'
  <2>1. (PlainTypes /\ ListTypes => TypeOK)'
    BY TypeParts, PTL
  <2> QED
    BY <2>1
<1> USE DEF clientVars, clockVars, entryVars, dequeVars, ledgerVars, loopVars
<1>1. ASSUME NEW a \in Attempts, Infer(a) PROVE PlainTypes' /\ ListTypes'
  <2>1. PlainTypes'
    BY <1>0, <1>1 DEF Infer, NotifyAll, PlainTypes, States
  <2>2. queued' \in Seq(Range(IdOf))
    BY <1>0, <1>1, Constants DEF Infer, ListTypes
  <2>3. ListTypes'
    BY <1>0, <1>1, <2>2 DEF Infer, NotifyAll, ListTypes
  <2> QED
    BY <2>1, <2>3
<1>2. ASSUME NEW a \in Attempts, InferReturn(a) PROVE PlainTypes' /\ ListTypes'
  BY <1>0, <1>2 DEF InferReturn, PlainTypes, ListTypes
<1>3. ASSUME NEW a \in Attempts, Cancel(a) PROVE PlainTypes' /\ ListTypes'
  BY <1>0, <1>3 DEF Cancel, Live, NotifyAll, PlainTypes, ListTypes
<1>4. ASSUME NEW a \in Attempts, DeadlinePasses(a) PROVE PlainTypes' /\ ListTypes'
  BY <1>0, <1>4 DEF DeadlinePasses, PlainTypes, ListTypes
<1>5. CASE Start
  BY <1>0, <1>5 DEF Start, PlainTypes, ListTypes
<1>6. CASE Shutdown
  BY <1>0, <1>6 DEF Shutdown, NotifyAll, PlainTypes, ListTypes
<1>7. CASE Crashes
  <2>0. /\ batch' = <<>> /\ todo' = <<>> /\ loop' \in {"fail_all", "dead"}
        /\ UNCHANGED <<clientVars, clockVars, lastEvent, burst, ledger,
                       stopped, failing, armed>>
    BY <1>7, CrashEffect
  <2>1. CASE Crash
    BY <1>0, <2>0, <2>1 DEF Crash, PlainTypes, ListTypes
  <2>2. CASE CrashTaking
    BY <1>0, <2>0, <2>2, TakingEffect DEF PlainTypes, ListTypes
  <2>3. CASE CrashOpening
    <3>1. batch[1] \in Attempts
      BY <2>3, Opening DEF CrashOpening
    <3>2. kv' \in [Attempts -> Nat]
      BY <1>0, <2>3, <3>1, Constants DEF CrashOpening, Activates, PlainTypes
    <3>3. /\ UNCHANGED <<state, outcome, queued, prefill, decode>>
          /\ opened' = opened \cup {batch[1]} /\ handles' = handles \cup {batch[1]}
      BY <2>3 DEF CrashOpening
    <3> QED
      BY <1>0, <2>0, <3>1, <3>2, <3>3 DEF PlainTypes, ListTypes
  <2>4. CASE CrashSettling
    <3>1. todo[1].entry \in Attempts /\ Head(todo) = todo[1] /\ todo[1].verdict \in Verdicts
      BY <2>4, Releasing DEF CrashSettling
    <3>2. state' \in [Attempts -> States] /\ outcome' \in [Attempts -> Verdicts]
      BY <1>0, <2>4, <3>1 DEF CrashSettling, Settled, PlainTypes, States
    <3>3. UNCHANGED <<handles, opened, kv, queued, prefill, decode>>
      BY <2>4 DEF CrashSettling
    <3> QED
      BY <1>0, <2>0, <3>2, <3>3 DEF PlainTypes, ListTypes
  <2> QED
    BY <1>7, <2>1, <2>2, <2>3, <2>4 DEF Crashes
<1>8. CASE Boundaries
  <2>1. PlainTypes'
    BY <1>0, <1>8 DEF Boundaries, PlainTypes, States
  <2>2. \A a : BoundaryVerdict(a) \in Verdicts
    BY DEF BoundaryVerdict, Verdicts
  <2>3. todo' \in Seq([entry : Attempts, verdict : Verdicts])
    <3>1. CASE UNCHANGED todo
      BY <1>0, <3>1 DEF ListTypes
    <3>2. CASE \E a \in entries : todo' = <<[entry |-> a, verdict |-> BoundaryVerdict(a)]>>
      <4>1. PICK a \in entries : todo' = <<[entry |-> a, verdict |-> BoundaryVerdict(a)]>>
        BY <3>2
      <4>2. [entry |-> a, verdict |-> BoundaryVerdict(a)] \in [entry : Attempts, verdict : Verdicts]
        BY <1>0, <2>2 DEF PlainTypes
      <4> QED
        BY <4>1, <4>2
    <3> QED
      BY <1>8, <3>1, <3>2 DEF Boundaries
  <2>4. ListTypes'
    BY <1>0, <1>8, <2>3 DEF Boundaries, ListTypes
  <2> QED
    BY <2>1, <2>4
<1>9. CASE OpenOne
  <2>1. PlainTypes'
    BY <1>0, <1>9 DEF OpenOne, PlainTypes, States
  <2>2. queued' \in Seq(Range(IdOf))
    <3>1. Valid(queued, "queued") \in SUBSET DOMAIN queued
      BY DEF Valid
    <3>2. \/ queued' = queued
          \/ \E P \in SUBSET DOMAIN queued : queued' \in Kept(queued, P)
      BY <1>9, <3>1 DEF OpenOne
    <3> QED
      BY <1>0, <3>2, KeptElements DEF ListTypes
  <2>3. batch' \in Seq(Attempts)
    <3>1. batch' = batch \/ \E a \in entries : batch' = <<a>>
      BY <1>9 DEF OpenOne
    <3>2. \A a \in Attempts : <<a>> \in Seq(Attempts)
      OBVIOUS
    <3> QED
      BY <1>0, <3>1, <3>2 DEF PlainTypes, ListTypes
  <2>4. ListTypes'
    BY <1>0, <1>9, <2>2, <2>3 DEF OpenOne, ListTypes
  <2> QED
    BY <2>1, <2>4
<1>10. CASE OpenFails
  <2>1. batch[1] \in Attempts
    BY <1>10, Opening DEF OpenFails
  <2>2. [entry |-> batch[1], verdict |-> "backend_error"] \in [entry : Attempts, verdict : Verdicts]
    BY <2>1 DEF Verdicts
  <2>3. todo' \in Seq([entry : Attempts, verdict : Verdicts])
    BY <1>10, <2>2 DEF OpenFails
  <2>4. ListTypes'
    BY <1>0, <1>10, <2>3 DEF OpenFails, ListTypes
  <2>5. PlainTypes'
    BY <1>0, <1>10 DEF OpenFails, PlainTypes
  <2> QED
    BY <2>4, <2>5
<1>11. CASE OpenSucceeds
  <2>1. batch[1] \in Attempts
    BY <1>11, Opening DEF OpenSucceeds
  <2>a. batch' = <<>> /\ queued' = queued /\ decode' = decode
    BY <1>11 DEF OpenSucceeds
  <2>b. /\ lastEvent' = [lastEvent EXCEPT ![batch[1]] = "opened"]
        /\ opened' = opened \cup {batch[1]} /\ handles' = handles \cup {batch[1]}
        /\ queueDue' = queueDue \ {batch[1]}
        /\ UNCHANGED <<clientVars, outcome, burst, ledger, stopped, failing, armed>>
    BY <1>11 DEF OpenSucceeds
  <2>c. OpenedThenReleased(batch[1]) \/ OpenedThenQueued(batch[1])
    BY <1>11, OpenCases
  <2>2. kv' \in [Attempts -> Nat]
    BY <1>0, <1>11, <2>1, <2>c, Constants DEF OpenedThenReleased, OpenedThenQueued, PlainTypes
  <2>d. execDue' \subseteq Attempts
    BY <1>0, <2>1, <2>c DEF OpenedThenReleased, OpenedThenQueued, PlainTypes
  <2>3. state' \in [Attempts -> States]
    <3>1. state' = [state EXCEPT ![batch[1]] = "releasing"] \/ state' = [state EXCEPT ![batch[1]] = "prefill"]
      BY <2>c DEF OpenedThenReleased, OpenedThenQueued
    <3> QED
      BY <1>0, <3>1, <2>1 DEF PlainTypes, States
  <2>4. loop' \in {"release", "boundaries"}
    BY <2>c DEF OpenedThenReleased, OpenedThenQueued
  <2>5. PlainTypes'
    BY <1>0, <2>b, <2>d, <2>1, <2>2, <2>3, <2>4 DEF PlainTypes
  <2>6. prefill' \in Seq(Range(IdOf))
    <3>1. prefill' = prefill \/ prefill' = Append(prefill, IdOf[batch[1]])
      BY <2>c DEF OpenedThenReleased, OpenedThenQueued
    <3>2. IdOf[batch[1]] \in Range(IdOf) /\ prefill \in Seq(Range(IdOf))
      BY <1>0, <2>1, Constants DEF ListTypes
    <3>3. Append(prefill, IdOf[batch[1]]) \in Seq(Range(IdOf))
      BY <3>2, Appended
    <3> QED
      BY <3>1, <3>2, <3>3
  <2>7. todo' \in Seq([entry : Attempts, verdict : Verdicts])
    <3>1. \/ todo' = todo
          \/ \E v \in Verdicts : todo' = <<[entry |-> batch[1], verdict |-> v]>>
      BY <2>c DEF OpenedThenReleased, OpenedThenQueued
    <3> QED
      BY <1>0, <2>1, <3>1, OneRelease DEF ListTypes
  <2>8. ListTypes'
    BY <1>0, <2>a, <2>6, <2>7 DEF ListTypes
  <2> QED
    BY <2>5, <2>8
<1>12. CASE StartDecode
  <2>1. PICK p \in Takes(decode, "decode") :
          batch' = Taken(decode, p) /\ decode' \in Left(decode, "decode", p)
    BY <1>12 DEF StartDecode
  <2>2. batch' \in Seq(Attempts)
    <3>1. batch' \in Seq(entries)
      BY <1>0, <2>1, TakenEntries, Constants DEF PlainTypes, ListTypes
    <3> QED
      BY <1>0, <3>1 DEF PlainTypes
  <2>3. decode' \in Seq(Range(IdOf))
    <3>1. Valid(decode, "decode") \ Range(p) \in SUBSET DOMAIN decode
      BY DEF Valid
    <3> QED
      BY <1>0, <2>1, <3>1, KeptElements DEF ListTypes, Left
  <2>4. prefill' \in Seq(Range(IdOf))
    BY <1>0, <1>12, PrunedElements DEF StartDecode, ListTypes
  <2>5. ListTypes'
    BY <1>0, <1>12, <2>2, <2>3, <2>4 DEF StartDecode, ListTypes
  <2>6. PlainTypes'
    BY <1>0, <1>12 DEF StartDecode, PlainTypes, States
  <2> QED
    BY <2>5, <2>6
<1>13. CASE StartPrefill
  <2>1. PICK p \in Takes(prefill, "prefill") :
          batch' = Taken(prefill, p) /\ prefill' \in Left(prefill, "prefill", p)
    BY <1>13 DEF StartPrefill
  <2>2. batch' \in Seq(Attempts)
    <3>1. batch' \in Seq(entries)
      BY <1>0, <2>1, TakenEntries, Constants DEF PlainTypes, ListTypes
    <3> QED
      BY <1>0, <3>1 DEF PlainTypes
  <2>3. prefill' \in Seq(Range(IdOf))
    <3>1. Valid(prefill, "prefill") \ Range(p) \in SUBSET DOMAIN prefill
      BY DEF Valid
    <3> QED
      BY <1>0, <2>1, <3>1, KeptElements DEF ListTypes, Left
  <2>4. decode' \in Seq(Range(IdOf))
    BY <1>0, <1>13, PrunedElements DEF StartPrefill, ListTypes
  <2>5. ListTypes'
    BY <1>0, <1>13, <2>2, <2>3, <2>4 DEF StartPrefill, ListTypes
  <2>6. PlainTypes'
    BY <1>0, <1>13 DEF StartPrefill, PlainTypes, States
  <2> QED
    BY <2>5, <2>6
<1>14. CASE NoBatch
  <2>1. ListTypes'
    BY <1>0, <1>14 DEF NoBatch, ListTypes
  <2>2. PlainTypes'
    BY <1>0, <1>14 DEF NoBatch, PlainTypes
  <2> QED
    BY <2>1, <2>2
<1>15. CASE BatchFails
  <2>1. "backend_error" \in Verdicts
    BY DEF Verdicts
  <2>2. todo' \in Seq([entry : Attempts, verdict : Verdicts])
    BY <1>0, <1>15, <2>1, ReleasesOf DEF BatchFails, ListTypes
  <2>3. ListTypes'
    BY <1>0, <1>15, <2>2 DEF BatchFails, ListTypes
  <2>4. PlainTypes'
    BY <1>0, <1>15 DEF BatchFails, PlainTypes
  <2> QED
    BY <2>3, <2>4
<1>16. CASE PrefillEnds
  <2>1. PICK outs \in [DOMAIN batch -> {"ready", "partial", "mismatch"}] :
          /\ \E s \in With(outs, "ready")    : decode'  = decode \o Ids(s)
          /\ \E s \in With(outs, "partial")  : prefill' = prefill \o Ids(s)
          /\ \E s \in With(outs, "mismatch") : todo'    = Releases(s, "backend_error")
    BY <1>16 DEF PrefillEnds
  <2>2. decode' \in Seq(Range(IdOf))
    BY <1>0, <2>1, WithOutcome, IdsOf, Concatenated DEF ListTypes
  <2>3. prefill' \in Seq(Range(IdOf))
    BY <1>0, <2>1, WithOutcome, IdsOf, Concatenated DEF ListTypes
  <2>4. todo' \in Seq([entry : Attempts, verdict : Verdicts])
    <3>1. "backend_error" \in Verdicts
      BY DEF Verdicts
    <3>2. PICK s \in With(outs, "mismatch") : todo' = Releases(s, "backend_error")
      BY <2>1
    <3>3. s \in Seq(Attempts)
      BY WithOutcome
    <3> QED
      BY <3>1, <3>2, <3>3, ReleasesOf
  <2>5. batch' = <<>> /\ queued' = queued
    BY <1>16 DEF PrefillEnds
  <2>6. ListTypes'
    BY <1>0, <2>2, <2>3, <2>4, <2>5 DEF ListTypes
  <2>7. state' \in [Attempts -> States]
    BY <1>0, <1>16 DEF PrefillEnds, PlainTypes, States
  <2>8. lastEvent' \in [Attempts -> {"none", "admitted", "opened", "progress", "released",
                                     "terminal"}]
    BY <1>0, <1>16 DEF PrefillEnds, PlainTypes
  <2>9. loop' \in {"boundaries", "release"} /\ burst' \in 0 .. MaxDecodeBurst
    BY <1>16, Constants DEF PrefillEnds, AfterBatch
  <2>10. UNCHANGED <<clientVars, clockVars, handles, outcome, ledgerVars, opened,
                     stopped, failing, armed>>
    BY <1>16 DEF PrefillEnds
  <2>11. PlainTypes'
    BY <1>0, <2>7, <2>8, <2>9, <2>10 DEF PlainTypes
  <2> QED
    BY <2>6, <2>11
<1>17. CASE DecodeEnds
  <2>1. PICK outs \in [DOMAIN batch -> {"progressed", "result", "backend_error"}] :
          /\ \E s \in With(outs, "progressed") : decode' = decode \o Ids(s)
          /\ \E w \in Ascending({i \in DOMAIN batch : outs[i] # "progressed"}) :
               todo' = [k \in DOMAIN w |-> [entry |-> batch[w[k]], verdict |-> outs[w[k]]]]
    BY <1>17 DEF DecodeEnds
  <2>2. decode' \in Seq(Range(IdOf))
    BY <1>0, <2>1, WithOutcome, IdsOf, Concatenated DEF ListTypes
  <2>3. todo' \in Seq([entry : Attempts, verdict : Verdicts])
    <3> DEFINE P == {i \in DOMAIN batch : outs[i] # "progressed"}
    <3>1. PICK w \in Ascending(P) :
            todo' = [k \in DOMAIN w |-> [entry |-> batch[w[k]], verdict |-> outs[w[k]]]]
      BY <2>1
    <3>2. batch \in Seq(Attempts) /\ P \in SUBSET DOMAIN batch
      BY <1>0 DEF ListTypes
    <3>3. w \in Seq(P)
      BY <3>2, AscendingList
    <3>4. \A i \in P : [entry |-> batch[i], verdict |-> outs[i]] \in [entry : Attempts, verdict : Verdicts]
      BY <3>2 DEF Verdicts
    <3> HIDE DEF P
    <3>5. DOMAIN w = 1 .. Len(w) /\ Len(w) \in Nat /\ \A k \in 1 .. Len(w) : w[k] \in P
      BY <3>3
    <3> DEFINE R == [entry : Attempts, verdict : Verdicts]
    <3>6. todo' \in [1 .. Len(w) -> R]
      BY <3>1, <3>4, <3>5
    <3> HIDE DEF R
    <3>7. todo' \in Seq(R)
      BY <3>5, <3>6
    <3> QED
      BY <3>7 DEF R
  <2>4. batch' = <<>> /\ queued' = queued /\ prefill' = prefill
    BY <1>17 DEF DecodeEnds
  <2>5. ListTypes'
    BY <1>0, <2>2, <2>3, <2>4 DEF ListTypes
  <2>6. state' \in [Attempts -> States]
    BY <1>0, <1>17 DEF DecodeEnds, PlainTypes, States
  <2>7. lastEvent' \in [Attempts -> {"none", "admitted", "opened", "progress", "released",
                                     "terminal"}]
    BY <1>0, <1>17 DEF DecodeEnds, PlainTypes
  <2>8. loop' \in {"boundaries", "release"}
    BY <1>17 DEF DecodeEnds, AfterBatch
  <2>9. burst' \in 0 .. MaxDecodeBurst
    BY <1>0, <1>17, Constants DEF DecodeEnds, PlainTypes
  <2>10. UNCHANGED <<clientVars, clockVars, handles, outcome, ledgerVars, opened,
                     stopped, failing, armed>>
    BY <1>17 DEF DecodeEnds
  <2>11. PlainTypes'
    BY <1>0, <2>6, <2>7, <2>8, <2>9, <2>10 DEF PlainTypes
  <2> QED
    BY <2>5, <2>11
<1>18. CASE ReleaseEntry
  <2>1. todo[1].entry \in Attempts /\ Head(todo) = todo[1] /\ 1 \in DOMAIN todo
    BY <1>18, Releasing DEF ReleaseEntry
  <2>2. /\ opened' \subseteq Attempts /\ ledger' \subseteq Attempts
        /\ loop' \in {"release", "stop", "boundaries", "settle"}
    BY <1>0, <1>18 DEF ReleaseEntry, PlainTypes
  <2>3. kv' \in [Attempts -> Nat]
    BY <1>0, <1>18, <2>1 DEF ReleaseEntry, PlainTypes
  <2>4. lastEvent' \in [Attempts -> {"none", "admitted", "opened", "progress", "released",
                                     "terminal"}]
    BY <1>0, <1>18, <2>1 DEF ReleaseEntry, PlainTypes
  <2>5. UNCHANGED <<clientVars, clockVars, state, handles, outcome, dequeVars,
                    batch, stopped, failing, armed>>
    BY <1>18 DEF ReleaseEntry
  <2>6. PlainTypes'
    BY <1>0, <2>2, <2>3, <2>4, <2>5 DEF PlainTypes
  <2>7. todo' \in Seq([entry : Attempts, verdict : Verdicts])
    <3> DEFINE FailedHead == [todo EXCEPT ![1] = [entry |-> todo[1].entry, verdict |-> "release_failed"]]
    <3>1. todo' \in {todo, Tail(todo), FailedHead}
      BY <1>18, <2>1 DEF ReleaseEntry
    <3>2. Tail(todo) \in Seq([entry : Attempts, verdict : Verdicts])
      BY <1>18, Releasing DEF ReleaseEntry
    <3>3. FailedHead \in Seq([entry : Attempts, verdict : Verdicts])
      BY <1>0, <2>1, FailedRelease DEF ListTypes
    <3> QED
      BY <1>0, <3>1, <3>2, <3>3 DEF ListTypes
  <2>8. ListTypes'
    BY <1>0, <2>5, <2>7 DEF ListTypes
  <2> QED
    BY <2>6, <2>8
<1>19. CASE SettleEntry
  <2>1. /\ todo[1].entry \in Attempts /\ Head(todo) = todo[1] /\ todo[1].verdict \in Verdicts
        /\ Tail(todo) \in Seq([entry : Attempts, verdict : Verdicts])
    BY <1>19, Releasing DEF SettleEntry
  <2>2. PlainTypes'
    BY <1>0, <1>19, <2>1 DEF SettleEntry, Settled, PlainTypes, States
  <2>3. ListTypes'
    BY <1>0, <1>19, <2>1 DEF SettleEntry, ListTypes
  <2> QED
    BY <2>2, <2>3
<1>20. CASE Idle
  BY <1>0, <1>20 DEF Idle, PlainTypes, ListTypes
<1>21. CASE WaitTimesOut
  BY <1>0, <1>21 DEF WaitTimesOut, PlainTypes, ListTypes
<1>22. CASE FailAll
  <2>1. PICK s \in SetToSeqs({a \in entries : Live(a)}), v \in {"crashed", "shutdown"} :
          todo' = Releases(s, v)
    BY <1>22 DEF FailAll
  <2>2. s \in Seq(Attempts)
    <3> DEFINE L == {a \in entries : Live(a)}
    <3>1. L \in SUBSET Attempts
      BY <1>0 DEF PlainTypes
    <3>2. Cardinality(L) \in Nat
      BY <3>1, Constants, FS_Subset, FS_CardinalityType
    <3>3. s \in [1 .. Cardinality(L) -> L]
      BY DEF SetToSeqs
    <3> HIDE DEF L
    <3>4. s \in [1 .. Cardinality(L) -> Attempts]
      BY <3>1, <3>3
    <3> QED
      BY <3>2, <3>4
  <2>3. v \in Verdicts
    BY DEF Verdicts
  <2>4. todo' \in Seq([entry : Attempts, verdict : Verdicts])
    BY <2>1, <2>2, <2>3, ReleasesOf
  <2>5. ListTypes'
    BY <1>0, <1>22, <2>4 DEF FailAll, ListTypes
  <2>6. PlainTypes'
    BY <1>0, <1>22 DEF FailAll, PlainTypes
  <2> QED
    BY <2>5, <2>6
<1>23. CASE Stop
  BY <1>0, <1>23 DEF Stop, PlainTypes, ListTypes
<1>24. CASE UNCHANGED vars
  BY <1>0, <1>24 DEF vars, PlainTypes, ListTypes
<1> QED
  BY <1>1, <1>2, <1>3, <1>4, <1>5, <1>6, <1>7, <1>8, <1>9, <1>10, <1>11, <1>12, <1>13,
     <1>14, <1>15, <1>16, <1>17, <1>18, <1>19, <1>20, <1>21, <1>22, <1>23, <1>24
     DEF Next, ClientStep, SchedulerStep

-----------------------------------------------------------------------------
(***************************************************************************)
(* What the steps around a batch do to its entries.                        *)
(***************************************************************************)

\* A batch starts with entries that waited for it, and puts them in flight.
LEMMA StartEffect ==
  ASSUME TypeOK, EntriesInv, StartDecode \/ StartPrefill
  PROVE  /\ batch' # <<>>
         /\ \A i \in DOMAIN batch' :
              /\ batch'[i] \in entries
              /\ state[batch'[i]] \in {"decode", "prefill"} /\ state'[batch'[i]] \in InFlight
         /\ \A a \in Attempts : state'[a] \in InFlight \/ state'[a] = state[a]
         /\ \A a \in Attempts : a \notin Range(batch') => state'[a] = state[a]
         /\ loop \notin {"release", "settle"} /\ loop' \in {"prefill_run", "decode_run"}
         /\ UNCHANGED <<clientVars, clockVars, handles, outcome, lastEvent, ledgerVars,
                        opened, todo, stopped, failing, armed>>
<1>0. PlainTypes /\ ListTypes
  BY TypeParts
<1>1. CASE StartDecode
  <2>1. PICK p \in Takes(decode, "decode") : batch' = Taken(decode, p)
    BY <1>1 DEF StartDecode
  <2>2. HasState(decode, "decode")
    BY <1>1 DEF StartDecode, DecodeFirst
  <2>3. /\ batch' \in Seq(entries) /\ batch' # <<>>
        /\ \A i \in DOMAIN batch' : state[batch'[i]] = "decode"
    BY <1>0, <2>1, <2>2, TakenEntries, Constants DEF PlainTypes, ListTypes
  <2>4. \A i \in DOMAIN batch' : batch'[i] \in entries /\ batch'[i] \in Range(batch')
    BY <2>3 DEF Range
  <2>5. entries \subseteq Attempts
    BY <1>0 DEF PlainTypes
  <2>6. \A a \in Attempts : state'[a] = IF a \in Range(batch') THEN "decode_inflight" ELSE state[a]
    BY <1>1 DEF StartDecode
  <2> QED
    BY <1>1, <2>3, <2>4, <2>5, <2>6 DEF StartDecode, InFlight
<1>2. CASE StartPrefill
  <2>1. PICK p \in Takes(prefill, "prefill") : batch' = Taken(prefill, p)
    BY <1>2 DEF StartPrefill
  <2>2. HasState(prefill, "prefill")
    BY <1>2 DEF StartPrefill
  <2>3. /\ batch' \in Seq(entries) /\ batch' # <<>>
        /\ \A i \in DOMAIN batch' : state[batch'[i]] = "prefill"
    BY <1>0, <2>1, <2>2, TakenEntries, Constants DEF PlainTypes, ListTypes
  <2>4. \A i \in DOMAIN batch' : batch'[i] \in entries /\ batch'[i] \in Range(batch')
    BY <2>3 DEF Range
  <2>5. entries \subseteq Attempts
    BY <1>0 DEF PlainTypes
  <2>6. \A a \in Attempts : state'[a] = IF a \in Range(batch') THEN "prefill_inflight" ELSE state[a]
    BY <1>2 DEF StartPrefill
  <2> QED
    BY <1>2, <2>3, <2>4, <2>5, <2>6 DEF StartPrefill, InFlight
<1> QED
  BY <1>1, <1>2

\* What a batch that ends leaves to be released.
LEMMA EndTodo ==
  ASSUME TypeOK, BatchFails \/ PrefillEnds \/ DecodeEnds
  PROVE  \A k \in DOMAIN todo' : todo'[k].entry \in Range(batch)
<1>0. batch \in Seq(Attempts)
  BY DEF TypeOK
<1>1. CASE BatchFails
  <2>1. todo' = Releases(batch, "backend_error") /\ "backend_error" \in Verdicts
    BY <1>1 DEF BatchFails, Verdicts
  <2> QED
    BY <1>0, <2>1, ReleasesOf DEF Range
<1>2. CASE PrefillEnds
  <2>1. PICK outs \in [DOMAIN batch -> {"ready", "partial", "mismatch"}] :
          \E s \in With(outs, "mismatch") : todo' = Releases(s, "backend_error")
    BY <1>2 DEF PrefillEnds
  <2>2. PICK s \in With(outs, "mismatch") : todo' = Releases(s, "backend_error")
    BY <2>1
  <2>3. s \in Seq(Attempts) /\ Range(s) \subseteq Range(batch)
    <3>1. s \in Seq(Attempts) /\ Range(s) = {batch[i] : i \in {j \in DOMAIN batch : outs[j] = "mismatch"}}
      BY WithOutcome
    <3>2. {batch[i] : i \in {j \in DOMAIN batch : outs[j] = "mismatch"}} \subseteq Range(batch)
      BY DEF Range
    <3> QED
      BY <3>1, <3>2
  <2>4. "backend_error" \in Verdicts
    BY DEF Verdicts
  <2>5. DOMAIN todo' = DOMAIN s /\ \A k \in DOMAIN s : todo'[k].entry = s[k]
    BY <2>2, <2>3, <2>4, ReleasesOf
  <2> QED
    BY <2>3, <2>5 DEF Range
<1>3. CASE DecodeEnds
  <2>1. PICK outs \in [DOMAIN batch -> {"progressed", "result", "backend_error"}] :
          \E w \in Ascending({i \in DOMAIN batch : outs[i] # "progressed"}) :
            todo' = [k \in DOMAIN w |-> [entry |-> batch[w[k]], verdict |-> outs[w[k]]]]
    BY <1>3 DEF DecodeEnds
  <2> DEFINE P == {i \in DOMAIN batch : outs[i] # "progressed"}
  <2>2. PICK w \in Ascending(P) :
          todo' = [k \in DOMAIN w |-> [entry |-> batch[w[k]], verdict |-> outs[w[k]]]]
    BY <2>1
  <2>3. P \in SUBSET DOMAIN batch
    OBVIOUS
  <2> HIDE DEF P
  <2>4. w \in Seq(P)
    BY <1>0, <2>3, AscendingList
  <2>5. \A k \in DOMAIN w : w[k] \in DOMAIN batch
    BY <2>3, <2>4
  <2> QED
    BY <2>2, <2>5 DEF Range
<1> QED
  BY <1>1, <1>2, <1>3

\* A batch that ends sends its entries on or to their release, with no event
\* but progress, and leaves the others alone.
LEMMA EndEffect ==
  ASSUME TypeOK, LoopInv, BatchFails \/ PrefillEnds \/ DecodeEnds
  PROVE  /\ loop \in {"prefill_run", "decode_run"} /\ todo = <<>> /\ batch' = <<>>
         /\ \A a \in Attempts :
              \/ state'[a] = state[a] /\ lastEvent'[a] = lastEvent[a]
              \/ /\ a \in Range(batch) /\ state[a] \in InFlight
                 /\ state'[a] \in {"decode", "prefill", "releasing"}
                 /\ lastEvent'[a] \in {lastEvent[a], "progress"}
         /\ \A k \in DOMAIN todo' : todo'[k].entry \in Range(batch)
         /\ \/ todo' = <<>> /\ loop' = "boundaries"
            \/ todo' # <<>> /\ loop' = "release"
         /\ UNCHANGED <<clientVars, clockVars, handles, outcome, ledgerVars, opened,
                        stopped, failing, armed>>
<1>1. loop \in {"prefill_run", "decode_run"}
  BY DEF BatchFails, PrefillEnds, DecodeEnds
<1>2. todo = <<>> /\ batch # <<>> /\ \A i \in DOMAIN batch : state[batch[i]] \in InFlight
  BY <1>1 DEF LoopInv
<1>3. batch' = <<>>
  BY DEF BatchFails, PrefillEnds, DecodeEnds
<1>4. \A k \in DOMAIN todo' : todo'[k].entry \in Range(batch)
  BY EndTodo
<1>5. \/ todo' = <<>> /\ loop' = "boundaries"
      \/ todo' # <<>> /\ loop' = "release"
  <2>1. CASE BatchFails
    <3>1. batch \in Seq(Attempts) /\ "backend_error" \in Verdicts
      BY DEF TypeOK, Verdicts
    <3>2. DOMAIN Releases(batch, "backend_error") = DOMAIN batch
      BY <3>1, ReleasesOf
    <3>3. DOMAIN batch # {}
      BY <1>2, <3>1
    <3>4. Releases(batch, "backend_error") # <<>>
      BY <3>2, <3>3
    <3> QED
      BY <2>1, <3>4 DEF BatchFails
  <2>2. CASE PrefillEnds \/ DecodeEnds
    BY <2>2 DEF PrefillEnds, DecodeEnds, AfterBatch
  <2> QED
    BY <2>1, <2>2
<1>6. \A a \in Attempts :
        \/ state'[a] = state[a] /\ lastEvent'[a] = lastEvent[a]
        \/ /\ a \in Range(batch)
           /\ state'[a] \in {"decode", "prefill", "releasing"}
           /\ lastEvent'[a] \in {lastEvent[a], "progress"}
  <2>1. CASE BatchFails
    BY <2>1 DEF BatchFails, entryVars
  <2>2. CASE PrefillEnds
    BY <2>2 DEF PrefillEnds, Range
  <2>3. CASE DecodeEnds
    BY <2>3 DEF DecodeEnds, Range
  <2> QED
    BY <2>1, <2>2, <2>3
<1>7. \A a \in Range(batch) : state[a] \in InFlight
  BY <1>2 DEF Range
<1>8. UNCHANGED <<clientVars, clockVars, handles, outcome, ledgerVars, opened,
                  stopped, failing, armed>>
  BY DEF BatchFails, PrefillEnds, DecodeEnds, entryVars
<1> QED
  BY <1>1, <1>2, <1>3, <1>4, <1>5, <1>6, <1>7, <1>8

\* _fail_all takes every live entry, each once.
LEMMA FailEffect ==
  ASSUME TypeOK, FailAll
  PROVE  /\ \A k \in DOMAIN todo' : Live(todo'[k].entry)
         /\ \A j, k \in DOMAIN todo' : todo'[j].entry = todo'[k].entry => j = k
<1> DEFINE L == {a \in entries : Live(a)}
<1>1. PICK s \in SetToSeqs(L), v \in {"crashed", "shutdown"} : todo' = Releases(s, v)
  BY DEF FailAll
<1>2. s \in [1 .. Cardinality(L) -> L] /\ \A i, j \in 1 .. Cardinality(L) : i # j => s[i] # s[j]
  BY <1>1 DEF SetToSeqs
<1>3. L \in SUBSET Attempts /\ \A a \in L : Live(a)
  BY DEF TypeOK
<1>4. Cardinality(L) \in Nat
  BY <1>3, Constants, FS_Subset, FS_CardinalityType
<1> HIDE DEF L
<1>5. s \in Seq(Attempts) /\ DOMAIN s = 1 .. Cardinality(L)
  <2>1. s \in [1 .. Cardinality(L) -> Attempts]
    BY <1>2, <1>3
  <2> QED
    BY <1>4, <2>1
<1>6. v \in Verdicts
  BY DEF Verdicts
<1>7. DOMAIN todo' = DOMAIN s /\ \A k \in DOMAIN s : todo'[k].entry = s[k]
  BY <1>1, <1>5, <1>6, ReleasesOf
<1> QED
  BY <1>2, <1>3, <1>5, <1>7

-----------------------------------------------------------------------------
(***************************************************************************)
(* The inductive invariant, part by part.                                  *)
(***************************************************************************)

\* Only a live entry changes its state, and never back to new; entries come
\* and go with their clients only.
LEMMA Moves ==
  ASSUME TypeOK, EntriesInv, LoopInv, SettleInv,
         Start \/ Shutdown \/ SchedulerStep \/ Crashes
  PROVE  /\ entries' = entries
         /\ cancelRequested' \in {cancelRequested, cancelRequested \cup {a \in entries : Live(a)}}
         /\ \A a \in Attempts : state'[a] = state[a] \/ (Live(a) /\ state'[a] # "new")
<1> USE DEF clientVars, clockVars, entryVars, dequeVars, ledgerVars, loopVars
<1>0. state \in [Attempts -> States] /\ entries \subseteq Attempts
  BY DEF TypeOK
<1>a. \A a \in Attempts : state[a] \notin {"new", "terminal"} => Live(a)
  BY <1>0 DEF EntriesInv, Live
<1>1. CASE Start \/ Shutdown
  BY <1>1 DEF Start, Shutdown, NotifyAll
<1>2. CASE Boundaries
  BY <1>0, <1>2 DEF Boundaries, AtBoundary
<1>3. CASE OpenOne
  BY <1>0, <1>3, <1>a DEF OpenOne, Openable
<1>4. CASE OpenFails
  BY <1>4 DEF OpenFails
<1>5. CASE OpenSucceeds
  <2>1. batch[1] \in Attempts /\ Live(batch[1])
    BY <1>5, <1>a, Opening DEF OpenSucceeds
  <2>2. state' = [state EXCEPT ![batch[1]] = "releasing"] \/ state' = [state EXCEPT ![batch[1]] = "prefill"]
    BY <1>5, OpenCases DEF OpenedThenReleased, OpenedThenQueued
  <2> QED
    BY <1>0, <1>5, <2>1, <2>2 DEF OpenSucceeds
<1>6. CASE StartDecode \/ StartPrefill
  <2>1. \A a \in Range(batch') : Live(a) /\ state'[a] # "new"
    BY <1>6, StartEffect DEF Range, Live, InFlight
  <2> QED
    BY <1>6, <2>1, StartEffect
<1>7. CASE BatchFails \/ PrefillEnds \/ DecodeEnds
  <2>1. \A a \in Attempts : state'[a] = state[a] \/ (state[a] \in InFlight /\ state'[a] # "new")
    BY <1>7, EndEffect
  <2>2. UNCHANGED clientVars
    BY <1>7, EndEffect
  <2> QED
    BY <1>a, <2>1, <2>2 DEF InFlight
<1>8. CASE SettleEntry \/ CrashSettling
  <2>1. todo[1].entry \in Attempts /\ Head(todo) = todo[1]
    BY <1>8, Releasing DEF SettleEntry, CrashSettling
  <2>2. Live(todo[1].entry)
    BY <1>8 DEF SettleEntry, CrashSettling, SettleInv
  <2>3. /\ state' = [state EXCEPT ![todo[1].entry] = "terminal"]
        /\ entries' = entries /\ cancelRequested' = cancelRequested
    BY <1>8, <2>1 DEF SettleEntry, CrashSettling, Settled
  <2> QED
    BY <1>0, <2>1, <2>2, <2>3
<1>9. CASE ReleaseEntry \/ NoBatch \/ Idle \/ WaitTimesOut \/ FailAll \/ Stop
  BY <1>9 DEF ReleaseEntry, NoBatch, Idle, WaitTimesOut, FailAll, Stop
<1>10. CASE Crash \/ CrashTaking \/ CrashOpening
  BY <1>10 DEF Crash, CrashTaking, CrashOpening
<1> QED
  BY <1>1, <1>2, <1>3, <1>4, <1>5, <1>6, <1>7, <1>8, <1>9, <1>10 DEF SchedulerStep, Crashes

\* An id names one entry at most, and what is not an entry has ended.
LEMMA EntriesStep ==
  ASSUME TypeOK, EntriesInv, LoopInv, SettleInv, [Next]_vars
  PROVE  EntriesInv'
<1> USE DEF clientVars, clockVars, entryVars, dequeVars, ledgerVars, loopVars
<1>0. state \in [Attempts -> States] /\ entries \subseteq Attempts
  BY DEF TypeOK
<1>1. ASSUME NEW a \in Attempts, Infer(a) PROVE EntriesInv'
  <2>1. a \notin entries /\ \A b \in entries : IdOf[b] # IdOf[a]
    BY <1>1 DEF Infer, EntriesInv, EntryOf
  <2> QED
    BY <1>0, <1>1, <2>1 DEF Infer, EntriesInv
<1>2. ASSUME NEW a \in Attempts, InferReturn(a) PROVE EntriesInv'
  BY <1>0, <1>2 DEF InferReturn, EntriesInv
<1>3. ASSUME NEW a \in Attempts, Cancel(a) PROVE EntriesInv'
  BY <1>0, <1>3 DEF Cancel, Live, EntriesInv
<1>4. ASSUME NEW a \in Attempts, DeadlinePasses(a) PROVE EntriesInv'
  BY <1>0, <1>4 DEF DeadlinePasses, EntriesInv
<1>5. CASE Start \/ Shutdown \/ SchedulerStep \/ Crashes
  <2>1. /\ entries' = entries
        /\ cancelRequested' \in {cancelRequested, cancelRequested \cup {a \in entries : Live(a)}}
        /\ \A a \in Attempts : state'[a] = state[a] \/ (Live(a) /\ state'[a] # "new")
    BY <1>5, Moves
  <2> QED
    BY <1>0, <2>1 DEF EntriesInv, Live
<1>6. CASE UNCHANGED vars
  BY <1>6 DEF vars, EntriesInv
<1> QED
  BY <1>1, <1>2, <1>3, <1>4, <1>5, <1>6 DEF Next, ClientStep

\* Steps that leave the batch and the releases under way alone.
LEMMA LoopFrame ==
  ASSUME TypeOK, LoopInv, batch' = batch, todo' = todo,
         \A a \in Attempts : state'[a] = state[a] \/ (state[a] = "new" /\ state'[a] # "new"),
         \/ loop' = loop
         \/ /\ {loop, loop'} \cap {"opening", "prefill_run", "decode_run", "release", "settle"} = {}
  PROVE  LoopInv'
<1>1. /\ batch \in Seq(Attempts) /\ \A i \in DOMAIN batch : batch[i] \in Attempts
      /\ todo \in Seq([entry : Attempts, verdict : Verdicts])
  BY DEF TypeOK
<1>2. \A i \in DOMAIN todo : todo[i].entry \in Attempts
  <2> DEFINE R == [entry : Attempts, verdict : Verdicts]
  <2>1. \A r \in R : r.entry \in Attempts
    OBVIOUS
  <2>2. todo \in Seq(R)
    BY <1>1
  <2> HIDE DEF R
  <2>3. \A i \in DOMAIN todo : todo[i] \in R
    BY <2>2
  <2> QED
    BY <2>1, <2>3
<1>3. loop = "opening" => batch[1] \in Attempts
  BY Opening
<1>4. loop' = "opening" => Len(batch') = 1 /\ state'[batch'[1]] = "opening"
  BY <1>3 DEF LoopInv
<1>5. loop' \in {"prefill_run", "decode_run"} =>
        batch' # <<>> /\ \A i \in DOMAIN batch' : state'[batch'[i]] \in InFlight
  BY <1>1 DEF LoopInv, InFlight
<1>6. loop' \in {"release", "settle"} =>
        todo' # <<>> /\ \A i \in DOMAIN todo' : state'[todo'[i].entry] # "new"
  BY <1>2 DEF LoopInv
<1>7. /\ loop' \notin {"release", "settle"} => todo' = <<>>
      /\ loop' \notin {"opening", "prefill_run", "decode_run"} => batch' = <<>>
  BY DEF LoopInv
<1> QED
  BY <1>4, <1>5, <1>6, <1>7 DEF LoopInv

\* What the scheduler thread holds at each place of its loop.
LEMMA LoopStep ==
  ASSUME TypeOK, EntriesInv, LoopInv, SettleInv, [Next]_vars
  PROVE  LoopInv'
<1> USE DEF clientVars, clockVars, entryVars, dequeVars, ledgerVars, loopVars
<1>0. state \in [Attempts -> States] /\ entries \subseteq Attempts
  BY DEF TypeOK
<1>a. batch \in Seq(Attempts) /\ todo \in Seq([entry : Attempts, verdict : Verdicts])
  BY DEF TypeOK
<1>1. ASSUME NEW a \in Attempts, Infer(a) PROVE LoopInv'
  <2>1. batch' = batch /\ todo' = todo
    BY <1>1 DEF Infer, NotifyAll
  <2>2. \A b \in Attempts : state'[b] = state[b] \/ (state[b] = "new" /\ state'[b] # "new")
    BY <1>0, <1>1 DEF Infer
  <2>3. loop' = loop \/ (loop = "wait" /\ loop' = "boundaries")
    BY <1>1 DEF Infer, NotifyAll
  <2> QED
    BY <2>1, <2>2, <2>3, LoopFrame
<1>2. ASSUME NEW a \in Attempts, InferReturn(a) \/ Cancel(a) \/ DeadlinePasses(a) PROVE LoopInv'
  <2>1. batch' = batch /\ todo' = todo /\ state' = state
    BY <1>2 DEF InferReturn, Cancel, DeadlinePasses, NotifyAll
  <2>2. loop' = loop \/ (loop = "wait" /\ loop' = "boundaries")
    BY <1>2 DEF InferReturn, Cancel, DeadlinePasses, NotifyAll
  <2> QED
    BY <2>1, <2>2, LoopFrame
<1>3. CASE Start \/ Shutdown \/ NoBatch \/ Idle \/ WaitTimesOut \/ Stop
  <2>1. batch' = batch /\ todo' = todo /\ state' = state
    BY <1>3 DEF Start, Shutdown, NoBatch, Idle, WaitTimesOut, Stop, NotifyAll
  <2>2. \/ loop' = loop
        \/ /\ loop \in {"unstarted", "wait", "choose", "idle", "stop"}
           /\ loop' \in {"boundaries", "fail_all", "idle", "done", "wait"}
    BY <1>3 DEF Start, Shutdown, NoBatch, Idle, WaitTimesOut, Stop, NotifyAll
  <2> QED
    BY <2>1, <2>2, LoopFrame
<1>4. CASE Crashes
  BY <1>4, CrashEffect DEF LoopInv
<1>5. CASE Boundaries
  <2>1. CASE /\ loop' = "open" /\ UNCHANGED <<state, todo>>
    BY <1>5, <2>1, LoopFrame DEF Boundaries
  <2>2. CASE \E a \in entries :
               /\ state' = [state EXCEPT ![a] = "releasing"]
               /\ todo'  = <<[entry |-> a, verdict |-> BoundaryVerdict(a)]>>
               /\ loop'  = "release"
    <3>1. PICK a \in entries :
               /\ state' = [state EXCEPT ![a] = "releasing"]
               /\ todo'  = <<[entry |-> a, verdict |-> BoundaryVerdict(a)]>>
               /\ loop'  = "release"
      BY <2>2
    <3>2. a \in Attempts /\ BoundaryVerdict(a) \in Verdicts /\ state'[a] = "releasing"
      BY <1>0, <3>1 DEF BoundaryVerdict, Verdicts
    <3>3. todo' # <<>> /\ DOMAIN todo' = {1} /\ todo'[1].entry = a
      BY <3>1, <3>2, OneRelease
    <3>4. batch' = <<>>
      BY <1>5 DEF Boundaries, LoopInv
    <3> QED
      BY <3>1, <3>2, <3>3, <3>4 DEF LoopInv
  <2> QED
    BY <1>5, <2>1, <2>2 DEF Boundaries
<1>6. CASE OpenOne
  <2>1. CASE loop' = "choose" /\ UNCHANGED <<state, batch>>
    BY <1>6, <2>1, LoopFrame DEF OpenOne
  <2>2. CASE \E a \in entries :
               state' = [state EXCEPT ![a] = "opening"] /\ batch' = <<a>> /\ loop' = "opening"
    BY <1>0, <1>6, <2>2 DEF OpenOne, LoopInv
  <2> QED
    BY <1>6, <2>1, <2>2 DEF OpenOne
<1>7. CASE OpenFails
  <2>1. batch[1] \in Attempts /\ state[batch[1]] = "opening" /\ "backend_error" \in Verdicts
    BY <1>7, Opening DEF OpenFails, Verdicts
  <2>2. todo' # <<>> /\ DOMAIN todo' = {1} /\ todo'[1].entry = batch[1]
    BY <1>7, <2>1, OneRelease DEF OpenFails
  <2> QED
    BY <1>7, <2>1, <2>2 DEF OpenFails, LoopInv
<1>8. CASE OpenSucceeds
  <2>1. batch[1] \in Attempts /\ batch' = <<>> /\ todo = <<>>
    BY <1>8, Opening DEF OpenSucceeds, LoopInv
  <2>2. CASE OpenedThenQueued(batch[1])
    BY <2>1, <2>2 DEF OpenedThenQueued, LoopInv
  <2>3. CASE OpenedThenReleased(batch[1])
    <3>1. todo' # <<>> /\ DOMAIN todo' = {1} /\ todo'[1].entry = batch[1]
      BY <2>1, <2>3, OneRelease DEF OpenedThenReleased
    <3>2. state'[batch[1]] = "releasing" /\ loop' = "release"
      BY <1>0, <2>1, <2>3 DEF OpenedThenReleased
    <3> QED
      BY <2>1, <3>1, <3>2 DEF LoopInv
  <2> QED
    BY <1>8, <2>2, <2>3, OpenCases
<1>9. CASE StartDecode \/ StartPrefill
  <2>1. todo' = <<>>
    BY <1>9, StartEffect DEF LoopInv
  <2> QED
    BY <1>9, <2>1, StartEffect DEF LoopInv
<1>10. CASE BatchFails \/ PrefillEnds \/ DecodeEnds
  <2>1. \A k \in DOMAIN todo' : todo'[k].entry \in Attempts /\ state[todo'[k].entry] \in InFlight
    <3>1. \A k \in DOMAIN todo' : todo'[k].entry \in Range(batch)
      BY <1>10, EndEffect
    <3>2. \A i \in DOMAIN batch : batch[i] \in Attempts /\ state[batch[i]] \in InFlight
      BY <1>10, <1>a, EndEffect DEF LoopInv
    <3> QED
      BY <3>1, <3>2 DEF Range
  <2>2. \A a \in Attempts : state[a] \in InFlight => state'[a] # "new"
    <3>1. \A a \in Attempts : state'[a] = state[a] \/ state'[a] \in {"decode", "prefill", "releasing"}
      BY <1>10, EndEffect
    <3> QED
      BY <3>1 DEF InFlight
  <2>3. /\ batch' = <<>>
        /\ \/ todo' = <<>> /\ loop' = "boundaries"
           \/ todo' # <<>> /\ loop' = "release"
    BY <1>10, EndEffect
  <2> QED
    BY <2>1, <2>2, <2>3 DEF LoopInv
<1>11. CASE ReleaseEntry
  <2>1. /\ loop = "release" /\ batch' = <<>> /\ state' = state
        /\ \A k \in DOMAIN todo : state[todo[k].entry] # "new"
    BY <1>11 DEF ReleaseEntry, LoopInv
  <2>2. CASE /\ todo' = Tail(todo)
             /\ loop' = IF Len(todo) > 1 THEN "release" ELSE IF failing THEN "stop" ELSE "boundaries"
    <3>1. \A k \in DOMAIN todo' : state'[todo'[k].entry] # "new"
      BY <2>1, <2>2, Releasing
    <3>2. Len(todo) > 1 <=> todo' # <<>>
      BY <2>1, <2>2, Releasing
    <3> QED
      BY <2>1, <2>2, <3>1, <3>2 DEF LoopInv
  <2>3. CASE loop' = "settle" /\ todo' = todo
    BY <2>1, <2>3 DEF LoopInv
  <2>4. CASE /\ loop' = "settle"
             /\ todo' = [todo EXCEPT ![1] = [entry |-> Head(todo).entry, verdict |-> "release_failed"]]
    <3>1. Head(todo) = todo[1] /\ 1 \in DOMAIN todo
      BY <2>1, Releasing
    <3>2. todo' # <<>> /\ DOMAIN todo' = DOMAIN todo /\ \A k \in DOMAIN todo : todo'[k].entry = todo[k].entry
      BY <1>a, <2>4, <3>1, FailedRelease
    <3> QED
      BY <2>1, <2>4, <3>2 DEF LoopInv
  <2> QED
    BY <1>11, <2>2, <2>3, <2>4 DEF ReleaseEntry
<1>12. CASE SettleEntry
  <2>1. /\ loop = "settle" /\ batch' = <<>>
        /\ \A k \in DOMAIN todo : state[todo[k].entry] # "new"
    BY <1>12 DEF SettleEntry, LoopInv
  <2>2. /\ todo' = Tail(todo)
        /\ loop' = IF Len(todo) > 1 THEN "release" ELSE IF failing THEN "stop" ELSE "boundaries"
    BY <1>12 DEF SettleEntry
  <2>3. \A a : state[a] # "new" /\ a \in Attempts => state'[a] # "new"
    BY <1>0, <1>12 DEF SettleEntry, Settled
  <2>4. todo' \in Seq([entry : Attempts, verdict : Verdicts])
    BY <2>1, <2>2, Releasing
  <2>5. \A k \in DOMAIN todo' : todo'[k].entry \in Attempts
    <3> DEFINE R == [entry : Attempts, verdict : Verdicts]
    <3>1. \A r \in R : r.entry \in Attempts
      OBVIOUS
    <3> HIDE DEF R
    <3>a. todo' \in Seq(R)
      BY <2>4 DEF R
    <3>2. \A k \in DOMAIN todo' : todo'[k] \in R
      BY <3>a
    <3> QED
      BY <3>1, <3>2
  <2>6. \A k \in DOMAIN todo' : state'[todo'[k].entry] # "new"
    BY <2>1, <2>2, <2>3, <2>5, Releasing
  <2>7. Len(todo) > 1 <=> todo' # <<>>
    BY <2>1, <2>2, Releasing
  <2> QED
    BY <2>1, <2>2, <2>6, <2>7 DEF LoopInv
<1>13. CASE FailAll
  <2>1. \A k \in DOMAIN todo' : state'[todo'[k].entry] # "new"
    BY <1>13, FailEffect DEF FailAll, Live, EntriesInv
  <2> QED
    BY <1>13, <2>1 DEF FailAll, LoopInv
<1>14. CASE UNCHANGED vars
  BY <1>14, LoopFrame DEF vars
<1> QED
  BY <1>1, <1>2, <1>3, <1>4, <1>5, <1>6, <1>7, <1>8, <1>9, <1>10, <1>11, <1>12, <1>13, <1>14
     DEF Next, ClientStep, SchedulerStep

\* The three parts about a request's events, its sequence and its reservation.
RequestInv == SettleInv /\ HandleInv /\ LedgerExact

\* They hold across a step that gives no event, opens and releases nothing and
\* settles nobody.
LEMMA RequestFrame ==
  ASSUME TypeOK, EntriesInv, RequestInv,
         UNCHANGED <<lastEvent, outcome, ledger, opened>>,
         handles' = handles \cap entries', entries' \subseteq entries,
         \A a \in entries \ entries' : state[a] = "terminal",
         \A a \in Attempts : state'[a] = state[a] \/ (Live(a) /\ state'[a] # "terminal"),
         \/ loop' = loop /\ todo' = todo
         \/ loop # "settle" /\ loop' # "settle"
  PROVE  RequestInv'
<1>0. state \in [Attempts -> States] /\ entries \subseteq Attempts /\ handles \subseteq Attempts
  BY DEF TypeOK
<1>1. \A a \in Attempts : Live(a)' => Live(a)
  BY DEF Live
<1>2. \A a \in Attempts : state'[a] = "terminal" <=> state[a] = "terminal"
  BY DEF Live
<1>3. SettleInv'
  <2>1. ASSUME loop' = "settle"
        PROVE  /\ Live(todo[1].entry)' /\ lastEvent'[todo'[1].entry] = "terminal"
               /\ todo'[1].entry \in opened' => todo'[1].verdict = "release_failed"
    BY <1>0, <1>2, <2>1 DEF RequestInv, SettleInv, Live
  <2>2. \A a \in Attempts : lastEvent'[a] = "terminal" =>
          state'[a] = "terminal" \/ (loop' = "settle" /\ a = todo'[1].entry)
    BY <1>2 DEF RequestInv, SettleInv
  <2> QED
    BY <2>1, <2>2 DEF SettleInv
<1>4. HandleInv'
  BY <1>0, <1>1 DEF RequestInv, HandleInv
<1>5. LedgerExact'
  BY <1>1, <1>2 DEF RequestInv, LedgerExact
<1> QED
  BY <1>3, <1>4, <1>5 DEF RequestInv

\* A live request has no terminal event unless it is being settled.
LEMMA NoEarlyEvent ==
  ASSUME EntriesInv, SettleInv, loop # "settle", NEW a \in Attempts, state[a] # "terminal"
  PROVE  lastEvent[a] # "terminal"
BY DEF SettleInv

\* A request's events, sequence and reservation stay in step.
LEMMA RequestStep ==
  ASSUME TypeOK, EntriesInv, LoopInv, RequestInv, [Next]_vars
  PROVE  RequestInv'
<1> USE DEF clientVars, clockVars, entryVars, dequeVars, ledgerVars, loopVars
<1>0. /\ state \in [Attempts -> States] /\ entries \subseteq Attempts /\ handles \subseteq Attempts
      /\ DOMAIN lastEvent = Attempts /\ DOMAIN outcome = Attempts
  BY DEF TypeOK
<1>a. SettleInv /\ HandleInv /\ LedgerExact
  BY DEF RequestInv
<1>1. ASSUME NEW a \in Attempts, Infer(a) PROVE RequestInv'
  <2>1. state[a] = "new" /\ a \notin entries
    BY <1>1 DEF Infer, EntriesInv
  <2>2. lastEvent[a] # "terminal"
    BY <1>a, <2>1 DEF SettleInv, EntriesInv, Live
  <2>3. /\ \A b \in Attempts : b # a => (Live(b)' <=> Live(b)) /\ state'[b] = state[b]
        /\ state'[a] = "queued"
    BY <1>0, <1>1 DEF Infer, Live
  <2>4. \/ loop' = loop /\ todo' = todo
        \/ loop # "settle" /\ loop' # "settle"
    BY <1>1 DEF Infer, NotifyAll
  <2>5. UNCHANGED <<lastEvent, outcome, opened, handles>> /\ ledger' = ledger \cup {a}
    BY <1>1 DEF Infer
  <2>6. SettleInv'
    <3>1. ASSUME loop' = "settle"
          PROVE  /\ Live(todo[1].entry)' /\ lastEvent'[todo'[1].entry] = "terminal"
                 /\ todo'[1].entry \in opened' => todo'[1].verdict = "release_failed"
      <4>1. loop = "settle" /\ todo' = todo
        BY <2>4, <3>1
      <4>2. Live(todo[1].entry)
        BY <1>a, <4>1 DEF SettleInv
      <4>3. todo[1].entry \in Attempts /\ todo[1].entry # a
        BY <1>0, <2>1, <4>2 DEF Live
      <4> QED
        BY <1>a, <2>3, <2>5, <4>1, <4>2, <4>3 DEF SettleInv, Live
    <3>2. \A b \in Attempts : lastEvent'[b] = "terminal" =>
            state'[b] = "terminal" \/ (loop' = "settle" /\ b = todo'[1].entry)
      BY <1>a, <2>2, <2>3, <2>4, <2>5 DEF SettleInv
    <3> QED
      BY <3>1, <3>2 DEF SettleInv
  <2>7. HandleInv'
    BY <1>0, <1>1, <1>a, <2>1, <2>3, <2>5 DEF HandleInv, Infer
  <2>8. LedgerExact'
    BY <1>a, <2>2, <2>3, <2>5 DEF LedgerExact
  <2> QED
    BY <2>6, <2>7, <2>8 DEF RequestInv
<1>2. ASSUME NEW a \in Attempts, InferReturn(a) PROVE RequestInv'
  <2>1. /\ UNCHANGED <<lastEvent, outcome, ledger, opened, state, loop, todo>>
        /\ handles' = handles \cap entries' /\ entries' \subseteq entries
        /\ \A b \in entries \ entries' : state[b] = "terminal"
    BY <1>2, <1>a DEF InferReturn, HandleInv
  <2> QED
    BY <2>1, RequestFrame
<1>3. ASSUME NEW a \in Attempts, Cancel(a) \/ DeadlinePasses(a) PROVE RequestInv'
  <2>1. /\ UNCHANGED <<lastEvent, outcome, ledger, opened, state, handles, entries>>
        /\ \/ loop' = loop /\ todo' = todo
           \/ loop # "settle" /\ loop' # "settle"
    BY <1>3 DEF Cancel, DeadlinePasses, NotifyAll
  <2>2. handles' = handles \cap entries'
    BY <1>a, <2>1 DEF HandleInv
  <2> QED
    BY <2>1, <2>2, RequestFrame
<1>4. CASE \/ Start \/ Shutdown \/ NoBatch \/ Idle \/ WaitTimesOut \/ Stop \/ FailAll
           \/ OpenFails \/ Crash \/ CrashTaking
  <2>1. /\ UNCHANGED <<lastEvent, outcome, ledger, opened, state, handles, entries>>
        /\ \/ loop' = loop /\ todo' = todo
           \/ loop # "settle" /\ loop' # "settle"
    BY <1>4 DEF Start, Shutdown, NoBatch, Idle, WaitTimesOut, Stop, FailAll, OpenFails,
                Crash, CrashTaking, NotifyAll
  <2>2. handles' = handles \cap entries'
    BY <1>a, <2>1 DEF HandleInv
  <2> QED
    BY <2>1, <2>2, RequestFrame
<1>5. CASE Boundaries
  <2>1. /\ UNCHANGED <<lastEvent, outcome, ledger, opened, handles, entries>>
        /\ loop # "settle" /\ loop' # "settle"
    BY <1>5 DEF Boundaries
  <2>2. \A b \in Attempts : state'[b] = state[b] \/ (Live(b) /\ state'[b] # "terminal")
    BY <1>0, <1>5 DEF Boundaries, AtBoundary
  <2>3. handles' = handles \cap entries'
    BY <1>a, <2>1 DEF HandleInv
  <2> QED
    BY <2>1, <2>2, <2>3, RequestFrame
<1>6. CASE StartDecode \/ StartPrefill
  <2>1. /\ UNCHANGED <<lastEvent, outcome, ledger, opened, handles, entries>>
        /\ loop # "settle" /\ loop' # "settle"
    BY <1>6, StartEffect
  <2>2. \A b \in Range(batch') : Live(b) /\ state'[b] # "terminal"
    BY <1>6, StartEffect DEF Range, Live, InFlight
  <2>3. \A b \in Attempts : state'[b] = state[b] \/ (Live(b) /\ state'[b] # "terminal")
    BY <1>6, <2>2, StartEffect
  <2>4. handles' = handles \cap entries'
    BY <1>a, <2>1 DEF HandleInv
  <2> QED
    BY <2>1, <2>3, <2>4, RequestFrame
<1>7. CASE OpenOne
  <2>1. CASE UNCHANGED <<state, lastEvent>>
    <3>1. /\ UNCHANGED <<outcome, ledger, opened, handles, entries>>
          /\ loop # "settle" /\ loop' # "settle"
      BY <1>7 DEF OpenOne
    <3>2. handles' = handles \cap entries'
      BY <1>a, <3>1 DEF HandleInv
    <3> QED
      BY <2>1, <3>1, <3>2, RequestFrame
  <2>2. CASE \E a \in entries :
               /\ Openable(a)
               /\ state'     = [state EXCEPT ![a] = "opening"]
               /\ lastEvent' = [lastEvent EXCEPT ![a] = "admitted"]
    <3>1. PICK a \in entries :
               /\ state[a] = "queued"
               /\ state'     = [state EXCEPT ![a] = "opening"]
               /\ lastEvent' = [lastEvent EXCEPT ![a] = "admitted"]
      BY <2>2 DEF Openable
    <3>2. /\ UNCHANGED <<outcome, ledger, opened, handles, entries>>
          /\ loop # "settle" /\ loop' # "settle"
      BY <1>7, <3>1 DEF OpenOne
    <3>3. lastEvent[a] # "terminal"
      BY <1>0, <1>a, <3>1, <3>2, NoEarlyEvent
    <3>4. /\ \A b \in Attempts : b # a => state'[b] = state[b] /\ lastEvent'[b] = lastEvent[b]
          /\ state'[a] = "opening" /\ lastEvent'[a] = "admitted"
      BY <1>0, <3>1
    <3>5. \A b \in Attempts : Live(b)' <=> Live(b)
      BY <3>1, <3>2, <3>4 DEF Live
    <3>6. SettleInv'
      BY <1>a, <3>2, <3>4 DEF SettleInv
    <3>7. HandleInv'
      BY <1>0, <1>a, <3>2, <3>3, <3>4, <3>5 DEF HandleInv
    <3>8. LedgerExact'
      BY <1>a, <3>1, <3>2, <3>3, <3>4, <3>5 DEF LedgerExact
    <3> QED
      BY <3>6, <3>7, <3>8 DEF RequestInv
  <2> QED
    BY <1>7, <2>1, <2>2 DEF OpenOne
<1>8. CASE OpenSucceeds
  <2> DEFINE a == batch[1]
  <2>1. a \in Attempts /\ state[a] = "opening" /\ loop = "opening"
    BY <1>8, Opening DEF OpenSucceeds
  <2>2. a \in entries /\ Live(a) /\ lastEvent[a] # "terminal"
    BY <1>0, <1>a, <2>1, NoEarlyEvent DEF EntriesInv, Live
  <2>3. /\ opened' = opened \cup {a} /\ handles' = handles \cup {a}
        /\ lastEvent' = [lastEvent EXCEPT ![a] = "opened"]
        /\ UNCHANGED <<outcome, ledger, entries>>
    BY <1>8 DEF OpenSucceeds
  <2>4. loop' # "settle" /\ \E x \in {"releasing", "prefill"} : state' = [state EXCEPT ![a] = x]
    BY <1>8, OpenCases DEF OpenedThenReleased, OpenedThenQueued
  <2> HIDE DEF a
  <2>5. /\ \A b \in Attempts : b # a => state'[b] = state[b] /\ lastEvent'[b] = lastEvent[b]
        /\ state'[a] # "terminal" /\ lastEvent'[a] = "opened"
    BY <1>0, <2>1, <2>3, <2>4
  <2>6. \A b \in Attempts : Live(b)' <=> Live(b)
    BY <2>1, <2>2, <2>3, <2>5 DEF Live
  <2>7. SettleInv'
    BY <1>a, <2>1, <2>4, <2>5 DEF SettleInv
  <2>8. HandleInv'
    BY <1>0, <1>a, <2>2, <2>3, <2>5, <2>6 DEF HandleInv
  <2>9. LedgerExact'
    BY <1>a, <2>2, <2>3, <2>5, <2>6 DEF LedgerExact
  <2> QED
    BY <2>7, <2>8, <2>9 DEF RequestInv
<1>9. CASE BatchFails \/ PrefillEnds \/ DecodeEnds
  <2>1. /\ UNCHANGED <<outcome, ledger, opened, handles, entries>>
        /\ loop # "settle" /\ loop' # "settle"
    BY <1>9, EndEffect
  <2>2. \A b \in Attempts :
          \/ state'[b] = state[b] /\ lastEvent'[b] = lastEvent[b]
          \/ /\ state[b] \in InFlight /\ state'[b] \in {"decode", "prefill", "releasing"}
             /\ lastEvent'[b] \in {lastEvent[b], "progress"}
    BY <1>9, EndEffect
  <2>3. \A b \in Attempts : state[b] \in InFlight => lastEvent[b] # "terminal"
    BY <1>a, <2>1, NoEarlyEvent DEF InFlight
  <2>4. \A b \in Attempts : Live(b)' <=> Live(b)
    BY <2>1, <2>2 DEF Live, InFlight
  <2>5. \A b \in Attempts : lastEvent'[b] = "terminal" <=> lastEvent[b] = "terminal"
    BY <2>2, <2>3
  <2>6. \A b \in Attempts : state'[b] = "terminal" <=> state[b] = "terminal"
    BY <2>2 DEF InFlight
  <2>7. SettleInv'
    BY <1>a, <2>1, <2>5, <2>6 DEF SettleInv
  <2>8. HandleInv'
    BY <1>0, <1>a, <2>1, <2>4, <2>5 DEF HandleInv
  <2>9. LedgerExact'
    BY <1>a, <2>1, <2>4, <2>5, <2>6 DEF LedgerExact
  <2> QED
    BY <2>7, <2>8, <2>9 DEF RequestInv
<1>10. CASE ReleaseEntry
  <2> DEFINE a == todo[1].entry
  <2>1. a \in Attempts /\ Head(todo) = todo[1] /\ state[a] # "new" /\ loop = "release" /\ 1 \in DOMAIN todo
    BY <1>10, Releasing DEF ReleaseEntry
  <2>2. UNCHANGED <<state, handles, outcome, entries>>
    BY <1>10 DEF ReleaseEntry
  <2>3. todo \in Seq([entry : Attempts, verdict : Verdicts])
    BY DEF TypeOK
  <2>4. CASE state[a] = "terminal"
    <3>1. /\ opened' \in {opened, opened \ {a}} /\ ledger' = ledger /\ loop' # "settle"
          /\ \/ lastEvent' = lastEvent /\ opened' = opened
             \/ lastEvent' = [lastEvent EXCEPT ![a] = "released"] /\ opened' = opened \ {a}
      BY <1>10, <2>1, <2>4 DEF ReleaseEntry
    <3> HIDE DEF a
    <3>2. \A b \in Attempts : Live(b)' <=> Live(b)
      BY <2>2 DEF Live
    <3>3. /\ \A b \in Attempts : b # a => lastEvent'[b] = lastEvent[b] /\ (b \in opened' <=> b \in opened)
          /\ \/ lastEvent'[a] = lastEvent[a] /\ opened' = opened
             \/ lastEvent'[a] = "released"
      BY <1>0, <2>1, <3>1
    <3>4. ~Live(a)
      BY <2>4 DEF Live
    <3>5. SettleInv'
      BY <1>a, <2>1, <2>2, <2>4, <3>1, <3>3 DEF SettleInv
    <3>6. HandleInv'
      BY <1>0, <1>a, <2>2, <3>2, <3>3, <3>4 DEF HandleInv
    <3>7. LedgerExact'
      BY <1>a, <2>2, <3>1, <3>2, <3>3, <3>4 DEF LedgerExact
    <3> QED
      BY <3>5, <3>6, <3>7 DEF RequestInv
  <2>5. CASE state[a] # "terminal"
    <3>1. Live(a) /\ lastEvent[a] # "terminal" /\ a \in ledger
      BY <1>a, <2>1, <2>5, NoEarlyEvent DEF EntriesInv, Live, LedgerExact
    <3>2. PICK ok \in BOOLEAN :
            /\ a \notin handles => ok
            /\ opened' = IF ok THEN opened \ {a} ELSE opened
            /\ ledger' = IF ok THEN ledger \ {a} ELSE ledger
            /\ lastEvent' = [lastEvent EXCEPT ![a] = "terminal"]
            /\ todo' = IF ok THEN todo
                       ELSE [todo EXCEPT ![1] = [entry |-> a, verdict |-> "release_failed"]]
            /\ loop' = "settle"
      BY <1>10, <2>1, <2>5 DEF ReleaseEntry
    <3>3. todo'[1].entry = a /\ (ok \/ todo'[1].verdict = "release_failed")
      BY <2>1, <2>3, <3>2, FailedRelease
    <3> HIDE DEF a
    <3>4. ~ok => a \in opened
      BY <1>a, <3>1, <3>2 DEF HandleInv
    <3>5. /\ \A b \in Attempts : b # a =>
               /\ lastEvent'[b] = lastEvent[b]
               /\ (b \in opened' <=> b \in opened) /\ (b \in ledger' <=> b \in ledger)
          /\ lastEvent'[a] = "terminal" /\ (a \in opened' <=> ~ok) /\ (a \in ledger' <=> ~ok)
      BY <1>0, <2>1, <3>1, <3>2, <3>4
    <3>6. \A b \in Attempts : Live(b)' <=> Live(b)
      BY <2>2 DEF Live
    <3>7. SettleInv'
      <4>1. Live(todo[1].entry)'
        BY <2>2, <3>1, <3>3 DEF Live
      <4>2. \A b \in Attempts : lastEvent'[b] = "terminal" => state'[b] = "terminal" \/ b = a
        BY <1>a, <2>1, <2>2, <3>5 DEF SettleInv
      <4> QED
        BY <3>2, <3>3, <3>5, <4>1, <4>2 DEF SettleInv
    <3>8. HandleInv'
      BY <1>0, <1>a, <2>2, <3>5, <3>6 DEF HandleInv
    <3>9. LedgerExact'
      <4>1. state'[a] # "terminal"
        BY <2>2, <3>1 DEF Live
      <4> QED
        BY <1>a, <2>2, <3>5, <3>6, <4>1 DEF LedgerExact
    <3> QED
      BY <3>7, <3>8, <3>9 DEF RequestInv
  <2> QED
    BY <2>4, <2>5
<1>11. CASE SettleEntry \/ CrashSettling
  <2> DEFINE a == todo[1].entry
  <2>1. a \in Attempts /\ Head(todo) = todo[1] /\ loop = "settle"
    BY <1>11, Releasing DEF SettleEntry, CrashSettling
  <2>2. /\ state' = [state EXCEPT ![a] = "terminal"]
        /\ outcome' = [outcome EXCEPT ![a] = todo[1].verdict]
        /\ loop' # "settle"
        /\ UNCHANGED <<lastEvent, handles, ledger, opened, entries>>
    BY <1>11, <2>1 DEF SettleEntry, CrashSettling, Settled
  <2>3. lastEvent[a] = "terminal" /\ (a \in opened => todo[1].verdict = "release_failed")
    BY <1>a, <2>1 DEF SettleInv
  <2>4. /\ \A b \in Attempts : b # a => state'[b] = state[b] /\ outcome'[b] = outcome[b]
        /\ state'[a] = "terminal" /\ outcome'[a] = todo[1].verdict
    BY <1>0, <2>1, <2>2
  <2>5. \A b \in Attempts : Live(b)' <=> Live(b) /\ b # a
    BY <2>2, <2>4 DEF Live
  <2>6. SettleInv'
    BY <1>a, <2>2, <2>4 DEF SettleInv
  <2>7. HandleInv'
    BY <1>0, <1>a, <2>2, <2>5 DEF HandleInv
  <2>8. LedgerExact'
    BY <1>a, <2>2, <2>3, <2>4, <2>5 DEF LedgerExact
  <2> QED
    BY <2>6, <2>7, <2>8 DEF RequestInv
<1>12. CASE UNCHANGED vars
  <2>1. /\ UNCHANGED <<lastEvent, outcome, ledger, opened, state, handles, entries, loop, todo>>
    BY <1>12 DEF vars
  <2>2. handles' = handles \cap entries'
    BY <1>a, <2>1 DEF HandleInv
  <2> QED
    BY <2>1, <2>2, RequestFrame
<1>13. CASE CrashOpening
  <2> DEFINE a == batch[1]
  <2>1. a \in Attempts /\ state[a] = "opening" /\ loop = "opening"
    BY <1>13, Opening DEF CrashOpening
  <2>2. a \in entries /\ Live(a) /\ lastEvent[a] # "terminal"
    BY <1>0, <1>a, <2>1, NoEarlyEvent DEF EntriesInv, Live
  <2>3. /\ opened' = opened \cup {a} /\ handles' = handles \cup {a} /\ loop' # "settle"
        /\ UNCHANGED <<state, lastEvent, outcome, ledger, entries>>
    BY <1>13 DEF CrashOpening
  <2> HIDE DEF a
  <2>4. \A b \in Attempts : Live(b)' <=> Live(b)
    BY <2>3 DEF Live
  <2>5. SettleInv'
    BY <1>a, <2>1, <2>3 DEF SettleInv
  <2>6. HandleInv'
    BY <1>0, <1>a, <2>2, <2>3, <2>4 DEF HandleInv
  <2>7. LedgerExact'
    BY <1>a, <2>2, <2>3, <2>4 DEF LedgerExact, Live
  <2> QED
    BY <2>5, <2>6, <2>7 DEF RequestInv
<1> QED
  BY <1>1, <1>2, <1>3, <1>4, <1>5, <1>6, <1>7, <1>8, <1>9, <1>10, <1>11, <1>12, <1>13
     DEF Next, ClientStep, SchedulerStep, Crashes

BaseInv == TypeOK /\ EntriesInv /\ LoopInv /\ RequestInv

\* The initial states.
LEMMA BaseInit ==
  ASSUME Init
  PROVE  BaseInv
<1>1. ListTypes
  BY DEF Init, ListTypes
<1>2. PlainTypes
  <2>1. state \in [Attempts -> States] /\ outcome \in [Attempts -> Verdicts]
    BY DEF Init, States, Verdicts
  <2>2. kv \in [Attempts -> Nat] /\ burst \in 0 .. MaxDecodeBurst
    BY Constants DEF Init
  <2>3. lastEvent \in [Attempts -> {"none", "admitted", "opened", "progress", "released",
                                    "terminal"}]
    BY DEF Init
  <2> QED
    BY <2>1, <2>2, <2>3 DEF Init, PlainTypes
<1>3. EntriesInv
  BY DEF Init, EntriesInv
<1>4. LoopInv
  BY DEF Init, LoopInv
<1>5. RequestInv
  BY DEF Init, RequestInv, SettleInv, HandleInv, LedgerExact, Live
<1> QED
  BY <1>1, <1>2, <1>3, <1>4, <1>5, TypeParts DEF BaseInv

\* Every step preserves the invariant.
LEMMA BaseStep ==
  ASSUME BaseInv, [Next]_vars
  PROVE  BaseInv'
<1>1. TypeOK /\ EntriesInv /\ LoopInv /\ RequestInv /\ SettleInv
  BY DEF BaseInv, RequestInv
<1> QED
  BY <1>1, TypeStep, EntriesStep, LoopStep, RequestStep DEF BaseInv

\* It holds in every reachable state.
LEMMA BaseInvariant == Spec => []BaseInv
BY BaseInit, BaseStep, PTL DEF Spec

\* The type invariant of the scheduler.
THEOREM SchedulerTypes == Spec => []TypeOK
<1>1. BaseInv => TypeOK
  BY DEF BaseInv
<1> QED
  BY <1>1, BaseInvariant, PTL

\* A request holds its reservation from its admission to its terminal event;
\* afterwards the ledger charges it exactly as long as its sequence is open in
\* the backend, and then its outcome says that the release failed.
THEOREM LedgerIsExact == Spec => []LedgerExact
<1>1. BaseInv => LedgerExact
  BY DEF BaseInv, RequestInv
<1> QED
  BY <1>1, BaseInvariant, PTL

-----------------------------------------------------------------------------
(***************************************************************************)
(* Nothing is forgotten.                                                   *)
(***************************************************************************)

\* What the loop has to do is in its deques, and it looks before it sleeps.
WakeInv ==
  /\ NoStrandedRequest /\ NeverSleepsOnWork
  /\ loop = "stop" => failing
  /\ ~failing => StoppedMeansSettled
  /\ stopped => loop = "done"

\* An entry that waits in a deque is found there.
LEMMA Waiting ==
  ASSUME NEW q, NEW st, NEW a \in entries, state[a] = st, IdOf[a] \in Range(q)
  PROVE  \E i \in Valid(q, st) : q[i] = IdOf[a]
BY DEF Range, Valid, EntryOf

\* Steps that take nobody from the deques.
LEMMA StrandedFrame ==
  ASSUME InDeques, entries' \subseteq entries,
         Range(queued) \subseteq Range(queued'), Range(prefill) \subseteq Range(prefill'),
         Range(decode) \subseteq Range(decode'),
         \A a \in entries : state'[a] = state[a] \/ state'[a] \notin {"queued", "prefill", "decode"}
  PROVE  InDeques'
BY DEF InDeques

\* The request taken from the queue is the one that is opened.
LEMMA StrandedOpen ==
  ASSUME TypeOK, EntriesInv, InDeques, OpenOne
  PROVE  InDeques'
<1>0. /\ state \in [Attempts -> States] /\ entries \subseteq Attempts
      /\ queued \in Seq(Range(IdOf)) /\ Valid(queued, "queued") \in SUBSET DOMAIN queued
  BY DEF TypeOK, Valid
<1>1. entries' = entries /\ prefill' = prefill /\ decode' = decode
  BY DEF OpenOne, clientVars
<1>2. CASE \E a \in entries :
             /\ state' = [state EXCEPT ![a] = "opening"]
             /\ \E i \in FirstOf({j \in Valid(queued, "queued") : queued[j] = IdOf[a]}) :
                  queued' \in Kept(queued, Valid(queued, "queued") \ {i})
  <2>1. PICK a \in entries, i \in Valid(queued, "queued") :
             /\ state' = [state EXCEPT ![a] = "opening"]
             /\ queued[i] = IdOf[a]
             /\ queued' \in Kept(queued, Valid(queued, "queued") \ {i})
    BY <1>2 DEF FirstOf
  <2>2. Range(queued') = {queued[j] : j \in Valid(queued, "queued") \ {i}}
    BY <1>0, <2>1, KeptElements
  <2>3. ASSUME NEW b \in entries, b # a, state[b] = "queued" PROVE IdOf[b] \in Range(queued')
    <3>1. IdOf[b] \in Range(queued) /\ IdOf[b] # IdOf[a]
      BY <2>3 DEF InDeques, EntriesInv
    <3>2. PICK j \in Valid(queued, "queued") : queued[j] = IdOf[b]
      BY <2>3, <3>1, Waiting
    <3> QED
      BY <2>1, <2>2, <3>1, <3>2
  <2>4. state'[a] = "opening" /\ \A b \in entries : b # a => state'[b] = state[b]
    BY <1>0, <2>1
  <2> QED
    BY <1>1, <2>3, <2>4 DEF InDeques
<1>3. CASE /\ state' = state
           /\ queued' \in Kept(queued, Valid(queued, "queued")) \/ queued' = queued
  <2>1. CASE queued' = queued
    BY <1>1, <1>3, <2>1 DEF InDeques
  <2>2. CASE queued' \in Kept(queued, Valid(queued, "queued"))
    <3>1. Range(queued') = {queued[j] : j \in Valid(queued, "queued")}
      BY <1>0, <2>2, KeptElements
    <3>2. ASSUME NEW b \in entries, state[b] = "queued" PROVE IdOf[b] \in Range(queued')
      <4>1. PICK j \in Valid(queued, "queued") : queued[j] = IdOf[b]
        BY <3>2, Waiting DEF InDeques
      <4> QED
        BY <3>1, <4>1
    <3> QED
      BY <1>1, <1>3, <3>2 DEF InDeques
  <2> QED
    BY <1>3, <2>1, <2>2
<1>4. \/ \E a \in entries :
           /\ state' = [state EXCEPT ![a] = "opening"]
           /\ \E i \in FirstOf({j \in Valid(queued, "queued") : queued[j] = IdOf[a]}) :
                queued' \in Kept(queued, Valid(queued, "queued") \ {i})
      \/ /\ state' = state
         /\ queued' \in Kept(queued, Valid(queued, "queued")) \/ queued' = queued
  BY DEF OpenOne
<1> QED
  BY <1>2, <1>3, <1>4

\* Those that stay in a deque when a batch is taken from it.
LEMMA StrandedTake ==
  ASSUME TypeOK, EntriesInv, NEW q \in Seq(Range(IdOf)), NEW st,
         NEW p \in Takes(q, st), NEW r \in Left(q, st, p),
         NEW a \in entries, state[a] = st, IdOf[a] \in Range(q), a \notin Range(Taken(q, p))
  PROVE  IdOf[a] \in Range(r)
<1>1. Valid(q, st) \ Range(p) \in SUBSET DOMAIN q
  BY DEF Valid
<1>2. Range(r) = {q[i] : i \in Valid(q, st) \ Range(p)}
  BY <1>1, KeptElements DEF Left
<1>3. PICK j \in Valid(q, st) : q[j] = IdOf[a]
  BY Waiting
<1>4. ASSUME NEW k \in DOMAIN p, p[k] = j PROVE FALSE
  <2>1. Taken(q, p)[k] = Entry(IdOf[a]) /\ k \in DOMAIN Taken(q, p)
    BY <1>3, <1>4 DEF Taken
  <2>2. Taken(q, p)[k] = a
    BY <2>1, Lookup
  <2> QED
    BY <2>1, <2>2 DEF Range
<1>5. j \notin Range(p)
  BY <1>4 DEF Range
<1> QED
  BY <1>2, <1>3, <1>5

\* Taking a batch leaves everyone else where it waits.
LEMMA StrandedStart ==
  ASSUME TypeOK, EntriesInv, InDeques, StartDecode \/ StartPrefill
  PROVE  InDeques'
<1>0. /\ prefill \in Seq(Range(IdOf)) /\ decode \in Seq(Range(IdOf)) /\ entries \subseteq Attempts
  BY DEF TypeOK
<1>1. CASE StartDecode
  <2>1. PICK p \in Takes(decode, "decode") :
          batch' = Taken(decode, p) /\ decode' \in Left(decode, "decode", p)
    BY <1>1 DEF StartDecode
  <2>2. /\ entries' = entries /\ queued' = queued /\ prefill' \in Pruned(prefill, "prefill")
        /\ \A a \in Attempts : state'[a] = IF a \in Range(batch') THEN "decode_inflight" ELSE state[a]
    BY <1>1 DEF StartDecode, clientVars
  <2>3. ASSUME NEW a \in entries, state'[a] = "decode" PROVE IdOf[a] \in Range(decode')
    <3>1. state[a] = "decode" /\ a \notin Range(Taken(decode, p))
      BY <1>0, <2>1, <2>2, <2>3
    <3> QED
      BY <1>0, <2>1, <3>1, StrandedTake DEF InDeques
  <2>4. ASSUME NEW a \in entries, state'[a] = "prefill" PROVE IdOf[a] \in Range(prefill')
    <3>1. state[a] = "prefill"
      BY <1>0, <2>2, <2>4
    <3>2. PICK j \in Valid(prefill, "prefill") : prefill[j] = IdOf[a]
      BY <3>1, Waiting DEF InDeques
    <3> QED
      BY <1>0, <2>2, <3>2, PrunedElements
  <2>5. ASSUME NEW a \in entries, state'[a] = "queued" PROVE IdOf[a] \in Range(queued')
    BY <1>0, <2>2, <2>5 DEF InDeques
  <2> QED
    BY <2>2, <2>3, <2>4, <2>5 DEF InDeques
<1>2. CASE StartPrefill
  <2>1. PICK p \in Takes(prefill, "prefill") :
          batch' = Taken(prefill, p) /\ prefill' \in Left(prefill, "prefill", p)
    BY <1>2 DEF StartPrefill
  <2>2. /\ entries' = entries /\ queued' = queued /\ decode' \in Pruned(decode, "decode")
        /\ \A a \in Attempts : state'[a] = IF a \in Range(batch') THEN "prefill_inflight" ELSE state[a]
    BY <1>2 DEF StartPrefill, clientVars
  <2>3. ASSUME NEW a \in entries, state'[a] = "prefill" PROVE IdOf[a] \in Range(prefill')
    <3>1. state[a] = "prefill" /\ a \notin Range(Taken(prefill, p))
      BY <1>0, <2>1, <2>2, <2>3
    <3> QED
      BY <1>0, <2>1, <3>1, StrandedTake DEF InDeques
  <2>4. ASSUME NEW a \in entries, state'[a] = "decode" PROVE IdOf[a] \in Range(decode')
    <3>1. state[a] = "decode"
      BY <1>0, <2>2, <2>4
    <3>2. PICK j \in Valid(decode, "decode") : decode[j] = IdOf[a]
      BY <3>1, Waiting DEF InDeques
    <3> QED
      BY <1>0, <2>2, <3>2, PrunedElements
  <2>5. ASSUME NEW a \in entries, state'[a] = "queued" PROVE IdOf[a] \in Range(queued')
    BY <1>0, <2>2, <2>5 DEF InDeques
  <2> QED
    BY <2>2, <2>3, <2>4, <2>5 DEF InDeques
<1> QED
  BY <1>1, <1>2

\* What is appended to a deque for the batch entries with a given outcome.
LEMMA Requeued ==
  ASSUME TypeOK, NEW q \in Seq(Range(IdOf)), NEW outs, NEW kind, NEW s \in With(outs, kind)
  PROVE  /\ Range(q \o Ids(s)) =
              Range(q) \cup {IdOf[batch[i]] : i \in {j \in DOMAIN batch : outs[j] = kind}}
         /\ q \o Ids(s) \in Seq(Range(IdOf))
<1>1. s \in Seq(Attempts) /\ Range(s) = {batch[i] : i \in {j \in DOMAIN batch : outs[j] = kind}}
  BY WithOutcome
<1>2. Ids(s) \in Seq(Range(IdOf)) /\ Range(Ids(s)) = {IdOf[s[k]] : k \in DOMAIN s}
  BY <1>1, IdsOf
<1>3. {IdOf[s[k]] : k \in DOMAIN s} = {IdOf[b] : b \in Range(s)}
  BY DEF Range
<1>4. {IdOf[b] : b \in Range(s)} = {IdOf[batch[i]] : i \in {j \in DOMAIN batch : outs[j] = kind}}
  BY <1>1
<1>5. Range(q \o Ids(s)) = Range(q) \cup Range(Ids(s)) /\ q \o Ids(s) \in Seq(Range(IdOf))
  BY <1>2, Concatenated
<1> QED
  BY <1>2, <1>3, <1>4, <1>5

\* A batch that ends puts back everyone it says waits again.
LEMMA StrandedEnd ==
  ASSUME TypeOK, InDeques, PrefillEnds \/ DecodeEnds
  PROVE  InDeques'
<1>0. prefill \in Seq(Range(IdOf)) /\ decode \in Seq(Range(IdOf)) /\ entries \subseteq Attempts
  BY DEF TypeOK
<1>1. CASE PrefillEnds
  <2>1. PICK outs \in [DOMAIN batch -> {"ready", "partial", "mismatch"}] :
          /\ \A a \in Attempts :
               \/ state'[a] = "decode" /\ \E i \in DOMAIN batch : batch[i] = a /\ outs[i] = "ready"
               \/ state'[a] = "prefill" /\ \E i \in DOMAIN batch : batch[i] = a /\ outs[i] = "partial"
               \/ state'[a] = "releasing"
               \/ state'[a] = state[a]
          /\ \E s \in With(outs, "ready")    : decode'  = decode \o Ids(s)
          /\ \E s \in With(outs, "partial")  : prefill' = prefill \o Ids(s)
    BY <1>1 DEF PrefillEnds
  <2>a. PICK s \in With(outs, "ready") : decode' = decode \o Ids(s)
    BY <2>1
  <2>b. PICK t \in With(outs, "partial") : prefill' = prefill \o Ids(t)
    BY <2>1
  <2>2. Range(decode') = Range(decode) \cup {IdOf[batch[i]] : i \in {j \in DOMAIN batch : outs[j] = "ready"}}
    BY <1>0, <2>a, Requeued
  <2>3. Range(prefill') = Range(prefill) \cup {IdOf[batch[i]] : i \in {j \in DOMAIN batch : outs[j] = "partial"}}
    BY <1>0, <2>b, Requeued
  <2>4. entries' = entries /\ queued' = queued
    BY <1>1 DEF PrefillEnds, clientVars
  <2>5. ASSUME NEW a \in entries, state'[a] = "decode" PROVE IdOf[a] \in Range(decode')
    BY <1>0, <2>1, <2>2, <2>5 DEF InDeques
  <2>6. ASSUME NEW a \in entries, state'[a] = "prefill" PROVE IdOf[a] \in Range(prefill')
    BY <1>0, <2>1, <2>3, <2>6 DEF InDeques
  <2>7. ASSUME NEW a \in entries, state'[a] = "queued" PROVE IdOf[a] \in Range(queued')
    BY <1>0, <2>1, <2>4, <2>7 DEF InDeques
  <2> QED
    BY <2>4, <2>5, <2>6, <2>7 DEF InDeques
<1>2. CASE DecodeEnds
  <2>1. PICK outs \in [DOMAIN batch -> {"progressed", "result", "backend_error"}] :
          /\ \A a \in Attempts :
               \/ state'[a] = "decode" /\ \E i \in DOMAIN batch : batch[i] = a /\ outs[i] = "progressed"
               \/ state'[a] = "releasing"
               \/ state'[a] = state[a]
          /\ \E s \in With(outs, "progressed") : decode' = decode \o Ids(s)
    BY <1>2 DEF DecodeEnds
  <2>a. PICK s \in With(outs, "progressed") : decode' = decode \o Ids(s)
    BY <2>1
  <2>2. Range(decode') = Range(decode) \cup {IdOf[batch[i]] : i \in {j \in DOMAIN batch : outs[j] = "progressed"}}
    BY <1>0, <2>a, Requeued
  <2>3. entries' = entries /\ queued' = queued /\ prefill' = prefill
    BY <1>2 DEF DecodeEnds, clientVars
  <2>4. ASSUME NEW a \in entries, state'[a] = "decode" PROVE IdOf[a] \in Range(decode')
    BY <1>0, <2>1, <2>2, <2>4 DEF InDeques
  <2>5. ASSUME NEW a \in entries, state'[a] \in {"prefill", "queued"} PROVE state'[a] = state[a]
    BY <1>0, <2>1, <2>5
  <2> QED
    BY <2>3, <2>4, <2>5 DEF InDeques
<1> QED
  BY <1>1, <1>2

\* Every step but a failure keeps waiting requests in their deques.
LEMMA DequesStep ==
  ASSUME BaseInv, InDeques, [Next]_vars, ~Crashes
  PROVE  InDeques'
<1> USE DEF clientVars, clockVars, entryVars, dequeVars, ledgerVars, loopVars
<1>0. /\ TypeOK /\ EntriesInv /\ LoopInv
      /\ state \in [Attempts -> States] /\ entries \subseteq Attempts
      /\ queued \in Seq(Range(IdOf)) /\ prefill \in Seq(Range(IdOf))
  BY DEF BaseInv, TypeOK
<1>1. ASSUME NEW a \in Attempts, Infer(a) PROVE InDeques'
  <2>1. IdOf[a] \in Range(IdOf)
    BY Constants
  <2>2. Range(queued') = Range(queued) \cup {IdOf[a]}
    BY <1>0, <1>1, <2>1, Appended DEF Infer
  <2>3. /\ entries' = entries \cup {a} /\ prefill' = prefill /\ decode' = decode
        /\ state'[a] = "queued" /\ \A b \in Attempts : b # a => state'[b] = state[b]
    BY <1>0, <1>1 DEF Infer
  <2> QED
    BY <1>0, <2>2, <2>3 DEF InDeques
<1>2. ASSUME NEW a \in Attempts, InferReturn(a) \/ Cancel(a) \/ DeadlinePasses(a) PROVE InDeques'
  <2>1. UNCHANGED <<state, queued, prefill, decode>> /\ entries' \subseteq entries
    BY <1>2 DEF InferReturn, Cancel, DeadlinePasses
  <2> QED
    BY <2>1 DEF InDeques
<1>3. CASE \/ Start \/ Shutdown \/ OpenFails \/ BatchFails \/ ReleaseEntry
           \/ Idle \/ WaitTimesOut \/ FailAll \/ Stop
  <2>1. UNCHANGED <<state, queued, prefill, decode, entries>>
    BY <1>3 DEF Start, Shutdown, OpenFails, BatchFails, ReleaseEntry, Idle,
                WaitTimesOut, FailAll, Stop
  <2> QED
    BY <2>1 DEF InDeques
<1>4. CASE Boundaries
  <2>1. /\ UNCHANGED <<queued, prefill, decode, entries>>
        /\ \A a \in Attempts : state'[a] = state[a] \/ state'[a] = "releasing"
    BY <1>0, <1>4 DEF Boundaries
  <2> QED
    BY <1>0, <2>1 DEF InDeques
<1>5. CASE OpenSucceeds
  <2>1. batch[1] \in Attempts /\ IdOf[batch[1]] \in Range(IdOf)
    BY <1>0, <1>5, Opening, Constants DEF OpenSucceeds
  <2>2. UNCHANGED <<queued, decode, entries>>
    BY <1>5 DEF OpenSucceeds
  <2>3. CASE OpenedThenReleased(batch[1])
    <3>1. prefill' = prefill /\ \A a \in Attempts : state'[a] = state[a] \/ state'[a] = "releasing"
      BY <1>0, <2>1, <2>3 DEF OpenedThenReleased
    <3> QED
      BY <1>0, <2>2, <3>1 DEF InDeques
  <2>4. CASE OpenedThenQueued(batch[1])
    <3>1. Range(prefill') = Range(prefill) \cup {IdOf[batch[1]]}
      BY <1>0, <2>1, <2>4, Appended DEF OpenedThenQueued
    <3>2. state'[batch[1]] = "prefill" /\ \A a \in Attempts : a # batch[1] => state'[a] = state[a]
      BY <1>0, <2>1, <2>4 DEF OpenedThenQueued
    <3> QED
      BY <1>0, <2>2, <3>1, <3>2 DEF InDeques
  <2> QED
    BY <1>5, <2>3, <2>4, OpenCases
<1>6. CASE NoBatch
  <2>1. /\ ~HasState(decode, "decode") /\ ~HasState(prefill, "prefill")
        /\ UNCHANGED <<state, queued, entries>>
    BY <1>6 DEF NoBatch, DecodeFirst
  <2>2. \A a \in entries : state[a] \notin {"prefill", "decode"}
    BY <2>1, Waiting DEF HasState, InDeques
  <2> QED
    BY <2>1, <2>2 DEF InDeques
<1>7. CASE SettleEntry
  <2>1. todo[1].entry \in Attempts /\ Head(todo) = todo[1]
    BY <1>0, <1>7, Releasing DEF SettleEntry
  <2>2. /\ UNCHANGED <<queued, prefill, decode, entries>>
        /\ \A a \in Attempts : state'[a] = state[a] \/ state'[a] = "terminal"
    BY <1>0, <1>7, <2>1 DEF SettleEntry, Settled
  <2> QED
    BY <1>0, <2>2 DEF InDeques
<1>8. CASE UNCHANGED vars
  BY <1>8 DEF vars, InDeques
<1> QED
  BY <1>0, <1>1, <1>2, <1>3, <1>4, <1>5, <1>6, <1>7, <1>8, StrandedOpen, StrandedStart, StrandedEnd
     DEF Next, ClientStep, SchedulerStep

\* A loop that failed does not recover.
LEMMA FailureStays ==
  ASSUME LoopInv, LoopFailed, [Next]_vars
  PROVE  LoopFailed'
<1> USE DEF clientVars, clockVars, entryVars, dequeVars, ledgerVars, loopVars
<1>1. ASSUME NEW a \in Attempts, ClientStep(a) PROVE LoopFailed'
  BY <1>1 DEF ClientStep, Infer, InferReturn, Cancel, DeadlinePasses, NotifyAll, LoopFailed
<1>2. CASE Start \/ Shutdown
  BY <1>2 DEF Start, Shutdown, NotifyAll, LoopFailed
<1>3. CASE Crashes
  BY <1>3, CrashEffect DEF LoopFailed
<1>4. CASE Boundaries \/ OpenOne \/ OpenFails \/ OpenSucceeds
  BY <1>4 DEF Boundaries, OpenOne, OpenFails, OpenSucceeds, LoopFailed
<1>5. CASE StartDecode \/ StartPrefill \/ NoBatch
  BY <1>5 DEF StartDecode, StartPrefill, NoBatch, LoopFailed
<1>6. CASE BatchFails \/ PrefillEnds \/ DecodeEnds
  BY <1>6 DEF BatchFails, PrefillEnds, DecodeEnds, LoopFailed
<1>7. CASE ReleaseEntry \/ SettleEntry
  BY <1>7 DEF ReleaseEntry, SettleEntry, LoopFailed
<1>8. CASE Idle \/ WaitTimesOut \/ FailAll \/ Stop
  BY <1>8 DEF Idle, WaitTimesOut, FailAll, Stop, LoopFailed
<1>9. CASE UNCHANGED vars
  BY <1>9 DEF vars, LoopFailed
<1> QED
  BY <1>1, <1>2, <1>3, <1>4, <1>5, <1>6, <1>7, <1>8, <1>9 DEF Next, SchedulerStep

\* Every step keeps waiting requests in their deques, until the loop fails.
LEMMA StrandedStep ==
  ASSUME BaseInv, NoStrandedRequest, [Next]_vars
  PROVE  NoStrandedRequest'
<1>1. LoopInv
  BY DEF BaseInv
<1>2. CASE LoopFailed
  BY <1>1, <1>2, FailureStays DEF NoStrandedRequest
<1>3. CASE Crashes
  BY <1>1, <1>3, CrashEffect DEF NoStrandedRequest, LoopFailed
<1>4. CASE InDeques /\ ~Crashes
  BY <1>4, DequesStep DEF NoStrandedRequest
<1> QED
  BY <1>2, <1>3, <1>4 DEF NoStrandedRequest

\* The loop sleeps after a look that found nothing to do, and every change it
\* has to see wakes it.
LEMMA SleepStep ==
  ASSUME BaseInv, NeverSleepsOnWork, [Next]_vars
  PROVE  NeverSleepsOnWork'
<1> USE DEF clientVars, clockVars, entryVars, dequeVars, ledgerVars, loopVars
<1> SUFFICES ASSUME loop' = "wait" PROVE NeverSleepsOnWork'
  BY DEF NeverSleepsOnWork
<1>1. ASSUME NEW a \in Attempts, InferReturn(a) \/ DeadlinePasses(a) PROVE NeverSleepsOnWork'
  <2>1. /\ UNCHANGED <<state, queued, ledger, kv, stopping, loop>>
        /\ entries' \subseteq entries /\ cancelRequested' \subseteq cancelRequested
    BY <1>1 DEF InferReturn, DeadlinePasses
  <2> QED
    BY <2>1 DEF NeverSleepsOnWork, Live, Openable
<1>2. CASE Idle
  <2>1. /\ ~ImmediateWork /\ ~(stopping /\ ~\E a \in entries : Live(a))
        /\ UNCHANGED <<entries, state, cancelRequested, queued, ledger, kv, stopping>>
    BY <1>2 DEF Idle
  <2>2. ~stopping
    BY <2>1 DEF ImmediateWork, AtBoundary
  <2>3. ~\E a \in entries : Live(a) /\ a \in cancelRequested
    BY <2>1 DEF ImmediateWork, AtBoundary
  <2>4. ~\E a \in entries : Openable(a)
    BY <2>1 DEF ImmediateWork
  <2> QED
    BY <2>1, <2>2, <2>3, <2>4 DEF NeverSleepsOnWork, Live, Openable
<1>3. CASE UNCHANGED vars
  BY <1>3 DEF vars, NeverSleepsOnWork, Live, Openable
<1>4. ASSUME NEW a \in Attempts, Infer(a) \/ Cancel(a) PROVE FALSE
  BY <1>4 DEF Infer, Cancel, NotifyAll
<1>5. ASSUME Start \/ Shutdown \/ Crashes PROVE FALSE
  <2>1. LoopInv
    BY DEF BaseInv
  <2> QED
    BY <1>5, <2>1, CrashEffect DEF Start, Shutdown, NotifyAll
<1>6. ASSUME SchedulerStep, ~Idle PROVE FALSE
  <2>1. CASE Boundaries \/ OpenOne \/ OpenFails \/ NoBatch
    BY <2>1 DEF Boundaries, OpenOne, OpenFails, NoBatch
  <2>2. CASE OpenSucceeds
    BY <2>2, OpenCases DEF OpenedThenReleased, OpenedThenQueued
  <2>3. CASE StartDecode \/ StartPrefill
    BY <2>3 DEF StartDecode, StartPrefill
  <2>4. CASE BatchFails \/ PrefillEnds \/ DecodeEnds
    BY <2>4 DEF BatchFails, PrefillEnds, DecodeEnds, AfterBatch
  <2>5. CASE ReleaseEntry \/ SettleEntry
    BY <2>5 DEF ReleaseEntry, SettleEntry
  <2>6. CASE WaitTimesOut \/ FailAll \/ Stop
    BY <2>6 DEF WaitTimesOut, FailAll, Stop
  <2> QED
    BY <1>6, <2>1, <2>2, <2>3, <2>4, <2>5, <2>6 DEF SchedulerStep
<1> QED
  BY <1>1, <1>2, <1>3, <1>4, <1>5, <1>6 DEF Next, ClientStep

\* What the loop does not forget, as an invariant.
LEMMA WakeStep ==
  ASSUME BaseInv, WakeInv, [Next]_vars
  PROVE  WakeInv'
<1> USE DEF clientVars, clockVars, entryVars, dequeVars, ledgerVars, loopVars
<1>0. /\ TypeOK /\ EntriesInv /\ LoopInv /\ SettleInv /\ entries \subseteq Attempts
      /\ stopped \in BOOLEAN /\ failing \in BOOLEAN
  BY DEF BaseInv, RequestInv, TypeOK
<1>1. NoStrandedRequest' /\ NeverSleepsOnWork'
  BY StrandedStep, SleepStep DEF WakeInv
<1> DEFINE EndInv == /\ loop = "stop" => failing
                     /\ ~failing => StoppedMeansSettled
                     /\ stopped => loop = "done"
<1>2. EndInv
  BY DEF WakeInv
<1>3. SUFFICES EndInv'
  BY <1>1, <1>3 DEF WakeInv
<1>4. ASSUME NEW a \in Attempts, Infer(a) PROVE EndInv'
  BY <1>2, <1>4 DEF Infer, NotifyAll, StoppedMeansSettled
<1>5. ASSUME NEW a \in Attempts, InferReturn(a) \/ Cancel(a) \/ DeadlinePasses(a) PROVE EndInv'
  BY <1>2, <1>5 DEF InferReturn, Cancel, DeadlinePasses, NotifyAll, StoppedMeansSettled
<1>6. CASE Start \/ Shutdown
  BY <1>2, <1>6 DEF Start, Shutdown, NotifyAll, StoppedMeansSettled
<1>7. CASE Idle
  BY <1>2, <1>7 DEF Idle, StoppedMeansSettled, Live
<1>8. CASE Stop
  BY <1>2, <1>8 DEF Stop
<1>9. CASE FailAll
  BY <1>2, <1>9 DEF FailAll
<1>10. CASE ReleaseEntry \/ SettleEntry
  <2>1. ~stopped /\ UNCHANGED <<stopped, failing>> /\ (loop' = "stop" => failing)
    BY <1>0, <1>2, <1>10 DEF ReleaseEntry, SettleEntry
  <2> QED
    BY <2>1 DEF StoppedMeansSettled
<1>11. CASE \/ Boundaries \/ OpenOne \/ OpenFails \/ OpenSucceeds \/ StartDecode \/ StartPrefill
            \/ NoBatch \/ BatchFails \/ PrefillEnds \/ DecodeEnds \/ WaitTimesOut
  <2>1. loop # "done" /\ UNCHANGED <<stopped, failing>>
    BY <1>11 DEF Boundaries, OpenOne, OpenFails, OpenSucceeds, StartDecode, StartPrefill,
                 NoBatch, BatchFails, PrefillEnds, DecodeEnds, WaitTimesOut
  <2>2. loop' # "stop"
    <3>1. CASE Boundaries \/ OpenOne \/ OpenFails \/ NoBatch \/ WaitTimesOut
      BY <3>1 DEF Boundaries, OpenOne, OpenFails, NoBatch, WaitTimesOut
    <3>2. CASE OpenSucceeds
      BY <3>2, OpenCases DEF OpenedThenReleased, OpenedThenQueued
    <3>3. CASE StartDecode \/ StartPrefill
      BY <3>3 DEF StartDecode, StartPrefill
    <3>4. CASE BatchFails \/ PrefillEnds \/ DecodeEnds
      BY <3>4 DEF BatchFails, PrefillEnds, DecodeEnds, AfterBatch
    <3> QED
      BY <1>11, <3>1, <3>2, <3>3, <3>4
  <2> QED
    BY <1>2, <2>1, <2>2 DEF StoppedMeansSettled
<1>12. CASE UNCHANGED vars
  BY <1>2, <1>12 DEF vars, StoppedMeansSettled
<1>13. CASE Crashes
  <2>1. loop # "done" /\ loop' # "stop" /\ UNCHANGED <<stopped, failing>>
    BY <1>0, <1>13, CrashEffect
  <2> QED
    BY <1>2, <2>1 DEF StoppedMeansSettled
<1> QED
  BY <1>4, <1>5, <1>6, <1>7, <1>8, <1>9, <1>10, <1>11, <1>12, <1>13 DEF Next, ClientStep, SchedulerStep

-----------------------------------------------------------------------------
(***************************************************************************)
(* Requests with an id of their own.                                       *)
(***************************************************************************)

\* No request id is used a second time.
OneUse == \A a, b \in Attempts : IdOf[a] = IdOf[b] => a = b

\* A deque and a batch hold a request once, and not while it is elsewhere.
QueueInv ==
  /\ IsInjective(batch) /\ IsInjective(prefill) /\ IsInjective(decode)
  /\ loop = "prefill_run" => \A i \in DOMAIN batch : state[batch[i]] = "prefill_inflight"
  /\ loop = "decode_run" => \A i \in DOMAIN batch : state[batch[i]] = "decode_inflight"
  /\ \A a \in Attempts :
       /\ IdOf[a] \in Range(prefill) =>
            state[a] \notin {"new", "queued", "opening", "prefill_inflight"}
       /\ IdOf[a] \in Range(decode) =>
            state[a] \notin {"new", "queued", "opening", "prefill", "prefill_inflight",
                             "decode_inflight"}

\* A request is released once.
TodoInv ==
  /\ \A i, j \in DOMAIN todo : todo[i].entry = todo[j].entry => i = j
  /\ \A i \in DOMAIN todo : Live(todo[i].entry)

\* What is appended to a deque is appended once.
LEMMA RequeuedOnce ==
  ASSUME TypeOK, OneUse, IsInjective(batch), NEW outs, NEW kind, NEW s \in With(outs, kind),
         NEW q \in Seq(Range(IdOf)), IsInjective(q),
         \A i \in DOMAIN batch : IdOf[batch[i]] \notin Range(q)
  PROVE  IsInjective(q \o Ids(s))
<1>1. /\ s \in Seq(Attempts) /\ IsInjective(s)
      /\ Range(s) = {batch[i] : i \in {j \in DOMAIN batch : outs[j] = kind}}
  BY WithOutcome
<1>2. /\ Ids(s) \in Seq(Range(IdOf)) /\ DOMAIN Ids(s) = DOMAIN s
      /\ \A k \in DOMAIN s : Ids(s)[k] = IdOf[s[k]]
      /\ Range(Ids(s)) = {IdOf[s[k]] : k \in DOMAIN s}
  BY <1>1, IdsOf
<1>3. \A k \in DOMAIN s : s[k] \in Attempts
  BY <1>1
<1>4. IsInjective(Ids(s))
  BY <1>1, <1>2, <1>3 DEF IsInjective, OneUse
<1>5. Range(q) \cap Range(Ids(s)) = {}
  <2>1. \A b \in Range(s) : IdOf[b] \notin Range(q)
    BY <1>1
  <2>2. \A k \in DOMAIN s : s[k] \in Range(s)
    BY DEF Range
  <2> QED
    BY <1>2, <2>1, <2>2
<1> QED
  BY <1>2, <1>4, <1>5, Concatenated

\* A batch leaves its deque for good.
LEMMA TakenAway ==
  ASSUME TypeOK, EntriesInv, NEW q \in Seq(Range(IdOf)), IsInjective(q), NEW st,
         NEW p \in Takes(q, st), NEW r \in Left(q, st, p)
  PROVE  /\ IsInjective(r) /\ Range(r) \subseteq Range(q)
         /\ IsInjective(Taken(q, p))
         /\ \A k \in DOMAIN Taken(q, p) : IdOf[Taken(q, p)[k]] \notin Range(r)
<1>0. entries \subseteq Attempts
  BY DEF TypeOK
<1>1. Valid(q, st) \ Range(p) \in SUBSET DOMAIN q /\ Valid(q, st) \subseteq DOMAIN q
  BY DEF Valid
<1>2. Range(r) = {q[i] : i \in Valid(q, st) \ Range(p)} /\ IsInjective(r)
  BY <1>1, KeptElements DEF Left
<1>3. Range(r) \subseteq Range(q)
  <2>1. {q[i] : i \in Valid(q, st) \ Range(p)} \subseteq Range(q)
    BY <1>1 DEF Range
  <2> QED
    BY <1>2, <2>1
<1>4. /\ IsInjective(Taken(q, p)) /\ DOMAIN Taken(q, p) = DOMAIN p
      /\ Range(p) \subseteq Valid(q, st)
      /\ \A k \in DOMAIN p : IdOf[Taken(q, p)[k]] = q[p[k]]
  BY <1>0, TakenEntries, Constants
<1>5. ASSUME NEW k \in DOMAIN p, NEW i \in Valid(q, st) \ Range(p), q[p[k]] = q[i] PROVE FALSE
  <2>1. p[k] \in Range(p)
    BY DEF Range
  <2>2. p[k] \in DOMAIN q /\ i \in DOMAIN q
    BY <1>1, <1>4, <2>1
  <2>3. p[k] = i
    BY <1>5, <2>2 DEF IsInjective
  <2> QED
    BY <2>1, <2>3
<1>6. \A k \in DOMAIN Taken(q, p) : IdOf[Taken(q, p)[k]] \notin Range(r)
  BY <1>2, <1>4, <1>5
<1> QED
  BY <1>2, <1>3, <1>4, <1>6

\* A batch that starts is drawn from its deque without repetition.
LEMMA QueueStart ==
  ASSUME OneUse, TypeOK, EntriesInv, QueueInv, StartDecode \/ StartPrefill
  PROVE  QueueInv'
<1>0. /\ prefill \in Seq(Range(IdOf)) /\ decode \in Seq(Range(IdOf)) /\ entries \subseteq Attempts
      /\ IsInjective(prefill) /\ IsInjective(decode)
  BY DEF TypeOK, QueueInv
<1>1. CASE StartDecode
  <2>1. PICK p \in Takes(decode, "decode") :
          batch' = Taken(decode, p) /\ decode' \in Left(decode, "decode", p)
    BY <1>1 DEF StartDecode
  <2>2. /\ loop' = "decode_run" /\ prefill' \in Pruned(prefill, "prefill")
        /\ \A a \in Attempts : state'[a] = IF a \in Range(batch') THEN "decode_inflight" ELSE state[a]
    BY <1>1 DEF StartDecode
  <2>3. /\ IsInjective(decode') /\ Range(decode') \subseteq Range(decode) /\ IsInjective(batch')
        /\ \A k \in DOMAIN batch' : IdOf[batch'[k]] \notin Range(decode')
    BY <1>0, <2>1, TakenAway
  <2>4. IsInjective(prefill') /\ Range(prefill') \subseteq Range(prefill)
    BY <1>0, <2>2, PrunedElements
  <2>5. \A i \in DOMAIN batch' : batch'[i] \in Attempts /\ batch'[i] \in Range(batch')
    BY <1>0, <1>1, StartEffect DEF Range
  <2>6. \A i \in DOMAIN batch' : state'[batch'[i]] = "decode_inflight"
    BY <2>2, <2>5
  <2>7. \A a \in Range(batch') : IdOf[a] \notin Range(decode')
    BY <2>3 DEF Range
  <2>8. ASSUME NEW a \in Attempts, IdOf[a] \in Range(prefill')
        PROVE  state'[a] \notin {"new", "queued", "opening", "prefill_inflight"}
    <3>1. state[a] \notin {"new", "queued", "opening", "prefill_inflight"}
      BY <2>4, <2>8 DEF QueueInv
    <3> QED
      BY <2>2, <3>1
  <2>9. ASSUME NEW a \in Attempts, IdOf[a] \in Range(decode')
        PROVE  state'[a] \notin {"new", "queued", "opening", "prefill", "prefill_inflight",
                                 "decode_inflight"}
    <3>1. state[a] \notin {"new", "queued", "opening", "prefill", "prefill_inflight",
                           "decode_inflight"} /\ a \notin Range(batch')
      BY <2>3, <2>7, <2>9 DEF QueueInv
    <3> QED
      BY <2>2, <3>1
  <2> QED
    BY <2>2, <2>3, <2>4, <2>6, <2>8, <2>9 DEF QueueInv
<1>2. CASE StartPrefill
  <2>1. PICK p \in Takes(prefill, "prefill") :
          batch' = Taken(prefill, p) /\ prefill' \in Left(prefill, "prefill", p)
    BY <1>2 DEF StartPrefill
  <2>2. /\ loop' = "prefill_run" /\ decode' \in Pruned(decode, "decode")
        /\ \A a \in Attempts : state'[a] = IF a \in Range(batch') THEN "prefill_inflight" ELSE state[a]
    BY <1>2 DEF StartPrefill
  <2>3. /\ IsInjective(prefill') /\ Range(prefill') \subseteq Range(prefill) /\ IsInjective(batch')
        /\ \A k \in DOMAIN batch' : IdOf[batch'[k]] \notin Range(prefill')
    BY <1>0, <2>1, TakenAway
  <2>4. IsInjective(decode') /\ Range(decode') \subseteq Range(decode)
    BY <1>0, <2>2, PrunedElements
  <2>5. \A i \in DOMAIN batch' : batch'[i] \in Attempts /\ batch'[i] \in Range(batch')
    BY <1>0, <1>2, StartEffect DEF Range
  <2>6. \A i \in DOMAIN batch' : state'[batch'[i]] = "prefill_inflight" /\ state[batch'[i]] = "prefill"
    <3>1. \A k \in DOMAIN batch' : state[batch'[k]] = "prefill"
      BY <1>0, <2>1, TakenEntries, Constants
    <3> QED
      BY <2>2, <2>5, <3>1
  <2>7. \A a \in Range(batch') : IdOf[a] \notin Range(prefill') /\ state[a] = "prefill"
    BY <2>3, <2>6 DEF Range
  <2>8. ASSUME NEW a \in Attempts, IdOf[a] \in Range(prefill')
        PROVE  state'[a] \notin {"new", "queued", "opening", "prefill_inflight"}
    <3>1. state[a] \notin {"new", "queued", "opening", "prefill_inflight"} /\ a \notin Range(batch')
      BY <2>3, <2>7, <2>8 DEF QueueInv
    <3> QED
      BY <2>2, <3>1
  <2>9. ASSUME NEW a \in Attempts, IdOf[a] \in Range(decode')
        PROVE  state'[a] \notin {"new", "queued", "opening", "prefill", "prefill_inflight",
                                 "decode_inflight"}
    <3>1. state[a] \notin {"new", "queued", "opening", "prefill", "prefill_inflight",
                           "decode_inflight"} /\ a \notin Range(batch')
      BY <2>4, <2>7, <2>9 DEF QueueInv
    <3> QED
      BY <2>2, <3>1
  <2> QED
    BY <2>2, <2>3, <2>4, <2>6, <2>8, <2>9 DEF QueueInv
<1> QED
  BY <1>1, <1>2

\* A batch that ends goes back to the deques without repetition.
LEMMA QueueEnd ==
  ASSUME OneUse, TypeOK, LoopInv, QueueInv, PrefillEnds \/ DecodeEnds
  PROVE  QueueInv'
<1>0. /\ prefill \in Seq(Range(IdOf)) /\ decode \in Seq(Range(IdOf)) /\ batch \in Seq(Attempts)
      /\ IsInjective(prefill) /\ IsInjective(decode) /\ IsInjective(batch)
  BY DEF TypeOK, QueueInv
<1>a. \A i \in DOMAIN batch : batch[i] \in Attempts
  BY <1>0
<1>b. IsInjective(batch') /\ loop' \notin {"prefill_run", "decode_run"}
  BY DEF PrefillEnds, DecodeEnds, AfterBatch, IsInjective
<1>1. CASE PrefillEnds
  <2>1. PICK outs \in [DOMAIN batch -> {"ready", "partial", "mismatch"}] :
          /\ \A a \in Attempts :
               \/ state'[a] = "decode" /\ \E i \in DOMAIN batch : batch[i] = a /\ outs[i] = "ready"
               \/ state'[a] = "prefill" /\ \E i \in DOMAIN batch : batch[i] = a /\ outs[i] = "partial"
               \/ state'[a] = "releasing"
               \/ state'[a] = state[a] /\ ~\E i \in DOMAIN batch : batch[i] = a
          /\ \E s \in With(outs, "ready")    : decode'  = decode \o Ids(s)
          /\ \E s \in With(outs, "partial")  : prefill' = prefill \o Ids(s)
    BY <1>1, ZenonT(60) DEF PrefillEnds
  <2>2. PICK s \in With(outs, "ready") : decode' = decode \o Ids(s)
    BY <2>1
  <2>3. PICK t \in With(outs, "partial") : prefill' = prefill \o Ids(t)
    BY <2>1
  <2>4. \A i \in DOMAIN batch :
          /\ state[batch[i]] = "prefill_inflight"
          /\ IdOf[batch[i]] \notin Range(prefill) /\ IdOf[batch[i]] \notin Range(decode)
    BY <1>1, <1>a DEF QueueInv, PrefillEnds
  <2>5. IsInjective(decode') /\ IsInjective(prefill')
    BY <1>0, <2>2, <2>3, <2>4, RequeuedOnce
  <2>6. Range(decode') = Range(decode) \cup {IdOf[batch[i]] : i \in {j \in DOMAIN batch : outs[j] = "ready"}}
    BY <1>0, <2>2, Requeued
  <2>7. Range(prefill') = Range(prefill) \cup {IdOf[batch[i]] : i \in {j \in DOMAIN batch : outs[j] = "partial"}}
    BY <1>0, <2>3, Requeued
  <2>8. \A i, j \in DOMAIN batch : IdOf[batch[i]] = IdOf[batch[j]] => i = j
    BY <1>0, <1>a DEF OneUse, IsInjective
  <2>9. ASSUME NEW a \in Attempts, IdOf[a] \in Range(prefill')
        PROVE  state'[a] \notin {"new", "queued", "opening", "prefill_inflight"}
    <3>1. CASE IdOf[a] \in Range(prefill)
      <4>1. state[a] \notin {"new", "queued", "opening", "prefill_inflight"}
        BY <3>1 DEF QueueInv
      <4> QED
        BY <2>1, <4>1
    <3>2. CASE \E i \in DOMAIN batch : IdOf[a] = IdOf[batch[i]]
      <4>1. \E i \in DOMAIN batch : batch[i] = a
        BY <1>a, <3>2 DEF OneUse
      <4> QED
        BY <2>1, <4>1
    <3> QED
      BY <2>7, <2>9, <3>1, <3>2
  <2>10. ASSUME NEW a \in Attempts, IdOf[a] \in Range(decode')
         PROVE  state'[a] \notin {"new", "queued", "opening", "prefill", "prefill_inflight",
                                  "decode_inflight"}
    <3>1. CASE IdOf[a] \in Range(decode)
      <4>1. state[a] \notin {"new", "queued", "opening", "prefill", "prefill_inflight",
                             "decode_inflight"}
        BY <3>1 DEF QueueInv
      <4>2. ~\E i \in DOMAIN batch : batch[i] = a
        BY <2>4, <3>1
      <4> QED
        BY <2>1, <4>1, <4>2
    <3>2. CASE \E i \in DOMAIN batch : outs[i] = "ready" /\ IdOf[a] = IdOf[batch[i]]
      <4>1. PICK i \in DOMAIN batch : outs[i] = "ready" /\ batch[i] = a
        BY <1>a, <3>2 DEF OneUse
      <4>2. \A j \in DOMAIN batch : batch[j] = a => outs[j] = "ready"
        BY <2>8, <4>1
      <4> QED
        BY <2>1, <4>1, <4>2
    <3> QED
      BY <2>6, <2>10, <3>1, <3>2
  <2> QED
    BY <1>b, <2>5, <2>9, <2>10 DEF QueueInv
<1>2. CASE DecodeEnds
  <2>1. PICK outs \in [DOMAIN batch -> {"progressed", "result", "backend_error"}] :
          /\ \A a \in Attempts :
               \/ state'[a] = "decode" /\ \E i \in DOMAIN batch : batch[i] = a /\ outs[i] = "progressed"
               \/ state'[a] = "releasing"
               \/ state'[a] = state[a] /\ ~\E i \in DOMAIN batch : batch[i] = a
          /\ \E s \in With(outs, "progressed") : decode' = decode \o Ids(s)
    BY <1>2, ZenonT(60) DEF DecodeEnds, Range
  <2>2. PICK s \in With(outs, "progressed") : decode' = decode \o Ids(s)
    BY <2>1
  <2>3. prefill' = prefill
    BY <1>2 DEF DecodeEnds
  <2>4. \A i \in DOMAIN batch : IdOf[batch[i]] \notin Range(decode)
    BY <1>2, <1>a DEF QueueInv, DecodeEnds
  <2>5. IsInjective(decode')
    BY <1>0, <2>2, <2>4, RequeuedOnce
  <2>6. Range(decode') = Range(decode) \cup {IdOf[batch[i]] : i \in {j \in DOMAIN batch : outs[j] = "progressed"}}
    BY <1>0, <2>2, Requeued
  <2>7. ASSUME NEW a \in Attempts, IdOf[a] \in Range(prefill')
        PROVE  state'[a] \notin {"new", "queued", "opening", "prefill_inflight"}
    <3>1. state[a] \notin {"new", "queued", "opening", "prefill_inflight"}
      BY <2>3, <2>7 DEF QueueInv
    <3> QED
      BY <2>1, <3>1
  <2>8. ASSUME NEW a \in Attempts, IdOf[a] \in Range(decode')
        PROVE  state'[a] \notin {"new", "queued", "opening", "prefill", "prefill_inflight",
                                 "decode_inflight"}
    <3>1. CASE IdOf[a] \in Range(decode)
      <4>1. state[a] \notin {"new", "queued", "opening", "prefill", "prefill_inflight",
                             "decode_inflight"}
        BY <3>1 DEF QueueInv
      <4> QED
        BY <2>1, <4>1
    <3>2. CASE \E i \in DOMAIN batch : IdOf[a] = IdOf[batch[i]]
      <4>1. \E i \in DOMAIN batch : batch[i] = a
        BY <1>a, <3>2 DEF OneUse
      <4> QED
        BY <2>1, <4>1
    <3> QED
      BY <2>6, <2>8, <3>1, <3>2
  <2> QED
    BY <1>0, <1>b, <2>3, <2>5, <2>7, <2>8 DEF QueueInv
<1> QED
  BY <1>1, <1>2

\* Steps outside the batches: nobody is put where its deque forbids it.
LEMMA QueueFrame ==
  ASSUME QueueInv, IsInjective(batch'), prefill' = prefill, decode' = decode,
         \A a \in Attempts :
           \/ state'[a] = state[a]
           \/ state'[a] \in {"releasing", "terminal"}
           \/ state[a] \in {"new", "queued"} /\ state'[a] \in {"queued", "opening"},
         \/ loop' \notin {"prefill_run", "decode_run"}
         \/ /\ loop' = loop /\ batch' = batch
            /\ \A a \in Attempts : state[a] \in InFlight => state'[a] = state[a]
            /\ batch \in Seq(Attempts)
  PROVE  QueueInv'
<1>1. \A a \in Attempts : IdOf[a] \in Range(prefill') =>
        state'[a] \notin {"new", "queued", "opening", "prefill_inflight"}
  BY DEF QueueInv
<1>2. \A a \in Attempts : IdOf[a] \in Range(decode') =>
        state'[a] \notin {"new", "queued", "opening", "prefill", "prefill_inflight", "decode_inflight"}
  BY DEF QueueInv
<1>3. /\ loop' = "prefill_run" => \A i \in DOMAIN batch' : state'[batch'[i]] = "prefill_inflight"
      /\ loop' = "decode_run" => \A i \in DOMAIN batch' : state'[batch'[i]] = "decode_inflight"
  <2> SUFFICES ASSUME loop' \in {"prefill_run", "decode_run"}
               PROVE  /\ loop' = "prefill_run" => \A i \in DOMAIN batch' : state'[batch'[i]] = "prefill_inflight"
                      /\ loop' = "decode_run" => \A i \in DOMAIN batch' : state'[batch'[i]] = "decode_inflight"
    OBVIOUS
  <2>1. \A i \in DOMAIN batch : batch[i] \in Attempts
    OBVIOUS
  <2> QED
    BY <2>1 DEF QueueInv, InFlight
<1> QED
  BY <1>1, <1>2, <1>3 DEF QueueInv

\* A deque and a batch hold a request once.
LEMMA QueueStep ==
  ASSUME OneUse, BaseInv, QueueInv, [Next]_vars
  PROVE  QueueInv'
<1> USE DEF clientVars, clockVars, entryVars, dequeVars, ledgerVars, loopVars
<1>0. /\ TypeOK /\ EntriesInv /\ LoopInv /\ SettleInv
      /\ state \in [Attempts -> States] /\ entries \subseteq Attempts /\ batch \in Seq(Attempts)
      /\ prefill \in Seq(Range(IdOf))
  BY DEF BaseInv, RequestInv, TypeOK
<1>a. IsInjective(<<>>) /\ \A x : IsInjective(<<x>>)
  BY DEF IsInjective
<1>b. IsInjective(batch) /\ IsInjective(prefill)
  BY DEF QueueInv
<1>1. ASSUME NEW a \in Attempts, Infer(a) PROVE QueueInv'
  <2>1. batch' = batch /\ prefill' = prefill /\ decode' = decode
    BY <1>1 DEF Infer, NotifyAll
  <2>2. \A b \in Attempts : state'[b] = state[b] \/ (state[b] = "new" /\ state'[b] = "queued")
    BY <1>0, <1>1 DEF Infer
  <2>3. loop' = loop \/ loop' = "boundaries"
    BY <1>1 DEF Infer, NotifyAll
  <2> QED
    BY <1>0, <1>b, <2>1, <2>2, <2>3, QueueFrame DEF InFlight
<1>2. ASSUME NEW a \in Attempts, InferReturn(a) \/ Cancel(a) \/ DeadlinePasses(a) PROVE QueueInv'
  <2>1. UNCHANGED <<batch, prefill, decode, state>> /\ (loop' = loop \/ loop' = "boundaries")
    BY <1>2 DEF InferReturn, Cancel, DeadlinePasses, NotifyAll
  <2> QED
    BY <1>0, <1>b, <2>1, QueueFrame
<1>3. CASE Start \/ Shutdown \/ Idle \/ WaitTimesOut \/ FailAll \/ Stop
  <2>1. /\ UNCHANGED <<batch, prefill, decode, state>>
        /\ loop' = loop \/ loop' \notin {"prefill_run", "decode_run"}
    BY <1>3 DEF Start, Shutdown, Idle, WaitTimesOut, FailAll, Stop, NotifyAll
  <2> QED
    BY <1>0, <1>b, <2>1, QueueFrame
<1>4. CASE Crash \/ CrashOpening \/ OpenFails \/ BatchFails
  <2>1. batch' = <<>> /\ UNCHANGED <<prefill, decode, state>> /\ loop' \notin {"prefill_run", "decode_run"}
    BY <1>4 DEF Crash, CrashOpening, OpenFails, BatchFails
  <2> QED
    BY <1>a, <2>1, QueueFrame
<1>5. CASE Boundaries
  <2>1. UNCHANGED <<batch, prefill, decode>> /\ loop' \notin {"prefill_run", "decode_run"}
    BY <1>5 DEF Boundaries
  <2>2. \A b \in Attempts : state'[b] = state[b] \/ state'[b] = "releasing"
    BY <1>0, <1>5 DEF Boundaries
  <2> QED
    BY <1>b, <2>1, <2>2, QueueFrame
<1>6. CASE OpenOne
  <2>1. UNCHANGED <<prefill, decode>> /\ loop' \notin {"prefill_run", "decode_run"}
    BY <1>6 DEF OpenOne
  <2>2. \A b \in Attempts : state'[b] = state[b] \/ (state[b] = "queued" /\ state'[b] = "opening")
    BY <1>0, <1>6 DEF OpenOne, Openable
  <2>3. batch' = batch \/ \E x \in entries : batch' = <<x>>
    BY <1>6 DEF OpenOne
  <2>4. IsInjective(batch')
    BY <1>a, <1>b, <2>3
  <2> QED
    BY <2>1, <2>2, <2>4, QueueFrame
<1>7. CASE OpenSucceeds
  <2>1. batch[1] \in Attempts /\ IdOf[batch[1]] \in Range(IdOf) /\ state[batch[1]] = "opening"
    BY <1>0, <1>7, Opening, Constants DEF OpenSucceeds
  <2>2. decode' = decode /\ batch' = <<>>
    BY <1>7 DEF OpenSucceeds
  <2>3. CASE OpenedThenReleased(batch[1])
    <3>1. prefill' = prefill /\ loop' = "release" /\ \A b \in Attempts : state'[b] = state[b] \/ state'[b] = "releasing"
      BY <1>0, <2>1, <2>3 DEF OpenedThenReleased
    <3> QED
      BY <1>a, <2>2, <3>1, QueueFrame
  <2>4. CASE OpenedThenQueued(batch[1])
    <3>1. IdOf[batch[1]] \notin Range(prefill) /\ IdOf[batch[1]] \notin Range(decode)
      BY <2>1 DEF QueueInv
    <3>2. Range(prefill') = Range(prefill) \cup {IdOf[batch[1]]} /\ IsInjective(prefill')
      BY <1>0, <1>b, <2>1, <2>4, <3>1, Appended DEF OpenedThenQueued
    <3>3. /\ state'[batch[1]] = "prefill" /\ loop' = "boundaries"
          /\ \A b \in Attempts : b # batch[1] => state'[b] = state[b]
      BY <1>0, <2>1, <2>4 DEF OpenedThenQueued
    <3>4. \A b \in Attempts : b # batch[1] => IdOf[b] # IdOf[batch[1]]
      BY <2>1 DEF OneUse
    <3>5. ASSUME NEW b \in Attempts, IdOf[b] \in Range(prefill')
          PROVE  state'[b] \notin {"new", "queued", "opening", "prefill_inflight"}
      BY <3>2, <3>3, <3>4, <3>5 DEF QueueInv
    <3>6. ASSUME NEW b \in Attempts, IdOf[b] \in Range(decode')
          PROVE  state'[b] \notin {"new", "queued", "opening", "prefill", "prefill_inflight",
                                   "decode_inflight"}
      BY <2>2, <3>1, <3>3, <3>6 DEF QueueInv
    <3> QED
      BY <1>a, <2>2, <3>2, <3>3, <3>5, <3>6 DEF QueueInv
  <2> QED
    BY <1>7, <2>3, <2>4, OpenCases
<1>8. CASE NoBatch
  <2>1. prefill' = <<>> /\ decode' = <<>> /\ batch' = batch /\ loop' = "idle"
    BY <1>8 DEF NoBatch
  <2>2. Range(<<>>) = {}
    BY DEF Range
  <2> QED
    BY <1>a, <1>b, <2>1, <2>2 DEF QueueInv
<1>9. CASE ReleaseEntry
  <2>1. UNCHANGED <<batch, prefill, decode, state>> /\ loop' \notin {"prefill_run", "decode_run"}
    BY <1>9 DEF ReleaseEntry
  <2> QED
    BY <1>b, <2>1, QueueFrame
<1>10. CASE SettleEntry \/ CrashSettling
  <2>1. todo[1].entry \in Attempts /\ Head(todo) = todo[1]
    BY <1>0, <1>10, Releasing DEF SettleEntry, CrashSettling
  <2>2. UNCHANGED <<batch, prefill, decode>> /\ loop' \notin {"prefill_run", "decode_run"}
    BY <1>10 DEF SettleEntry, CrashSettling
  <2>3. \A b \in Attempts : state'[b] = state[b] \/ state'[b] = "terminal"
    BY <1>0, <1>10, <2>1 DEF SettleEntry, CrashSettling, Settled
  <2> QED
    BY <1>b, <2>2, <2>3, QueueFrame
<1>11. CASE UNCHANGED vars
  <2>1. UNCHANGED <<batch, prefill, decode, state, loop>>
    BY <1>11 DEF vars
  <2> QED
    BY <1>0, <1>b, <2>1, QueueFrame
<1>12. CASE CrashTaking
  <2>1. /\ Range(prefill') \subseteq Range(prefill) /\ IsInjective(prefill')
        /\ Range(decode') \subseteq Range(decode) /\ IsInjective(decode')
        /\ state' = state
    BY <1>0, <1>12, TakingEffect DEF QueueInv
  <2>2. batch' = <<>> /\ loop' \notin {"prefill_run", "decode_run"}
    BY <1>0, <1>12, CrashEffect DEF Crashes
  <2> QED
    BY <1>a, <2>1, <2>2 DEF QueueInv
<1> QED
  BY <1>0, <1>1, <1>2, <1>3, <1>4, <1>5, <1>6, <1>7, <1>8, <1>9, <1>10, <1>11, <1>12,
     QueueStart, QueueEnd
     DEF Next, ClientStep, SchedulerStep, Crashes

\* A batch without repetition leaves releases without repetition.
LEMMA EndOnce ==
  ASSUME TypeOK, IsInjective(batch), BatchFails \/ PrefillEnds \/ DecodeEnds
  PROVE  \A j, k \in DOMAIN todo' : todo'[j].entry = todo'[k].entry => j = k
<1>0. batch \in Seq(Attempts)
  BY DEF TypeOK
<1>a. "backend_error" \in Verdicts
  BY DEF Verdicts
<1>1. CASE BatchFails
  <2>1. todo' = Releases(batch, "backend_error")
    BY <1>1 DEF BatchFails
  <2>2. DOMAIN todo' = DOMAIN batch /\ \A k \in DOMAIN batch : todo'[k].entry = batch[k]
    BY <1>0, <1>a, <2>1, ReleasesOf
  <2> QED
    BY <2>2 DEF IsInjective
<1>2. CASE PrefillEnds
  <2>1. PICK outs \in [DOMAIN batch -> {"ready", "partial", "mismatch"}] :
          \E s \in With(outs, "mismatch") : todo' = Releases(s, "backend_error")
    BY <1>2 DEF PrefillEnds
  <2>2. PICK s \in With(outs, "mismatch") : todo' = Releases(s, "backend_error")
    BY <2>1
  <2>3. s \in Seq(Attempts) /\ IsInjective(s)
    BY WithOutcome
  <2>4. DOMAIN todo' = DOMAIN s /\ \A k \in DOMAIN s : todo'[k].entry = s[k]
    BY <1>a, <2>2, <2>3, ReleasesOf
  <2> QED
    BY <2>3, <2>4 DEF IsInjective
<1>3. CASE DecodeEnds
  <2>1. PICK outs \in [DOMAIN batch -> {"progressed", "result", "backend_error"}] :
          \E w \in Ascending({i \in DOMAIN batch : outs[i] # "progressed"}) :
            todo' = [k \in DOMAIN w |-> [entry |-> batch[w[k]], verdict |-> outs[w[k]]]]
    BY <1>3 DEF DecodeEnds
  <2> DEFINE P == {i \in DOMAIN batch : outs[i] # "progressed"}
  <2>2. PICK w \in Ascending(P) :
          todo' = [k \in DOMAIN w |-> [entry |-> batch[w[k]], verdict |-> outs[w[k]]]]
    BY <2>1
  <2>3. P \in SUBSET DOMAIN batch
    OBVIOUS
  <2> HIDE DEF P
  <2>4. w \in Seq(P) /\ IsInjective(w)
    BY <1>0, <2>3, AscendingList
  <2>5. \A k \in DOMAIN w : w[k] \in DOMAIN batch
    BY <2>3, <2>4
  <2>6. DOMAIN todo' = DOMAIN w /\ \A k \in DOMAIN w : todo'[k].entry = batch[w[k]]
    BY <2>2
  <2> QED
    BY <2>4, <2>5, <2>6 DEF IsInjective
<1> QED
  BY <1>1, <1>2, <1>3

\* A step that keeps the list of releases and ends nobody in it.
LEMMA TodoFrame ==
  ASSUME TodoInv, todo' = todo, \A a \in entries : Live(a) => Live(a)'
  PROVE  TodoInv'
BY DEF TodoInv, Live

\* A list with one release of a live entry.
LEMMA TodoOne ==
  ASSUME NEW a \in Attempts, NEW v \in Verdicts, todo' = <<[entry |-> a, verdict |-> v]>>, Live(a)'
  PROVE  TodoInv'
<1>1. DOMAIN todo' = {1} /\ todo'[1].entry = a
  BY OneRelease
<1> QED
  BY <1>1 DEF TodoInv, Live

\* A request is released once.
LEMMA TodoStep ==
  ASSUME BaseInv, IsInjective(batch), TodoInv, [Next]_vars
  PROVE  TodoInv'
<1> USE DEF clientVars, clockVars, entryVars, dequeVars, ledgerVars, loopVars
<1>0. /\ TypeOK /\ EntriesInv /\ LoopInv /\ SettleInv
      /\ state \in [Attempts -> States] /\ entries \subseteq Attempts
      /\ todo \in Seq([entry : Attempts, verdict : Verdicts])
  BY DEF BaseInv, RequestInv, TypeOK
<1>a. \A a \in Attempts : state[a] \notin {"new", "terminal"} => Live(a)
  BY <1>0 DEF EntriesInv, Live
<1>1. ASSUME NEW a \in Attempts, Infer(a) PROVE TodoInv'
  <2>1. todo' = todo /\ \A b \in entries : Live(b) => Live(b)'
    BY <1>0, <1>1 DEF Infer, NotifyAll, Live
  <2> QED
    BY <2>1, TodoFrame
<1>2. ASSUME NEW a \in Attempts, InferReturn(a) \/ Cancel(a) \/ DeadlinePasses(a) PROVE TodoInv'
  <2>1. todo' = todo /\ \A b \in entries : Live(b) => Live(b)'
    BY <1>2 DEF InferReturn, Cancel, DeadlinePasses, NotifyAll, Live
  <2> QED
    BY <2>1, TodoFrame
<1>3. CASE Start \/ Shutdown \/ NoBatch \/ Idle \/ WaitTimesOut \/ Stop
  <2>1. UNCHANGED <<todo, state, entries>>
    BY <1>3 DEF Start, Shutdown, NoBatch, Idle, WaitTimesOut, Stop, NotifyAll
  <2> QED
    BY <2>1, TodoFrame DEF Live
<1>4. CASE Boundaries
  <2>1. CASE UNCHANGED <<state, todo>>
    BY <1>4, <2>1, TodoFrame DEF Boundaries, Live
  <2>2. CASE \E a \in entries :
               /\ state' = [state EXCEPT ![a] = "releasing"]
               /\ todo'  = <<[entry |-> a, verdict |-> BoundaryVerdict(a)]>>
    <3>1. PICK a \in entries :
               /\ state' = [state EXCEPT ![a] = "releasing"]
               /\ todo'  = <<[entry |-> a, verdict |-> BoundaryVerdict(a)]>>
      BY <2>2
    <3>2. BoundaryVerdict(a) \in Verdicts
      BY DEF BoundaryVerdict, Verdicts
    <3>3. a \in Attempts /\ Live(a)'
      BY <1>0, <1>4, <3>1 DEF Boundaries, Live
    <3> QED
      BY <3>1, <3>2, <3>3, TodoOne
  <2> QED
    BY <1>4, <2>1, <2>2 DEF Boundaries
<1>5. CASE OpenOne
  <2>1. todo' = todo /\ entries' = entries
    BY <1>5 DEF OpenOne
  <2>2. \A b \in Attempts : state'[b] = state[b] \/ state'[b] = "opening"
    BY <1>0, <1>5 DEF OpenOne
  <2> QED
    BY <1>0, <2>1, <2>2, TodoFrame DEF Live
<1>6. CASE OpenFails
  <2>1. batch[1] \in Attempts /\ state[batch[1]] = "opening" /\ "backend_error" \in Verdicts
    BY <1>0, <1>6, Opening DEF OpenFails, Verdicts
  <2>2. /\ todo' = <<[entry |-> batch[1], verdict |-> "backend_error"]>>
        /\ Live(batch[1]) /\ UNCHANGED <<state, entries>>
    BY <1>6, <1>a, <2>1 DEF OpenFails
  <2>3. PICK a \in Attempts : a = batch[1]
    BY <2>1
  <2>4. Live(a)' /\ todo' = <<[entry |-> a, verdict |-> "backend_error"]>>
    BY <2>2, <2>3 DEF Live
  <2> QED
    BY <2>1, <2>4, TodoOne
<1>7. CASE OpenSucceeds
  <2>1. batch[1] \in Attempts /\ state[batch[1]] = "opening" /\ entries' = entries
    BY <1>0, <1>7, Opening DEF OpenSucceeds
  <2>2. Live(batch[1])
    BY <1>a, <2>1
  <2>3. PICK a \in Attempts : a = batch[1]
    BY <2>1
  <2>4. CASE OpenedThenReleased(batch[1])
    <3>1. PICK v \in Verdicts : todo' = <<[entry |-> a, verdict |-> v]>>
      BY <2>3, <2>4 DEF OpenedThenReleased
    <3>2. Live(a)'
      BY <1>0, <2>1, <2>2, <2>3, <2>4 DEF OpenedThenReleased, Live
    <3> QED
      BY <3>1, <3>2, TodoOne
  <2>5. CASE OpenedThenQueued(batch[1])
    <3>1. todo' = todo /\ \A b \in Attempts : state'[b] = state[b] \/ state'[b] = "prefill"
      BY <1>0, <2>1, <2>5 DEF OpenedThenQueued
    <3> QED
      BY <1>0, <2>1, <3>1, TodoFrame DEF Live
  <2> QED
    BY <1>7, <2>4, <2>5, OpenCases
<1>8. CASE StartDecode \/ StartPrefill
  <2>1. todo' = todo /\ entries' = entries /\ \A b \in Attempts : state'[b] \in InFlight \/ state'[b] = state[b]
    BY <1>0, <1>8, StartEffect
  <2> QED
    BY <1>0, <2>1, TodoFrame DEF Live, InFlight
<1>9. CASE BatchFails \/ PrefillEnds \/ DecodeEnds
  <2>1. /\ entries' = entries /\ loop \in {"prefill_run", "decode_run"}
        /\ \A k \in DOMAIN todo' : todo'[k].entry \in Range(batch)
        /\ \A b \in Attempts : state'[b] = state[b] \/ state'[b] \in {"decode", "prefill", "releasing"}
    BY <1>0, <1>9, EndEffect
  <2>2. \A j, k \in DOMAIN todo' : todo'[j].entry = todo'[k].entry => j = k
    BY <1>0, <1>9, EndOnce
  <2>3. \A i \in DOMAIN batch : batch[i] \in Attempts /\ state[batch[i]] \in InFlight
    <3>1. batch \in Seq(Attempts)
      BY <1>0 DEF TypeOK
    <3> QED
      BY <1>0, <2>1, <3>1 DEF LoopInv
  <2>4. \A b \in Range(batch) : b \in Attempts /\ Live(b) /\ state[b] # "terminal"
    BY <1>a, <2>3 DEF Range, InFlight
  <2>5. \A b \in Range(batch) : Live(b)'
    BY <2>1, <2>4 DEF Live
  <2> QED
    BY <2>1, <2>2, <2>5 DEF TodoInv, Live
<1>10. CASE ReleaseEntry
  <2>1. Head(todo) = todo[1] /\ 1 \in DOMAIN todo /\ UNCHANGED <<state, entries>>
    BY <1>0, <1>10, Releasing DEF ReleaseEntry
  <2>2. state[todo[1].entry] # "terminal"
    BY <2>1 DEF TodoInv, Live
  <2>3. todo' \in {todo, [todo EXCEPT ![1] = [entry |-> todo[1].entry, verdict |-> "release_failed"]]}
    BY <1>10, <2>1, <2>2 DEF ReleaseEntry
  <2>4. DOMAIN todo' = DOMAIN todo /\ \A k \in DOMAIN todo : todo'[k].entry = todo[k].entry
    BY <1>0, <2>1, <2>3, FailedRelease
  <2> QED
    BY <2>1, <2>4 DEF TodoInv, Live
<1>11. CASE SettleEntry
  <2>1. /\ Head(todo) = todo[1] /\ 1 \in DOMAIN todo /\ todo[1].entry \in Attempts
        /\ \A k \in DOMAIN Tail(todo) : k + 1 \in DOMAIN todo /\ Tail(todo)[k] = todo[k + 1]
        /\ Tail(todo) \in Seq([entry : Attempts, verdict : Verdicts])
    BY <1>0, <1>11, Releasing DEF SettleEntry
  <2>2. \A k \in DOMAIN Tail(todo) : k \in Nat /\ k # 0
    BY <2>1
  <2>3. todo' = Tail(todo) /\ entries' = entries /\ \A b \in Attempts : b # todo[1].entry => state'[b] = state[b]
    BY <1>0, <1>11, <2>1 DEF SettleEntry, Settled
  <2>4. ASSUME NEW k \in DOMAIN todo' PROVE Live(todo[k].entry)'
    <3>1. k + 1 \in DOMAIN todo /\ todo'[k] = todo[k + 1] /\ k \in Nat /\ k # 0
      BY <2>1, <2>2, <2>3
    <3>2. k + 1 # 1
      BY <3>1
    <3>3. todo[k + 1].entry # todo[1].entry /\ Live(todo[k + 1].entry)
      BY <2>1, <3>1, <3>2 DEF TodoInv
    <3> QED
      BY <1>0, <2>3, <3>1, <3>3 DEF Live
  <2>5. ASSUME NEW j \in DOMAIN todo', NEW k \in DOMAIN todo', todo'[j].entry = todo'[k].entry
        PROVE  j = k
    <3>1. /\ j + 1 \in DOMAIN todo /\ todo'[j] = todo[j + 1] /\ j \in Nat
          /\ k + 1 \in DOMAIN todo /\ todo'[k] = todo[k + 1] /\ k \in Nat
      BY <2>1, <2>2, <2>3
    <3>2. j + 1 = k + 1
      BY <2>5, <3>1 DEF TodoInv
    <3> QED
      BY <3>1, <3>2
  <2> QED
    BY <2>4, <2>5 DEF TodoInv, Live
<1>12. CASE FailAll
  <2>1. UNCHANGED <<state, entries>>
    BY <1>12 DEF FailAll
  <2> QED
    BY <1>0, <1>12, <2>1, FailEffect DEF TodoInv, Live
<1>13. CASE UNCHANGED vars
  <2>1. UNCHANGED <<todo, state, entries>>
    BY <1>13 DEF vars
  <2> QED
    BY <2>1, TodoFrame DEF Live
<1>14. CASE Crashes
  <2>1. todo' = <<>>
    BY <1>0, <1>14, CrashEffect
  <2> QED
    BY <2>1 DEF TodoInv
<1> QED
  BY <1>1, <1>2, <1>3, <1>4, <1>5, <1>6, <1>7, <1>8, <1>9, <1>10, <1>11, <1>12, <1>13, <1>14
     DEF Next, ClientStep, SchedulerStep

ForgetInv == BaseInv /\ WakeInv /\ QueueInv /\ TodoInv

\* With ids that are used once, the whole invariant is inductive.
LEMMA ForgetInvariant ==
  ASSUME OneUse
  PROVE  Spec => []ForgetInv
<1>1. Init => ForgetInv
  <2> SUFFICES ASSUME Init PROVE ForgetInv
    OBVIOUS
  <2>1. BaseInv
    BY BaseInit
  <2>2. WakeInv
    BY DEF Init, WakeInv, NoStrandedRequest, InDeques, NeverSleepsOnWork, StoppedMeansSettled
  <2>3. QueueInv
    BY DEF Init, QueueInv, IsInjective, Range
  <2>4. TodoInv
    BY DEF Init, TodoInv
  <2> QED
    BY <2>1, <2>2, <2>3, <2>4 DEF ForgetInv
<1>2. ForgetInv /\ [Next]_vars => ForgetInv'
  <2> SUFFICES ASSUME ForgetInv, [Next]_vars PROVE ForgetInv'
    OBVIOUS
  <2>1. BaseInv /\ WakeInv /\ QueueInv /\ TodoInv /\ IsInjective(batch)
    BY DEF ForgetInv, QueueInv
  <2> QED
    BY <2>1, BaseStep, WakeStep, QueueStep, TodoStep DEF ForgetInv
<1> QED
  BY <1>1, <1>2, PTL DEF Spec

\* A list without repetition has as many elements as places.
LEMMA NoRepetition ==
  ASSUME NEW S, NEW s \in Seq(S), IsInjective(s)
  PROVE  Cardinality(Range(s)) = Len(s)
<1>1. Len(s) \in Nat /\ IsFiniteSet(1 .. Len(s)) /\ Cardinality(1 .. Len(s)) = Len(s)
  <2>1. PICK n \in Nat : n = Len(s)
    OBVIOUS
  <2>2. IsFiniteSet(1 .. n) /\ Cardinality(1 .. n) = IF 1 > n THEN 0 ELSE n - 1 + 1
    BY FS_Interval
  <2>3. Cardinality(1 .. n) = n
    BY <2>2
  <2> QED
    BY <2>1, <2>2, <2>3
<1>2. DOMAIN s = 1 .. Len(s) /\ s \in [1 .. Len(s) -> Range(s)]
  BY DEF Range
<1>3. s \in Surjection(1 .. Len(s), Range(s)) /\ s \in Injection(1 .. Len(s), Range(s))
  BY <1>2 DEF Surjection, Injection, Range
<1> QED
  BY <1>1, <1>3, FS_Surjection

\* If no id is used twice, nothing is forgotten: a request that waits is in its
\* deque until the loop fails, the loop never sleeps on work, a loop that did not fail stops only
\* when everything is settled, and a batch names a sequence once, whatever the
\* clients, the clock and the backend do.
THEOREM NothingIsForgotten ==
  ASSUME OneUse
  PROVE  Spec => []NothingForgotten
<1>1. ForgetInv => NothingForgotten
  <2> SUFFICES ASSUME ForgetInv PROVE NothingForgotten
    OBVIOUS
  <2>1. BaseInv /\ WakeInv /\ QueueInv
    BY DEF ForgetInv
  <2>2. batch \in Seq(Attempts) /\ IsInjective(batch)
    BY <2>1 DEF BaseInv, TypeOK, QueueInv
  <2>3. Distinct
    BY <2>2, NoRepetition DEF Distinct
  <2> QED
    BY <2>1, <2>3 DEF NothingForgotten, WakeInv
<1> QED
  BY <1>1, ForgetInvariant, PTL

\* A request that waits is in its deque until the loop fails, and the loop never
\* sleeps on work, for requests that use an id again, too.
THEOREM NobodyIsStranded == Spec => [](NoStrandedRequest /\ NeverSleepsOnWork)
<1>1. Init => BaseInv /\ WakeInv
  BY BaseInit DEF Init, WakeInv, NoStrandedRequest, InDeques, NeverSleepsOnWork, StoppedMeansSettled
<1>2. (BaseInv /\ WakeInv) /\ [Next]_vars => (BaseInv /\ WakeInv)'
  BY BaseStep, WakeStep
<1>3. WakeInv => NoStrandedRequest /\ NeverSleepsOnWork
  BY DEF WakeInv
<1> QED
  BY <1>1, <1>2, <1>3, PTL DEF Spec

\* If no id is used twice, the terminal event of a request is its last event.
THEOREM TerminalEventStaysLast ==
  ASSUME OneUse
  PROVE  Spec => TerminalEventIsLast
<1> USE DEF clientVars, clockVars, entryVars, dequeVars, ledgerVars, loopVars
<1>1. ForgetInv /\ [Next]_vars =>
        [\A a \in Attempts : lastEvent[a] = "terminal" => lastEvent'[a] = "terminal"]_vars
  <2> SUFFICES ASSUME ForgetInv, Next, NEW a \in Attempts, lastEvent[a] = "terminal"
               PROVE  lastEvent'[a] = "terminal"
    OBVIOUS
  <2>0. /\ TypeOK /\ EntriesInv /\ LoopInv /\ SettleInv /\ TodoInv
        /\ lastEvent \in [Attempts -> {"none", "admitted", "opened", "progress", "released",
                                       "terminal"}]
        /\ entries \subseteq Attempts
    BY DEF ForgetInv, BaseInv, RequestInv, TypeOK
  <2>1. loop # "settle" => state[a] = "terminal"
    BY <2>0 DEF SettleInv
  <2>2. CASE OpenOne
    BY <2>0, <2>1, <2>2 DEF OpenOne, Openable
  <2>3. CASE OpenSucceeds
    <3>1. batch[1] # a
      BY <2>0, <2>1, <2>3, Opening DEF OpenSucceeds
    <3> QED
      BY <2>0, <2>3, <3>1 DEF OpenSucceeds
  <2>4. CASE BatchFails \/ PrefillEnds \/ DecodeEnds
    <3>1. loop # "settle"
      BY <2>4 DEF BatchFails, PrefillEnds, DecodeEnds
    <3> QED
      BY <2>0, <2>1, <2>4, <3>1, EndEffect DEF InFlight
  <2>5. CASE ReleaseEntry
    <3>1. Head(todo) = todo[1] /\ 1 \in DOMAIN todo
      BY <2>0, <2>5, Releasing DEF ReleaseEntry
    <3>2. state[todo[1].entry] # "terminal"
      BY <2>0, <3>1 DEF TodoInv, Live
    <3>3. lastEvent' = [lastEvent EXCEPT ![todo[1].entry] = "terminal"]
      BY <2>5, <3>1, <3>2 DEF ReleaseEntry
    <3> QED
      BY <2>0, <3>3
  <2>6. ASSUME NEW b \in Attempts, ClientStep(b) PROVE lastEvent' = lastEvent
    BY <2>6 DEF ClientStep, Infer, InferReturn, Cancel, DeadlinePasses
  <2>7. CASE Start \/ Shutdown \/ Boundaries \/ OpenFails \/ StartDecode \/ StartPrefill
    BY <2>7 DEF Start, Shutdown, Boundaries, OpenFails, StartDecode, StartPrefill
  <2>8. CASE NoBatch \/ SettleEntry \/ Idle \/ WaitTimesOut \/ FailAll \/ Stop
    BY <2>8 DEF NoBatch, SettleEntry, Idle, WaitTimesOut, FailAll, Stop
  <2>9. CASE Crashes
    BY <2>0, <2>9, CrashEffect
  <2> QED
    BY <2>2, <2>3, <2>4, <2>5, <2>6, <2>7, <2>8, <2>9 DEF Next, SchedulerStep
<1> QED
  BY <1>1, ForgetInvariant, PTL DEF Spec, TerminalEventIsLast

-----------------------------------------------------------------------------
(***************************************************************************)
(* Sums of tokens.  Tokens(D, f) is a fold of the community modules, and   *)
(* the fold takes the elements in the order CHOOSE gives: the sum is h[D]  *)
(* for the one function h on the subsets of D that satisfies the fold's    *)
(* equation.  Such an h exists, by induction on the number of elements,    *)
(* and its values do not depend on the order.                              *)
(***************************************************************************)

SumStep(h, f, s) ==
  IF s = {} THEN 0 ELSE f[CHOOSE x \in s : TRUE] + h[s \ {CHOOSE x \in s : TRUE}]

Sums(h, f, D) == h = [s \in SUBSET D |-> SumStep(h, f, s)]

NatSums(h, f, D) == Sums(h, f, D) /\ h \in [SUBSET D -> Nat]

\* The sum as the fold defines it.
LEMMA TokensAreSums ==
  ASSUME NEW D, NEW f PROVE Tokens(D, f) = (CHOOSE h : Sums(h, f, D))[D]
BY DEF Tokens, MapThenSumSet, MapThenFoldSet, Sums, SumStep

\* Every nonempty set of naturals has a least element.
LEMMA LeastNat ==
  ASSUME NEW B \in SUBSET Nat, B # {}
  PROVE  \E n \in B : \A m \in B : ~(m < n)
<1>1. \E n \in B : \A m \in B : ~(<<m, n>> \in OpToRel(<, Nat))
  BY NatLessThanWellFounded, WFMin, Zenon
<1>2. \A m, n \in Nat : m < n => <<m, n>> \in OpToRel(<, Nat)
  BY DEF OpToRel
<1> QED
  BY <1>1, <1>2, Zenon

\* Induction over the subsets of a finite set, with a set in the place of a
\* predicate.
LEMMA SubsetInduction ==
  ASSUME NEW D, IsFiniteSet(D), NEW F,
         \A s \in SUBSET D : (\A x \in s : s \ {x} \in F) => s \in F
  PROVE  D \in F
<1> DEFINE B == {n \in Nat : \E s \in SUBSET D : s \notin F /\ Cardinality(s) = n}
<1>1. SUFFICES ASSUME D \notin F PROVE FALSE
  OBVIOUS
<1>2. Cardinality(D) \in B
  BY <1>1, FS_CardinalityType
<1>3. PICK n \in B : \A m \in B : ~(m < n)
  BY <1>2, LeastNat
<1>4. PICK s \in SUBSET D : s \notin F /\ Cardinality(s) = n
  BY <1>3
<1>5. PICK x \in s : s \ {x} \notin F
  BY <1>4
<1>6. IsFiniteSet(s) /\ Cardinality(s \ {x}) = n - 1 /\ Cardinality(s \ {x}) \in Nat
  BY <1>4, FS_Subset, FS_RemoveElement, FS_CardinalityType
<1>7. n - 1 \in B /\ n - 1 < n
  BY <1>3, <1>5, <1>6
<1> QED
  BY <1>3, <1>7

\* What CHOOSE takes from a nonempty set is in it.
LEMMA Chosen == ASSUME NEW s, s # {} PROVE (CHOOSE x \in s : TRUE) \in s
OBVIOUS

\* A function that satisfies the equation of the fold exists.
LEMMA SumsExist ==
  ASSUME NEW D, IsFiniteSet(D), NEW f, \A x \in D : f[x] \in Nat
  PROVE  \E h : NatSums(h, f, D)
<1> DEFINE Upto(n) == \E h \in [SUBSET D -> Nat] :
                        \A s \in SUBSET D : Cardinality(s) <= n => h[s] = SumStep(h, f, s)
           B == {n \in Nat : ~Upto(n)}
<1>0. \A s \in SUBSET D : IsFiniteSet(s) /\ Cardinality(s) \in Nat
  BY FS_Subset, FS_CardinalityType
<1>1. Upto(0)
  <2>1. [s \in SUBSET D |-> 0] \in [SUBSET D -> Nat]
    OBVIOUS
  <2>2. \A s \in SUBSET D : Cardinality(s) <= 0 => s = {}
    BY <1>0, FS_EmptySet
  <2> QED
    BY <2>1, <2>2 DEF SumStep
<1>2. ASSUME NEW n \in Nat, Upto(n) PROVE Upto(n + 1)
  <2>1. PICK h \in [SUBSET D -> Nat] :
          \A s \in SUBSET D : Cardinality(s) <= n => h[s] = SumStep(h, f, s)
    BY <1>2
  <2> DEFINE g == [s \in SUBSET D |-> SumStep(h, f, s)]
  <2>2. \A s \in SUBSET D : s # {} => (CHOOSE x \in s : TRUE) \in s
    BY Chosen
  <2>3. g \in [SUBSET D -> Nat]
    BY <2>2 DEF SumStep
  <2>4. ASSUME NEW s \in SUBSET D, Cardinality(s) <= n + 1 PROVE g[s] = SumStep(g, f, s)
    <3>1. CASE s = {}
      BY <3>1 DEF SumStep
    <3>2. CASE s # {}
      <4>1. PICK c \in s : c = (CHOOSE x \in s : TRUE)
        BY <2>2, <3>2
      <4>2. IsFiniteSet(s) /\ Cardinality(s \ {c}) = Cardinality(s) - 1
        BY <1>0, FS_RemoveElement
      <4>3. s \ {c} \in SUBSET D /\ Cardinality(s \ {c}) <= n
        BY <1>0, <2>4, <4>2
      <4>4. g[s \ {c}] = h[s \ {c}]
        BY <2>1, <4>3
      <4>5. g[s] = f[c] + h[s \ {c}] /\ SumStep(g, f, s) = f[c] + g[s \ {c}]
        BY <3>2, <4>1 DEF SumStep
      <4> QED
        BY <4>4, <4>5
    <3> QED
      BY <3>1, <3>2
  <2> HIDE DEF g
  <2> QED
    BY <2>3, <2>4
<1> HIDE DEF Upto
<1>3. B = {}
  <2>1. SUFFICES ASSUME B # {} PROVE FALSE
    OBVIOUS
  <2>2. PICK n \in B : \A m \in B : ~(m < n)
    BY <2>1, LeastNat
  <2>3. n # 0 /\ n - 1 \in Nat /\ n - 1 + 1 = n
    BY <1>1, <2>2
  <2>4. n - 1 \in B
    BY <1>2, <2>2, <2>3
  <2> QED
    BY <2>2, <2>3, <2>4
<1>4. Upto(Cardinality(D))
  BY <1>0, <1>3
<1>5. PICK h \in [SUBSET D -> Nat] :
        \A s \in SUBSET D : Cardinality(s) <= Cardinality(D) => h[s] = SumStep(h, f, s)
  BY <1>4 DEF Upto
<1>6. \A s \in SUBSET D : Cardinality(s) <= Cardinality(D)
  BY FS_Subset
<1> QED
  BY <1>5, <1>6 DEF Sums, NatSums

\* The sum over a set does not depend on what it is a part of.
LEMMA SumsAgree ==
  ASSUME NEW D, IsFiniteSet(D), NEW E \in SUBSET D, NEW f, NEW h, NEW g,
         Sums(h, f, D), Sums(g, f, E)
  PROVE  h[E] = g[E]
<1> DEFINE F == {s \in SUBSET E : h[s] = g[s]}
<1>1. ASSUME NEW s \in SUBSET E, \A x \in s : s \ {x} \in F PROVE s \in F
  <2>1. h[s] = SumStep(h, f, s) /\ g[s] = SumStep(g, f, s)
    BY DEF Sums
  <2>2. CASE s = {}
    BY <2>1, <2>2 DEF SumStep
  <2>3. CASE s # {}
    BY <1>1, <2>1, <2>3, Chosen DEF SumStep
  <2> QED
    BY <2>2, <2>3
<1>2. IsFiniteSet(E)
  BY FS_Subset
<1> HIDE DEF F
<1>3. E \in F
  BY <1>1, <1>2, SubsetInduction
<1> QED
  BY <1>3 DEF F

\* Any element may be taken first.
LEMMA SumsOrder ==
  ASSUME NEW D, IsFiniteSet(D), NEW f, \A x \in D : f[x] \in Nat,
         NEW h, NatSums(h, f, D)
  PROVE  \A x \in D : h[D] = f[x] + h[D \ {x}]
<1>0. h \in [SUBSET D -> Nat] /\ Sums(h, f, D)
  BY DEF NatSums
<1> DEFINE F == {s \in SUBSET D : \A y \in s : h[s] = f[y] + h[s \ {y}]}
<1>1. ASSUME NEW s \in SUBSET D, \A y \in s : s \ {y} \in F, NEW y \in s
      PROVE  h[s] = f[y] + h[s \ {y}]
  <2> DEFINE c == CHOOSE z \in s : TRUE
  <2>1. c \in s /\ h[s] = f[c] + h[s \ {c}]
    BY <1>0, Chosen DEF Sums, SumStep
  <2> HIDE DEF c
  <2>2. CASE y = c
    BY <2>1, <2>2
  <2>3. CASE y # c
    <3>1. h[s \ {c}] = f[y] + h[(s \ {c}) \ {y}]
      BY <1>1, <2>1, <2>3
    <3>2. h[s \ {y}] = f[c] + h[(s \ {y}) \ {c}]
      BY <1>1, <2>1, <2>3
    <3>3. (s \ {y}) \ {c} = (s \ {c}) \ {y}
      OBVIOUS
    <3>4. PICK k \in Nat : k = h[(s \ {c}) \ {y}]
      BY <1>0
    <3>5. f[y] \in Nat /\ f[c] \in Nat
      BY <2>1
    <3>6. h[s] = f[c] + (f[y] + k) /\ h[s \ {y}] = f[c] + k
      BY <2>1, <3>1, <3>2, <3>3, <3>4
    <3> QED
      BY <3>4, <3>5, <3>6
  <2> QED
    BY <2>2, <2>3
<1>2. \A s \in SUBSET D : (\A y \in s : s \ {y} \in F) => s \in F
  BY <1>1
<1> HIDE DEF F
<1>3. D \in F
  BY <1>2, SubsetInduction
<1> QED
  BY <1>3 DEF F

\* The tokens of a set are a number, and each member adds its own.
LEMMA TokensAdd ==
  ASSUME NEW D, IsFiniteSet(D), NEW f, \A x \in D : f[x] \in Nat
  PROVE  /\ Tokens(D, f) \in Nat
         /\ \A x \in D : Tokens(D, f) = f[x] + Tokens(D \ {x}, f)
<1>1. PICK h : NatSums(h, f, D)
  BY SumsExist
<1>2. ASSUME NEW E \in SUBSET D PROVE Tokens(E, f) = h[E]
  <2>1. IsFiniteSet(E)
    BY FS_Subset
  <2>2. \E g : Sums(g, f, E)
    BY <2>1, SumsExist DEF NatSums
  <2>3. Sums(CHOOSE g : Sums(g, f, E), f, E)
    BY <2>2
  <2> QED
    BY <1>1, <2>3, SumsAgree, TokensAreSums DEF NatSums
<1>3. \A x \in D : h[D] = f[x] + h[D \ {x}]
  BY <1>1, SumsOrder
<1>4. \A E \in SUBSET D : h[E] \in Nat
  BY <1>1 DEF NatSums
<1> QED
  BY <1>2, <1>3, <1>4

\* The empty set has no tokens.
LEMMA TokensOfNone == ASSUME NEW f PROVE Tokens({}, f) = 0
<1>1. PICK h : NatSums(h, f, {})
  BY SumsExist, FS_EmptySet
<1>2. Sums(CHOOSE g : Sums(g, f, {}), f, {})
  BY <1>1 DEF NatSums
<1> QED
  BY <1>2, TokensAreSums DEF Sums, SumStep

\* A part of a set has no more tokens than the set, and they depend only on
\* what its members own.
LEMMA TokensOfPart ==
  ASSUME NEW D, IsFiniteSet(D), NEW f, NEW g, NEW E \in SUBSET D,
         \A x \in D : f[x] \in Nat, \A x \in E : g[x] = f[x]
  PROVE  Tokens(E, g) <= Tokens(D, f)
<1> DEFINE F == {s \in SUBSET D : \A t \in SUBSET s :
                   (\A x \in t : g[x] = f[x]) => Tokens(t, g) <= Tokens(s, f)}
<1>1. ASSUME NEW s \in SUBSET D, \A x \in s : s \ {x} \in F, NEW t \in SUBSET s,
             \A x \in t : g[x] = f[x]
      PROVE  Tokens(t, g) <= Tokens(s, f)
  <2>1. IsFiniteSet(s) /\ IsFiniteSet(t)
    BY FS_Subset
  <2>2. CASE s = {}
    BY <2>2, TokensOfNone
  <2>3. CASE t # {}
    <3>1. PICK x \in t : TRUE
      BY <2>3
    <3>2. Tokens(t, g) = f[x] + Tokens(t \ {x}, g) /\ Tokens(s, f) = f[x] + Tokens(s \ {x}, f)
      BY <1>1, <2>1, TokensAdd, SMTT(30)
    <3>3. Tokens(t \ {x}, g) <= Tokens(s \ {x}, f)
      BY <1>1
    <3>4. IsFiniteSet(t \ {x}) /\ IsFiniteSet(s \ {x}) /\ f[x] \in Nat
      BY <2>1, FS_Subset
    <3>5. Tokens(t \ {x}, g) \in Nat /\ Tokens(s \ {x}, f) \in Nat
      BY <1>1, <3>4, TokensAdd
    <3> QED
      BY <3>2, <3>3, <3>4, <3>5
  <2>4. CASE t = {}
    BY <2>1, <2>4, TokensAdd, TokensOfNone
  <2> QED
    BY <2>3, <2>4
<1>2. \A s \in SUBSET D : (\A x \in s : s \ {x} \in F) => s \in F
  BY <1>1
<1> HIDE DEF F
<1>3. D \in F
  BY <1>2, SubsetInduction
<1> QED
  BY <1>3 DEF F

\* One more member, whose tokens still fit.
LEMMA TokensWithOneMore ==
  ASSUME NEW D, IsFiniteSet(D), NEW f, NEW g, NEW b, NEW E \in SUBSET (D \cup {b}),
         \A x \in D : f[x] \in Nat, \A x \in E \ {b} : g[x] = f[x],
         NEW n \in Nat, NEW m \in Nat, g[b] \in Nat, g[b] <= n, Tokens(D, f) + n <= m
  PROVE  Tokens(E, g) <= m
<1>1. E \ {b} \in SUBSET D /\ IsFiniteSet(D \cup {b})
  BY FS_AddElement
<1>2. IsFiniteSet(E) /\ \A x \in E : g[x] \in Nat
  BY <1>1, FS_Subset
<1>3. Tokens(E \ {b}, g) <= Tokens(D, f) /\ Tokens(D, f) \in Nat
  BY <1>1, TokensOfPart, TokensAdd
<1>4. Tokens(E \ {b}, g) \in Nat
  <2>1. IsFiniteSet(E \ {b}) /\ \A x \in E \ {b} : g[x] \in Nat
    BY <1>2, FS_Subset
  <2> QED
    BY <2>1, TokensAdd
<1>5. CASE b \in E
  <2>1. Tokens(E, g) = g[b] + Tokens(E \ {b}, g)
    BY <1>2, <1>5, TokensAdd
  <2> QED
    BY <1>3, <1>4, <2>1
<1>6. CASE b \notin E
  <2>1. E \ {b} = E
    BY <1>6
  <2>2. Tokens(E, g) <= Tokens(D, f) /\ Tokens(E, g) \in Nat
    BY <1>3, <1>4, <2>1
  <2> QED
    BY <1>3, <2>2
<1> QED
  BY <1>5, <1>6

-----------------------------------------------------------------------------
(***************************************************************************)
(* Quotas on sequences and on tokens.                                      *)
(***************************************************************************)

\* The numbers of open sequences that WithinQuotas bounds.
SequencesWithinQuotas ==
  /\ Cardinality(ActiveOf(ledger, kv)) <= MaxSequences
  /\ \A a \in ActiveOf(ledger, kv) :
       Cardinality(SameScope(a, ActiveOf(ledger, kv))) <= MaxSequencesPerScope

\* The tokens that WithinQuotas bounds.
TokensWithinQuotas ==
  /\ Tokens(ActiveOf(ledger, kv), kv) <= KvBudget
  /\ \A a \in ActiveOf(ledger, kv) :
       Tokens(SameScope(a, ActiveOf(ledger, kv)), kv) <= MaxKvPerScope

\* WithinQuotas, taken apart.
Quotas == SequencesWithinQuotas /\ TokensWithinQuotas

\* There is room for one more sequence, and for its estimate.
Room(a) ==
  /\ Cardinality(ActiveOf(ledger, kv)) < MaxSequences
  /\ Cardinality(SameScope(a, ActiveOf(ledger, kv))) < MaxSequencesPerScope
  /\ Tokens(ActiveOf(ledger, kv), kv) + Estimate[a] <= KvBudget
  /\ Tokens(SameScope(a, ActiveOf(ledger, kv)), kv) + Estimate[a] <= MaxKvPerScope

\* While a sequence is being opened there is still room for it.
RoomInv ==
  /\ \A a \in Attempts \ ledger : kv[a] = 0
  /\ loop = "opening" => Room(batch[1])

\* Reservations that are given back leave room.
LEMMA CountShrinks ==
  ASSUME ledger \subseteq Attempts, SequencesWithinQuotas, ValidLimits,
         ActiveOf(ledger, kv)' \subseteq ActiveOf(ledger, kv)
  PROVE  SequencesWithinQuotas'
<1> DEFINE S == ActiveOf(ledger, kv)
           T == ActiveOf(ledger', kv')
<1>1. S \subseteq Attempts
  BY DEF ActiveOf
<1>2. IsFiniteSet(S)
  BY <1>1, Constants, FS_Subset
<1>3. T \in SUBSET S
  OBVIOUS
<1>4. MaxSequences \in Nat /\ MaxSequencesPerScope \in Nat
  BY DEF ValidLimits
<1>5. Cardinality(S) <= MaxSequences /\ \A a \in S : Cardinality(SameScope(a, S)) <= MaxSequencesPerScope
  BY DEF SequencesWithinQuotas
<1> HIDE DEF S, T
<1>6. Cardinality(T) <= MaxSequences
  <2>1. Cardinality(T) <= Cardinality(S) /\ Cardinality(S) \in Nat /\ Cardinality(T) \in Nat
    BY <1>2, <1>3, FS_Subset, FS_CardinalityType
  <2> QED
    BY <1>4, <1>5, <2>1
<1>7. ASSUME NEW a \in T PROVE Cardinality(SameScope(a, T)) <= MaxSequencesPerScope
  <2>1. SameScope(a, T) \in SUBSET SameScope(a, S) /\ SameScope(a, S) \in SUBSET S
    BY <1>3 DEF SameScope
  <2>2. IsFiniteSet(SameScope(a, S))
    BY <1>2, <2>1, FS_Subset
  <2>3. /\ Cardinality(SameScope(a, T)) <= Cardinality(SameScope(a, S))
        /\ Cardinality(SameScope(a, S)) \in Nat /\ Cardinality(SameScope(a, T)) \in Nat
    BY <2>1, <2>2, FS_Subset, FS_CardinalityType
  <2>4. Cardinality(SameScope(a, S)) <= MaxSequencesPerScope
    BY <1>3, <1>5
  <2> QED
    BY <1>4, <2>3, <2>4
<1> QED
  BY <1>6, <1>7 DEF SequencesWithinQuotas, T

\* One more reservation where there is room.
LEMMA CountGrows ==
  ASSUME ledger \subseteq Attempts, SequencesWithinQuotas, ValidLimits, NEW b \in Attempts,
         ActiveOf(ledger, kv)' \subseteq ActiveOf(ledger, kv) \cup {b},
         Cardinality(ActiveOf(ledger, kv)) < MaxSequences,
         Cardinality(SameScope(b, ActiveOf(ledger, kv))) < MaxSequencesPerScope
  PROVE  SequencesWithinQuotas'
<1> DEFINE S == ActiveOf(ledger, kv)
           T == ActiveOf(ledger', kv')
<1>1. S \subseteq Attempts
  BY DEF ActiveOf
<1>2. IsFiniteSet(S)
  BY <1>1, Constants, FS_Subset
<1>3. T \in SUBSET (S \cup {b})
  OBVIOUS
<1>4. MaxSequences \in Nat /\ MaxSequencesPerScope \in Nat
  BY DEF ValidLimits
<1>5. /\ Cardinality(S) < MaxSequences /\ Cardinality(SameScope(b, S)) < MaxSequencesPerScope
      /\ \A a \in S : Cardinality(SameScope(a, S)) <= MaxSequencesPerScope
  BY DEF SequencesWithinQuotas
<1> HIDE DEF S, T
<1>6. ASSUME NEW U \in SUBSET S, NEW V \in SUBSET (U \cup {b}), NEW m \in Nat, Cardinality(U) < m
      PROVE  Cardinality(V) <= m
  <2>1. IsFiniteSet(U) /\ Cardinality(U) \in Nat
    BY <1>2, FS_Subset, FS_CardinalityType
  <2>2. /\ IsFiniteSet(U \cup {b})
        /\ Cardinality(U \cup {b}) = IF b \in U THEN Cardinality(U) ELSE Cardinality(U) + 1
    BY <2>1, FS_AddElement
  <2>3. Cardinality(V) <= Cardinality(U \cup {b}) /\ Cardinality(V) \in Nat
    BY <2>2, FS_Subset, FS_CardinalityType
  <2> QED
    BY <1>6, <2>1, <2>2, <2>3
<1>7. Cardinality(T) <= MaxSequences
  BY <1>3, <1>4, <1>5, <1>6
<1>8. ASSUME NEW a \in T PROVE Cardinality(SameScope(a, T)) <= MaxSequencesPerScope
  <2>1. CASE ScopeOf[a] = ScopeOf[b]
    <3>1. SameScope(b, S) \in SUBSET S /\ SameScope(a, T) \in SUBSET (SameScope(b, S) \cup {b})
      BY <1>3, <2>1 DEF SameScope
    <3> QED
      BY <1>4, <1>5, <1>6, <3>1
  <2>2. CASE ScopeOf[a] # ScopeOf[b]
    <3>1. /\ SameScope(a, T) \in SUBSET SameScope(a, S) /\ SameScope(a, S) \in SUBSET S
          /\ a \in S
      BY <1>3, <2>2 DEF SameScope
    <3>2. IsFiniteSet(SameScope(a, S))
      BY <1>2, <3>1, FS_Subset
    <3>3. /\ Cardinality(SameScope(a, T)) <= Cardinality(SameScope(a, S))
          /\ Cardinality(SameScope(a, S)) \in Nat /\ Cardinality(SameScope(a, T)) \in Nat
      BY <3>1, <3>2, FS_Subset, FS_CardinalityType
    <3> QED
      BY <1>4, <1>5, <3>1, <3>3
  <2> QED
    BY <2>1, <2>2
<1> QED
  BY <1>7, <1>8 DEF SequencesWithinQuotas, T

\* Reservations that are given back leave tokens.
LEMMA TokensShrink ==
  ASSUME ledger \subseteq Attempts, kv \in [Attempts -> Nat], TokensWithinQuotas,
         ActiveOf(ledger, kv)' \subseteq ActiveOf(ledger, kv),
         \A a \in ActiveOf(ledger, kv)' : kv'[a] = kv[a]
  PROVE  TokensWithinQuotas'
<1> DEFINE S == ActiveOf(ledger, kv)
           T == ActiveOf(ledger', kv')
<1>0. PICK f : f = kv
  OBVIOUS
<1>1. PICK g : g = kv'
  OBVIOUS
<1>2. IsFiniteSet(S) /\ \A a \in S : f[a] \in Nat
  <2>1. S \in SUBSET Attempts
    BY DEF ActiveOf
  <2> QED
    BY <1>0, <2>1, Constants, FS_Subset
<1>3. T \in SUBSET S /\ \A a \in T : g[a] = f[a]
  BY <1>0, <1>1
<1>4. Tokens(S, f) <= KvBudget /\ \A a \in S : Tokens(SameScope(a, S), f) <= MaxKvPerScope
  BY <1>0 DEF TokensWithinQuotas
<1>5. KvBudget \in Nat /\ MaxKvPerScope \in Nat
  BY AdmissionAssumption DEF ValidLimits
<1> HIDE DEF S, T
<1>6. ASSUME NEW U \in SUBSET S, NEW V \in SUBSET U, V \subseteq T, NEW m \in Nat, Tokens(U, f) <= m
      PROVE  Tokens(V, g) <= m
  <2>1. IsFiniteSet(U) /\ IsFiniteSet(V)
    BY <1>2, FS_Subset
  <2>2. (\A a \in U : f[a] \in Nat) /\ (\A a \in V : g[a] = f[a]) /\ \A a \in V : g[a] \in Nat
    BY <1>2, <1>3, <1>6
  <2>3. Tokens(V, g) <= Tokens(U, f)
    BY <2>1, <2>2, TokensOfPart
  <2>4. Tokens(V, g) \in Nat /\ Tokens(U, f) \in Nat
    BY <2>1, <2>2, TokensAdd
  <2> QED
    BY <1>6, <2>3, <2>4
<1>7. Tokens(T, g) <= KvBudget
  BY <1>3, <1>4, <1>5, <1>6
<1>8. ASSUME NEW a \in T PROVE Tokens(SameScope(a, T), g) <= MaxKvPerScope
  <2>1. /\ SameScope(a, S) \in SUBSET S /\ SameScope(a, T) \in SUBSET SameScope(a, S)
        /\ SameScope(a, T) \subseteq T
    BY <1>3 DEF SameScope
  <2> QED
    BY <1>3, <1>4, <1>5, <1>6, <2>1
<1> QED
  BY <1>1, <1>7, <1>8 DEF TokensWithinQuotas, T

\* One more reservation that is charged no more than its estimate.
LEMMA TokensGrow ==
  ASSUME ledger \subseteq Attempts, kv \in [Attempts -> Nat], TokensWithinQuotas,
         NEW b \in Attempts, Room(b),
         ActiveOf(ledger, kv)' \subseteq ActiveOf(ledger, kv) \cup {b},
         \A a \in Attempts \ {b} : kv'[a] = kv[a],
         kv'[b] \in Nat, kv'[b] <= Estimate[b]
  PROVE  TokensWithinQuotas'
<1> DEFINE S == ActiveOf(ledger, kv)
           T == ActiveOf(ledger', kv')
<1>0. PICK f : f = kv
  OBVIOUS
<1>1. PICK g : g = kv'
  OBVIOUS
<1>2. IsFiniteSet(S) /\ S \in SUBSET Attempts /\ \A a \in S : f[a] \in Nat
  <2>1. S \in SUBSET Attempts
    BY DEF ActiveOf
  <2> QED
    BY <1>0, <2>1, Constants, FS_Subset
<1>3. T \in SUBSET (S \cup {b}) /\ g[b] \in Nat /\ \A a \in T \ {b} : g[a] = f[a]
  BY <1>0, <1>1, <1>2
<1>4. \A a \in S : Tokens(SameScope(a, S), f) <= MaxKvPerScope
  BY <1>0 DEF TokensWithinQuotas
<1>5. KvBudget \in Nat /\ MaxKvPerScope \in Nat
  BY AdmissionAssumption DEF ValidLimits
<1>6. PICK n \in Nat : n = Estimate[b]
  BY AdmissionAssumption
<1>7. /\ g[b] <= n /\ Tokens(S, f) + n <= KvBudget
      /\ Tokens(SameScope(b, S), f) + n <= MaxKvPerScope
  BY <1>0, <1>1, <1>6 DEF Room
<1> HIDE DEF S, T
<1>8. Tokens(T, g) <= KvBudget
  BY <1>2, <1>3, <1>5, <1>7, TokensWithOneMore
<1>9. ASSUME NEW a \in T PROVE Tokens(SameScope(a, T), g) <= MaxKvPerScope
  <2>1. CASE ScopeOf[a] = ScopeOf[b]
    <3>1. /\ SameScope(b, S) \in SUBSET S
          /\ SameScope(a, T) \in SUBSET (SameScope(b, S) \cup {b})
          /\ \A x \in SameScope(a, T) \ {b} : g[x] = f[x]
      BY <1>3, <2>1 DEF SameScope
    <3>2. IsFiniteSet(SameScope(b, S)) /\ \A x \in SameScope(b, S) : f[x] \in Nat
      BY <1>2, <3>1, FS_Subset
    <3> QED
      BY <1>3, <1>5, <1>7, <3>1, <3>2, TokensWithOneMore
  <2>2. CASE ScopeOf[a] # ScopeOf[b]
    <3>1. /\ SameScope(a, S) \in SUBSET S /\ SameScope(a, T) \in SUBSET SameScope(a, S)
          /\ a \in S /\ \A x \in SameScope(a, T) : g[x] = f[x]
      BY <1>3, <2>2 DEF SameScope
    <3>2. IsFiniteSet(SameScope(a, S)) /\ IsFiniteSet(SameScope(a, T))
      BY <1>2, <3>1, FS_Subset
    <3>3. (\A x \in SameScope(a, S) : f[x] \in Nat) /\ \A x \in SameScope(a, T) : g[x] \in Nat
      BY <1>2, <3>1
    <3>4. Tokens(SameScope(a, T), g) <= Tokens(SameScope(a, S), f)
      BY <3>1, <3>2, <3>3, TokensOfPart
    <3>5. Tokens(SameScope(a, T), g) \in Nat /\ Tokens(SameScope(a, S), f) \in Nat
      BY <3>2, <3>3, TokensAdd
    <3> QED
      BY <1>4, <1>5, <3>1, <3>4, <3>5
  <2> QED
    BY <2>1, <2>2
<1> QED
  BY <1>1, <1>8, <1>9 DEF TokensWithinQuotas, T

\* The ledger and what it charges change in three ways: an admission, an
\* activation and a release.
LEMMA CountStep ==
  ASSUME BaseInv, Quotas, RoomInv, [Next]_vars
  PROVE  Quotas' /\ RoomInv'
<1> USE DEF clientVars, clockVars, entryVars, dequeVars, ledgerVars, loopVars
<1>0. /\ TypeOK /\ LoopInv /\ ledger \subseteq Attempts /\ kv \in [Attempts -> Nat]
      /\ entries \subseteq Attempts
  BY DEF BaseInv, TypeOK
<1>a. ValidLimits
  BY AdmissionAssumption
<1>b. ASSUME ActiveOf(ledger, kv)' = ActiveOf(ledger, kv), kv' = kv,
             \A b \in Attempts \ ledger' : kv'[b] = 0,
             loop' = "opening" => loop = "opening" /\ batch' = batch
      PROVE  Quotas' /\ RoomInv'
  <2>1. Quotas'
    BY <1>0, <1>a, <1>b, CountShrinks, TokensShrink DEF Quotas
  <2>2. RoomInv'
    BY <1>b DEF RoomInv, Room
  <2> QED
    BY <2>1, <2>2
<1>1. ASSUME NEW a \in Attempts, Infer(a) PROVE Quotas' /\ RoomInv'
  <2>1. ledger' = ledger \cup {a} /\ kv' = kv /\ batch' = batch /\ (loop' = "opening" => loop = "opening")
    BY <1>1 DEF Infer, NotifyAll
  <2>2. a \notin ledger => kv[a] = 0
    BY DEF RoomInv
  <2>3. ActiveOf(ledger, kv)' = ActiveOf(ledger, kv)
    BY <1>0, <2>1, <2>2 DEF ActiveOf
  <2> QED
    BY <1>b, <2>1, <2>3 DEF RoomInv
<1>2. ASSUME NEW a \in Attempts, InferReturn(a) \/ Cancel(a) \/ DeadlinePasses(a)
      PROVE  Quotas' /\ RoomInv'
  <2>1. ledger' = ledger /\ kv' = kv /\ batch' = batch /\ (loop' = "opening" => loop = "opening")
    BY <1>2 DEF InferReturn, Cancel, DeadlinePasses, NotifyAll
  <2> QED
    BY <1>b, <2>1 DEF RoomInv, ActiveOf
<1>3. CASE \/ Start \/ Shutdown \/ Boundaries \/ OpenFails \/ StartDecode \/ StartPrefill
           \/ NoBatch \/ BatchFails \/ PrefillEnds \/ DecodeEnds \/ SettleEntry
           \/ Idle \/ WaitTimesOut \/ FailAll \/ Stop \/ Crash \/ CrashTaking \/ CrashSettling
           \/ UNCHANGED vars
  <2>1. ledger' = ledger /\ kv' = kv
    BY <1>3 DEF Start, Shutdown, Boundaries, OpenFails, StartDecode, StartPrefill,
                NoBatch, BatchFails, PrefillEnds, DecodeEnds, SettleEntry, Idle, WaitTimesOut,
                FailAll, Stop, Crash, CrashTaking, CrashSettling, vars
  <2>2. loop' = "opening" => loop = "opening" /\ batch' = batch
    <3>1. CASE Start \/ Shutdown \/ Boundaries \/ OpenFails \/ UNCHANGED vars
      BY <3>1 DEF Start, Shutdown, Boundaries, OpenFails, NotifyAll, vars
    <3>2. CASE StartDecode \/ StartPrefill \/ NoBatch
      BY <3>2 DEF StartDecode, StartPrefill, NoBatch
    <3>3. CASE BatchFails \/ PrefillEnds \/ DecodeEnds
      BY <3>3 DEF BatchFails, PrefillEnds, DecodeEnds, AfterBatch
    <3>4. CASE SettleEntry \/ Idle \/ WaitTimesOut \/ FailAll \/ Stop
      BY <3>4 DEF SettleEntry, Idle, WaitTimesOut, FailAll, Stop
    <3>5. CASE Crash \/ CrashTaking \/ CrashSettling
      BY <1>0, <3>5, CrashEffect DEF Crashes
    <3> QED
      BY <1>3, <3>1, <3>2, <3>3, <3>4, <3>5
  <2> QED
    BY <1>b, <2>1, <2>2 DEF RoomInv, ActiveOf
<1>4. CASE OpenOne
  <2>1. ledger' = ledger /\ kv' = kv
    BY <1>4 DEF OpenOne
  <2>2. Quotas'
    BY <1>0, <1>a, <2>1, CountShrinks, TokensShrink DEF ActiveOf, Quotas
  <2>3. CASE loop' = "choose"
    BY <1>b, <2>1, <2>3 DEF RoomInv, ActiveOf
  <2>4. CASE \E a \in entries : Openable(a) /\ batch' = <<a>>
    <3>1. PICK a \in entries : Openable(a) /\ batch' = <<a>>
      BY <2>4
    <3>2. Room(a)
      BY <3>1 DEF Openable, CanActivate, Room
    <3>3. batch'[1] = a
      BY <3>1
    <3>4. RoomInv'
      BY <2>1, <3>2, <3>3 DEF RoomInv, Room
    <3> QED
      BY <2>2, <3>4
  <2> QED
    BY <1>4, <2>3, <2>4 DEF OpenOne
<1>5. CASE OpenSucceeds \/ CrashOpening
  <2>1. batch[1] \in Attempts /\ loop = "opening" /\ ledger' = ledger /\ loop' # "opening"
    <3>1. CASE OpenSucceeds
      BY <1>0, <3>1, Opening, OpenCases DEF OpenSucceeds, OpenedThenReleased, OpenedThenQueued
    <3>2. CASE CrashOpening
      BY <1>0, <3>2, Opening DEF CrashOpening
    <3> QED
      BY <1>5, <3>1, <3>2
  <2>2. \/ kv' = kv
        \/ \E actual \in 1 .. Estimate[batch[1]] :
             /\ ActivateAccepts(ledger, kv, batch[1], actual)
             /\ kv' = [kv EXCEPT ![batch[1]] = actual]
    <3>1. CASE OpenSucceeds
      BY <3>1, OpenCases DEF OpenedThenReleased, OpenedThenQueued
    <3>2. CASE CrashOpening
      BY <3>2 DEF CrashOpening, Activates
    <3> QED
      BY <1>5, <3>1, <3>2
  <2>3. \A b \in Attempts : b # batch[1] => kv'[b] = kv[b]
    BY <1>0, <2>1, <2>2
  <2>4. kv' = kv \/ batch[1] \in ledger
    BY <2>2 DEF ActivateAccepts, PendingOf
  <2>5. ActiveOf(ledger, kv)' \subseteq ActiveOf(ledger, kv) \cup {batch[1]}
    BY <1>0, <2>1, <2>3 DEF ActiveOf
  <2>6. Room(batch[1])
    BY <2>1 DEF RoomInv
  <2>7. SequencesWithinQuotas'
    BY <1>0, <1>a, <2>1, <2>5, <2>6, CountGrows DEF Room, Quotas
  <2>8. TokensWithinQuotas'
    <3>1. CASE kv' = kv
      <4>1. ActiveOf(ledger, kv)' = ActiveOf(ledger, kv)
        BY <2>1, <3>1
      <4> QED
        BY <1>0, <3>1, <4>1, TokensShrink DEF Quotas
    <3>2. CASE \E actual \in 1 .. Estimate[batch[1]] : kv' = [kv EXCEPT ![batch[1]] = actual]
      <4>1. Estimate[batch[1]] \in Nat
        BY <2>1, AdmissionAssumption
      <4>2. kv'[batch[1]] \in Nat /\ kv'[batch[1]] <= Estimate[batch[1]]
        BY <1>0, <2>1, <3>2, <4>1
      <4> QED
        BY <1>0, <2>1, <2>3, <2>5, <2>6, <4>2, TokensGrow DEF Quotas
    <3> QED
      BY <2>2, <3>1, <3>2
  <2>9. RoomInv'
    BY <2>1, <2>3, <2>4 DEF RoomInv
  <2> QED
    BY <2>7, <2>8, <2>9 DEF Quotas
<1>6. CASE ReleaseEntry
  <2>1. todo[1].entry \in Attempts /\ Head(todo) = todo[1]
    BY <1>0, <1>6, Releasing DEF ReleaseEntry
  <2>2. \/ ledger' = ledger /\ kv' = kv
        \/ ledger' = ledger \ {todo[1].entry} /\ kv' = [kv EXCEPT ![todo[1].entry] = 0]
    BY <1>6, <2>1 DEF ReleaseEntry
  <2>3. ActiveOf(ledger, kv)' \subseteq ActiveOf(ledger, kv)
    BY <1>0, <2>1, <2>2 DEF ActiveOf
  <2>4. Quotas'
    BY <1>0, <1>a, <2>2, <2>3, CountShrinks, TokensShrink DEF Quotas, ActiveOf
  <2>5. loop' # "opening"
    BY <1>6 DEF ReleaseEntry
  <2>6. RoomInv'
    BY <1>0, <2>1, <2>2, <2>5 DEF RoomInv
  <2> QED
    BY <2>4, <2>6
<1> QED
  BY <1>1, <1>2, <1>3, <1>4, <1>5, <1>6 DEF Next, ClientStep, SchedulerStep, Crashes

\* What the requests hold never exceeds the quotas, in sequences and in
\* tokens, overall and in every scope: the room that can_activate() found for
\* the estimate is still there when the backend has opened the sequence and
\* activate() charges it for what the backend reserved.
THEOREM QuotasAreKept == Spec => []QuotasHold
<1>1. Init => Quotas /\ RoomInv
  <2> SUFFICES ASSUME Init PROVE Quotas /\ RoomInv
    OBVIOUS
  <2>1. ActiveOf(ledger, kv) = {}
    BY DEF Init, ActiveOf
  <2>2. Cardinality(ActiveOf(ledger, kv)) = 0 /\ Tokens(ActiveOf(ledger, kv), kv) = 0
    BY <2>1, FS_EmptySet, TokensOfNone
  <2>3. MaxSequences \in Nat /\ KvBudget \in Nat
    BY AdmissionAssumption DEF ValidLimits
  <2> QED
    BY <2>1, <2>2, <2>3 DEF Init, Quotas, SequencesWithinQuotas, TokensWithinQuotas, RoomInv
<1>2. BaseInv /\ (Quotas /\ RoomInv) /\ [Next]_vars => (Quotas /\ RoomInv)'
  BY CountStep
<1>3. BaseInv /\ Quotas => QuotasHold
  BY DEF BaseInv, Quotas, SequencesWithinQuotas, TokensWithinQuotas, QuotasHold, WithinQuotas
<1> QED
  BY <1>1, <1>2, <1>3, BaseInvariant, PTL DEF Spec
==============================================================================
