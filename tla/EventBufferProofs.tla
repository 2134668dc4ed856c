-------------------------- MODULE EventBufferProofs --------------------------
(***************************************************************************)
(* Proofs that the stream of a request is in order and without holes, and  *)
(* that the books of the buffer are right, for every size of the buffer    *)
(* and every number of events.                                             *)
(***************************************************************************)
EXTENDS EventBuffer, FiniteSetTheorems, WellFoundedInduction, TLAPS

\* The types, without the sign of the byte count: that it never falls below
\* zero follows from its being a sum (Books).
StreamType ==
  /\ events \in Seq(Event) /\ sent \in Seq(Event) /\ written \in Seq(Event)
  /\ queuedBytes \in Int /\ nextSequence \in Nat /\ emitted \in Nat
  /\ closed \in BOOLEAN /\ slow \in BOOLEAN /\ cancel \in BOOLEAN
  /\ producer \in {"run", "result", "failed", "slow_consumer", "crashed"}
  /\ life \in TERMINAL \cup {"RUNNING"}
  /\ reader \in {"check", "get", "drain", "done", "gone"}

\* Numbers ascend along q.
Ascending(q) == \A i, j \in DOMAIN q : i < j => q[i].sequence < q[j].sequence

\* What was written is older than what is queued, and all of it is emitted.
OrderInv ==
  /\ Ascending(written) /\ Ascending(events)
  /\ \A x \in Range(written), y \in Range(events) : x.sequence < y.sequence
  /\ \A x \in Range(written) \cup Range(events) \cup Range(sent) : x.sequence < emitted
  /\ \A x \in Range(sent) : x.type \notin Telemetry

\* Until the consumer is slow or gone or the buffer closed, nothing essential
\* is lost.
KeepInv ==
  /\ ~slow /\ ~closed /\ reader # "gone" => Range(sent) \subseteq Kept
  /\ closed => life \in TERMINAL

\* An execution that ended with a result has lost nothing, as long as nobody
\* gave up on it before.
WholeInv ==
  /\ producer = "result" => ~slow
  /\ producer = "result" /\ life \in {"RUNNING", "COMPLETED"} /\ reader # "gone"
       => Range(sent) \subseteq Kept
  /\ life = "COMPLETED" => producer = "result"
  /\ reader \in {"drain", "done"} => life \in TERMINAL
  /\ life = "COMPLETED" /\ reader = "done" => events = <<>>

IInv == StreamType /\ OrderInv /\ NoHoles /\ CountsEveryEvent /\ KeepInv /\ WholeInv

-----------------------------------------------------------------------------
(***************************************************************************)
(* Sequences.                                                              *)
(***************************************************************************)

\* Append adds one element behind all others.
LEMMA AppendPoints ==
  ASSUME NEW S, NEW q \in Seq(S), NEW e \in S
  PROVE  /\ Append(q, e) \in Seq(S)
         /\ DOMAIN Append(q, e) = 1 .. Len(q) + 1 /\ DOMAIN q = 1 .. Len(q)
         /\ \A i \in DOMAIN q : Append(q, e)[i] = q[i]
         /\ Append(q, e)[Len(q) + 1] = e
         /\ Range(Append(q, e)) = Range(q) \cup {e}
<1>1. /\ Append(q, e) \in Seq(S) /\ Len(Append(q, e)) = Len(q) + 1
      /\ DOMAIN Append(q, e) = 1 .. Len(q) + 1 /\ DOMAIN q = 1 .. Len(q)
      /\ \A i \in DOMAIN q : Append(q, e)[i] = q[i]
      /\ Append(q, e)[Len(q) + 1] = e
  OBVIOUS
<1>2. Range(Append(q, e)) = Range(q) \cup {e}
  <2>1. Len(q) \in Nat
    OBVIOUS
  <2> QED BY <1>1, <2>1 DEF Range
<1> QED BY <1>1, <1>2

\* Concatenation keeps both parts.
LEMMA ConcatPoints ==
  ASSUME NEW S, NEW p \in Seq(S), NEW q \in Seq(S)
  PROVE  /\ p \o q \in Seq(S) /\ Len(p \o q) = Len(p) + Len(q)
         /\ DOMAIN (p \o q) = 1 .. Len(p) + Len(q)
         /\ DOMAIN p = 1 .. Len(p) /\ DOMAIN q = 1 .. Len(q)
         /\ \A k \in 1 .. Len(p) : (p \o q)[k] = p[k]
         /\ \A k \in 1 .. Len(q) : (p \o q)[Len(p) + k] = q[k]
         /\ Range(p \o q) = Range(p) \cup Range(q)
<1>1. /\ p \o q \in Seq(S) /\ Len(p \o q) = Len(p) + Len(q)
      /\ DOMAIN p = 1 .. Len(p) /\ DOMAIN q = 1 .. Len(q)
      /\ DOMAIN (p \o q) = 1 .. Len(p) + Len(q)
      /\ Len(p) \in Nat /\ Len(q) \in Nat
  OBVIOUS
<1>2. \A k \in 1 .. Len(p) : (p \o q)[k] = p[k]
  OBVIOUS
<1>3. \A k \in 1 .. Len(q) : (p \o q)[Len(p) + k] = q[k]
  OBVIOUS
<1>4. Range(p \o q) \subseteq Range(p) \cup Range(q)
  <2> SUFFICES ASSUME NEW k \in 1 .. Len(p) + Len(q)
               PROVE  (p \o q)[k] \in Range(p) \cup Range(q)
    BY <1>1 DEF Range
  <2>1. CASE k <= Len(p)
    BY <1>1, <1>2, <2>1 DEF Range
  <2>2. CASE k > Len(p)
    <3>1. k - Len(p) \in 1 .. Len(q) /\ Len(p) + (k - Len(p)) = k
      BY <1>1, <2>2
    <3>2. (p \o q)[k] = q[k - Len(p)]
      BY <1>3, <3>1
    <3> QED BY <1>1, <3>1, <3>2 DEF Range
  <2> QED BY <1>1, <2>1, <2>2
<1>5. Range(p) \cup Range(q) \subseteq Range(p \o q)
  <2>1. ASSUME NEW k \in 1 .. Len(q) PROVE Len(p) + k \in 1 .. Len(p) + Len(q)
    BY <1>1
  <2>2. ASSUME NEW k \in 1 .. Len(p) PROVE k \in 1 .. Len(p) + Len(q)
    BY <1>1
  <2> QED BY <1>1, <1>2, <1>3, <2>1, <2>2 DEF Range
<1> QED BY <1>1, <1>2, <1>3, <1>4, <1>5

\* RemoveAt closes the gap.
LEMMA RemovePoints ==
  ASSUME NEW S, NEW q \in Seq(S), NEW i \in DOMAIN q
  PROVE  /\ RemoveAt(q, i) \in Seq(S)
         /\ DOMAIN RemoveAt(q, i) = 1 .. Len(q) - 1
         /\ \A k \in 1 .. Len(q) - 1 : RemoveAt(q, i)[k] = IF k < i THEN q[k] ELSE q[k + 1]
         /\ Range(RemoveAt(q, i)) \subseteq Range(q)
         /\ Range(q) \subseteq Range(RemoveAt(q, i)) \cup {q[i]}
<1>1. /\ i \in 1 .. Len(q) /\ Len(q) \in Nat
      /\ DOMAIN q = 1 .. Len(q)
  OBVIOUS
<1> DEFINE a == SubSeq(q, 1, i - 1)
           b == SubSeq(q, i + 1, Len(q))
<1>2. /\ a \in Seq(S) /\ Len(a) = i - 1 /\ \A k \in 1 .. i - 1 : a[k] = q[k]
  BY <1>1
<1>3. /\ b \in Seq(S) /\ Len(b) = Len(q) - i /\ \A k \in 1 .. Len(q) - i : b[k] = q[i + k]
  BY <1>1
<1>4. RemoveAt(q, i) = a \o b
  BY DEF RemoveAt
<1> HIDE DEF a, b
<1>5. /\ a \o b \in Seq(S) /\ Len(a \o b) = Len(q) - 1
      /\ \A k \in 1 .. Len(q) - 1 : (a \o b)[k] = IF k < i THEN q[k] ELSE q[k + 1]
  <2>0. /\ a \o b \in Seq(S) /\ Len(a \o b) = Len(a) + Len(b)
        /\ \A k \in 1 .. Len(a) : (a \o b)[k] = a[k]
        /\ \A k \in 1 .. Len(b) : (a \o b)[Len(a) + k] = b[k]
    BY <1>2, <1>3, ConcatPoints, SMTT(30)
  <2>1. a \o b \in Seq(S) /\ Len(a \o b) = Len(q) - 1
    BY <1>1, <1>2, <1>3, <2>0
  <2>2. ASSUME NEW k \in 1 .. Len(q) - 1, k < i PROVE (a \o b)[k] = q[k]
    <3>1. k \in 1 .. Len(a) /\ k \in 1 .. i - 1
      BY <1>1, <1>2, <2>2
    <3>2. (a \o b)[k] = a[k]
      BY <2>0, <3>1
    <3> QED BY <1>2, <3>1, <3>2
  <2>3. ASSUME NEW k \in 1 .. Len(q) - 1, ~(k < i) PROVE (a \o b)[k] = q[k + 1]
    <3> DEFINE m == k - (i - 1)
    <3>1. m \in 1 .. Len(b) /\ m \in 1 .. Len(q) - i /\ Len(a) + m = k /\ i + m = k + 1
      BY <1>1, <1>2, <1>3, <2>3
    <3> HIDE DEF m
    <3>2. (a \o b)[Len(a) + m] = b[m]
      BY <2>0, <3>1
    <3> QED BY <1>3, <3>1, <3>2
  <2> QED BY <2>1, <2>2, <2>3
<1>6. DOMAIN (a \o b) = 1 .. Len(q) - 1
  BY <1>5
<1>7. Range(a \o b) \subseteq Range(q)
  <2>1. ASSUME NEW k \in 1 .. Len(q) - 1
        PROVE  k \in 1 .. Len(q) /\ k + 1 \in 1 .. Len(q)
    BY <1>1
  <2>2. ASSUME NEW k \in 1 .. Len(q) - 1 PROVE (a \o b)[k] \in Range(q)
    BY <1>1, <1>5, <2>1 DEF Range
  <2> QED BY <1>6, <2>2 DEF Range
<1>8. Range(q) \subseteq Range(a \o b) \cup {q[i]}
  <2> SUFFICES ASSUME NEW k \in 1 .. Len(q), k # i
               PROVE  q[k] \in Range(a \o b)
    BY <1>1 DEF Range
  <2>1. CASE k < i
    <3>1. k \in 1 .. Len(q) - 1 /\ (a \o b)[k] = q[k]
      BY <1>1, <1>5, <2>1
    <3> QED BY <3>1, <1>6 DEF Range
  <2>2. CASE k > i
    <3>1. k - 1 \in 1 .. Len(q) - 1 /\ ~(k - 1 < i) /\ (k - 1) + 1 = k
      BY <1>1, <2>2
    <3>2. (a \o b)[k - 1] = q[k]
      BY <1>5, <3>1
    <3> QED BY <3>1, <3>2, <1>6 DEF Range
  <2> QED BY <1>1, <2>1, <2>2
<1> QED BY <1>4, <1>5, <1>6, <1>7, <1>8

\* Tail drops the head.
LEMMA TailPoints ==
  ASSUME NEW S, NEW q \in Seq(S), q # <<>>
  PROVE  /\ Tail(q) \in Seq(S) /\ Head(q) \in S /\ Head(q) = q[1] /\ 1 \in DOMAIN q
         /\ DOMAIN Tail(q) = 1 .. Len(q) - 1 /\ DOMAIN q = 1 .. Len(q)
         /\ \A k \in 1 .. Len(q) - 1 : Tail(q)[k] = q[k + 1]
         /\ Range(q) = Range(Tail(q)) \cup {Head(q)}
<1>1. /\ Len(q) \in Nat \ {0} /\ Tail(q) \in Seq(S) /\ Head(q) = q[1]
      /\ DOMAIN q = 1 .. Len(q) /\ Len(Tail(q)) = Len(q) - 1
      /\ \A k \in 1 .. Len(q) - 1 : Tail(q)[k] = q[k + 1]
  OBVIOUS
<1>2. /\ DOMAIN Tail(q) = 1 .. Len(q) - 1 /\ 1 \in DOMAIN q /\ Head(q) \in S
  BY <1>1
<1>3. Range(q) \subseteq Range(Tail(q)) \cup {Head(q)}
  <2> SUFFICES ASSUME NEW k \in 1 .. Len(q), k # 1
               PROVE  q[k] \in Range(Tail(q))
    BY <1>1 DEF Range
  <2>1. k - 1 \in 1 .. Len(q) - 1 /\ (k - 1) + 1 = k
    BY <1>1
  <2>2. Tail(q)[k - 1] = q[k]
    BY <1>1, <2>1
  <2> QED BY <2>1, <2>2, <1>2 DEF Range
<1>4. Range(Tail(q)) \cup {Head(q)} \subseteq Range(q)
  <2>1. ASSUME NEW k \in 1 .. Len(q) - 1 PROVE Tail(q)[k] \in Range(q)
    <3>1. k + 1 \in 1 .. Len(q)
      BY <1>1
    <3> QED BY <1>1, <3>1 DEF Range
  <2> QED BY <1>1, <1>2, <2>1 DEF Range
<1> QED BY <1>1, <1>2, <1>3, <1>4

\* Removing an element leaves the rest in order.
LEMMA RemoveAscending ==
  ASSUME NEW q \in Seq(Event), Ascending(q), NEW i \in DOMAIN q
  PROVE  Ascending(RemoveAt(q, i))
<1> DEFINE r == RemoveAt(q, i)
<1>1. /\ DOMAIN r = 1 .. Len(q) - 1 /\ DOMAIN q = 1 .. Len(q) /\ Len(q) \in Nat
      /\ \A k \in 1 .. Len(q) - 1 : r[k] = IF k < i THEN q[k] ELSE q[k + 1]
  BY RemovePoints
<1> HIDE DEF r
<1> SUFFICES ASSUME NEW k \in DOMAIN r, NEW m \in DOMAIN r, k < m
             PROVE  r[k].sequence < r[m].sequence
  BY DEF Ascending, r
<1> DEFINE f(n) == IF n < i THEN n ELSE n + 1
<1>2. f(k) \in DOMAIN q /\ f(m) \in DOMAIN q /\ f(k) < f(m)
  BY <1>1
<1>3. r[k] = q[f(k)] /\ r[m] = q[f(m)]
  BY <1>1
<1> HIDE DEF f
<1> QED BY <1>2, <1>3 DEF Ascending

\* The head comes first, the tail is in order.
LEMMA TailAscending ==
  ASSUME NEW q \in Seq(Event), Ascending(q), q # <<>>
  PROVE  /\ Ascending(Tail(q))
         /\ \A x \in Range(Tail(q)) : Head(q).sequence < x.sequence
<1>1. /\ Head(q) = q[1] /\ 1 \in DOMAIN q /\ Len(q) \in Nat
      /\ DOMAIN Tail(q) = 1 .. Len(q) - 1 /\ DOMAIN q = 1 .. Len(q)
      /\ \A k \in 1 .. Len(q) - 1 : Tail(q)[k] = q[k + 1]
  BY TailPoints
<1>2. ASSUME NEW k \in DOMAIN Tail(q)
      PROVE  k + 1 \in DOMAIN q /\ 1 < k + 1 /\ Tail(q)[k] = q[k + 1]
  BY <1>1
<1>3. \A x \in Range(Tail(q)) : Head(q).sequence < x.sequence
  BY <1>1, <1>2 DEF Range, Ascending
<1>4. Ascending(Tail(q))
  <2> SUFFICES ASSUME NEW k \in DOMAIN Tail(q), NEW m \in DOMAIN Tail(q), k < m
               PROVE  Tail(q)[k].sequence < Tail(q)[m].sequence
    BY DEF Ascending
  <2>1. k + 1 < m + 1
    BY <1>1
  <2> QED BY <1>2, <2>1 DEF Ascending
<1> QED BY <1>3, <1>4

\* Appending a newer event keeps the order.
LEMMA AppendAscending ==
  ASSUME NEW q \in Seq(Event), Ascending(q), NEW e \in Event,
         \A x \in Range(q) : x.sequence < e.sequence
  PROVE  Ascending(Append(q, e))
<1> DEFINE r == Append(q, e)
<1>1. /\ DOMAIN r = 1 .. Len(q) + 1 /\ DOMAIN q = 1 .. Len(q) /\ Len(q) \in Nat
      /\ \A k \in DOMAIN q : r[k] = q[k]
      /\ r[Len(q) + 1] = e
  BY AppendPoints
<1> HIDE DEF r
<1> SUFFICES ASSUME NEW k \in DOMAIN r, NEW m \in DOMAIN r, k < m
             PROVE  r[k].sequence < r[m].sequence
  BY DEF Ascending, r
<1>2. k \in DOMAIN q /\ r[k] = q[k]
  BY <1>1
<1>3. CASE m = Len(q) + 1
  BY <1>1, <1>2, <1>3 DEF Range
<1>4. CASE m # Len(q) + 1
  <2>1. m \in DOMAIN q /\ r[m] = q[m]
    BY <1>1, <1>4
  <2> QED BY <1>2, <2>1 DEF Ascending
<1> QED BY <1>3, <1>4

\* The size of an event is a number.
LEMMA EventSize ==
  ASSUME NEW e \in Event
  PROVE  e.size \in Int /\ e.sequence \in Nat
<1>1. e.size \in Sizes /\ e.sequence \in Nat
  BY DEF Event
<1>2. \A n \in Sizes : n \in Int
  BY BufferAssumption
<1> QED BY <1>1, <1>2

\* _remove_older_telemetry takes telemetry only.
LEMMA OlderRemoved ==
  ASSUME StreamType, OrderInv, NEW e \in Event, NEW i \in Older(e)
  PROVE  /\ i \in DOMAIN events /\ events[i].size \in Int
         /\ RemoveAt(events, i) \in Seq(Event) /\ Ascending(RemoveAt(events, i))
         /\ Range(RemoveAt(events, i)) \subseteq Range(events)
         /\ \A x \in Range(events) :
              x.type \notin Telemetry => x \in Range(RemoveAt(events, i))
<1>1. i \in DOMAIN events /\ events \in Seq(Event) /\ events[i].type \in Telemetry
  BY DEF Older, StreamType
<1>2. events[i] \in Event
  BY <1>1
<1>3. events[i].size \in Int
  BY <1>2, EventSize
<1>4. /\ RemoveAt(events, i) \in Seq(Event)
      /\ Range(RemoveAt(events, i)) \subseteq Range(events)
      /\ Range(events) \subseteq Range(RemoveAt(events, i)) \cup {events[i]}
  BY <1>1, RemovePoints
<1>5. Ascending(RemoveAt(events, i))
  BY <1>1, RemoveAscending DEF OrderInv
<1> QED BY <1>1, <1>3, <1>4, <1>5

\* What publish() may do to the deque when it takes the event e.
Took(e) ==
  /\ events' \in Seq(Event) /\ queuedBytes' \in Int /\ Ascending(events')
  /\ Range(events') \subseteq Range(events) \cup {e}
  /\ \A x \in Range(events) : x.type \notin Telemetry => x \in Range(events')

\* An event that fits goes in, and only telemetry goes out.
LEMMA EnqueueTakes ==
  ASSUME StreamType, OrderInv, NEW e \in Event, e.sequence = emitted, Enqueue(e)
  PROVE  Took(e) /\ e \in Range(events')
<1>1. e.size \in Int
  BY EventSize
<1>2. events \in Seq(Event) /\ queuedBytes \in Int /\ Ascending(events)
  BY DEF StreamType, OrderInv
<1>3. \A x \in Range(events) : x.sequence < e.sequence
  BY DEF OrderInv
<1>4. CASE Older(e) = {}
  <2>1. events' = Append(events, e) /\ queuedBytes' = queuedBytes + e.size
    BY <1>4 DEF Enqueue
  <2>2. /\ Append(events, e) \in Seq(Event)
        /\ Range(Append(events, e)) = Range(events) \cup {e}
    BY <1>2, AppendPoints
  <2>3. Ascending(Append(events, e))
    BY <1>2, <1>3, AppendAscending
  <2> QED BY <1>1, <1>2, <2>1, <2>2, <2>3 DEF Took
<1>5. CASE Older(e) # {}
  <2>1. PICK i \in Older(e) :
          /\ events' = Append(RemoveAt(events, i), e)
          /\ queuedBytes' = (queuedBytes - events[i].size) + e.size
    BY <1>5 DEF Enqueue
  <2>2. /\ events[i].size \in Int
        /\ RemoveAt(events, i) \in Seq(Event) /\ Ascending(RemoveAt(events, i))
        /\ Range(RemoveAt(events, i)) \subseteq Range(events)
        /\ \A x \in Range(events) :
             x.type \notin Telemetry => x \in Range(RemoveAt(events, i))
    BY OlderRemoved
  <2>3. PICK r \in Seq(Event) : r = RemoveAt(events, i)
    BY <2>2
  <2>4. Append(r, e) \in Seq(Event) /\ Range(Append(r, e)) = Range(r) \cup {e}
    BY AppendPoints
  <2>5. Ascending(Append(r, e))
    BY <1>3, <2>2, <2>3, AppendAscending
  <2> QED BY <1>1, <1>2, <2>1, <2>2, <2>3, <2>4, <2>5 DEF Took
<1> QED BY <1>4, <1>5

\* One that does not fit is telemetry, or makes the consumer a slow one.
LEMMA OverflowTakes ==
  ASSUME StreamType, OrderInv, NEW e \in Event, Overflow(e)
  PROVE  /\ Took(e) /\ Range(events') \subseteq Range(events)
         /\ slow' \in BOOLEAN /\ cancel' \in BOOLEAN
         /\ slow => slow'
         /\ e.type \notin Telemetry => slow'
<1>1. events \in Seq(Event) /\ queuedBytes \in Int /\ Ascending(events)
      /\ slow \in BOOLEAN /\ cancel \in BOOLEAN
  BY DEF StreamType, OrderInv
<1>2. CASE e.type \in Telemetry /\ Older(e) # {}
  <2>1. PICK i \in Older(e) :
          events' = RemoveAt(events, i) /\ queuedBytes' = queuedBytes - events[i].size
    BY <1>2 DEF Overflow
  <2>2. slow' = slow /\ cancel' = cancel
    BY <1>2 DEF Overflow
  <2>3. /\ events[i].size \in Int
        /\ RemoveAt(events, i) \in Seq(Event) /\ Ascending(RemoveAt(events, i))
        /\ Range(RemoveAt(events, i)) \subseteq Range(events)
        /\ \A x \in Range(events) :
             x.type \notin Telemetry => x \in Range(RemoveAt(events, i))
    BY OlderRemoved
  <2> QED BY <1>1, <1>2, <2>1, <2>2, <2>3 DEF Took
<1>3. CASE ~(e.type \in Telemetry /\ Older(e) # {})
  <2>1. events' = events /\ queuedBytes' = queuedBytes
    BY <1>3 DEF Overflow
  <2>2. /\ slow' \in BOOLEAN /\ cancel' \in BOOLEAN
        /\ slow => slow'
        /\ e.type \notin Telemetry => slow'
    BY <1>1, <1>3 DEF Overflow
  <2> QED BY <1>1, <2>1, <2>2 DEF Took
<1> QED BY <1>2, <1>3

-----------------------------------------------------------------------------
(***************************************************************************)
(* The actions.                                                            *)
(***************************************************************************)

\* What is common to the ways publish() ends: the event e is queued or not,
\* only telemetry leaves the deque, and an essential event that is not queued
\* leaves the consumer slow or the buffer closed.
LEMMA PublishedInv ==
  ASSUME IInv, NEW e \in Event, e.sequence = emitted, Took(e),
         written' = written, life' = life, reader' = reader, closed' = closed,
         producer = "run", producer' \in {"run", "crashed"}, emitted' = emitted + 1,
         sent' = (IF e.type \in Telemetry THEN sent ELSE Append(sent, e)),
         slow' \in BOOLEAN, cancel' \in BOOLEAN, slow => slow',
         nextSequence' \in Nat, ~closed => nextSequence' = emitted',
         e \in Range(events') => ~slow /\ ~closed,
         e.type \notin Telemetry /\ ~slow' /\ ~closed => e \in Range(events')
  PROVE  IInv'
<1> USE DEF IInv
<1>1. /\ sent' \in Seq(Event)
      /\ Range(sent') = Range(sent) \cup (IF e.type \in Telemetry THEN {} ELSE {e})
  <2>1. sent \in Seq(Event)
    BY DEF StreamType
  <2>2. /\ Append(sent, e) \in Seq(Event)
        /\ Range(Append(sent, e)) = Range(sent) \cup {e}
    BY <2>1, AppendPoints
  <2> QED BY <2>1, <2>2
<1>2. StreamType'
  BY <1>1 DEF StreamType, Took
<1>3. emitted \in Nat /\ Range(events') \subseteq Range(events) \cup {e}
  BY DEF StreamType, Took
<1>4. \A x \in Range(written) \cup Range(events) \cup Range(sent) :
        x.sequence < emitted /\ x.sequence \in Nat
  <2>1. written \in Seq(Event) /\ events \in Seq(Event) /\ sent \in Seq(Event)
    BY DEF StreamType
  <2>2. \A x \in Range(written) \cup Range(events) \cup Range(sent) : x \in Event
    BY <2>1 DEF Range
  <2> QED BY <2>2, EventSize DEF OrderInv
<1>5. OrderInv'
  <2>1. Ascending(written)' /\ Ascending(events)'
    BY DEF OrderInv, Took, Ascending
  <2>2. \A x \in Range(written'), y \in Range(events') : x.sequence < y.sequence
    BY <1>3, <1>4 DEF OrderInv
  <2>3. \A x \in Range(written') \cup Range(events') \cup Range(sent') : x.sequence < emitted'
    BY <1>1, <1>3, <1>4
  <2>4. \A x \in Range(sent') : x.type \notin Telemetry
    BY <1>1 DEF OrderInv
  <2> QED BY <2>1, <2>2, <2>3, <2>4 DEF OrderInv
<1>6. /\ \A x \in Kept' : x \in Kept \/ x = e
      /\ \A x \in Kept : x.type \notin Telemetry => x \in Kept'
      /\ e \notin Kept
      /\ e \in Kept' => e \in Range(events') /\ reader # "gone"
  <2>1. e \notin Kept
    BY <1>3, <1>4 DEF Kept
  <2> QED BY <1>3, <2>1 DEF Kept, Took
<1>7. NoHoles'
  <2> SUFFICES ASSUME NEW k \in Kept'
               PROVE  /\ k.type \notin Telemetry => k \in Range(sent')
                      /\ \A x \in Range(sent') : x.sequence <= k.sequence => x \in Kept'
    BY DEF NoHoles
  <2>1. k.type \notin Telemetry => k \in Range(sent')
    BY <1>1, <1>6 DEF NoHoles
  <2>2. ASSUME NEW x \in Range(sent), x.sequence <= k.sequence PROVE x \in Kept'
    <3>1. x.type \notin Telemetry
      BY DEF OrderInv
    <3>2. CASE k \in Kept
      BY <1>6, <2>2, <3>1, <3>2 DEF NoHoles
    <3>3. CASE k = e
      <4>1. ~slow /\ ~closed /\ reader # "gone"
        BY <1>6, <3>3
      <4> QED BY <1>6, <3>1, <4>1 DEF KeepInv
    <3> QED BY <1>6, <3>2, <3>3
  <2>3. ASSUME e.sequence <= k.sequence PROVE e \in Kept'
    BY <1>3, <1>4, <1>6, <2>3 DEF Kept
  <2> QED BY <1>1, <2>1, <2>2, <2>3
<1>8. KeepInv'
  <2>1. ASSUME ~slow', ~closed', reader' # "gone" PROVE Range(sent') \subseteq Kept'
    <3>1. Range(sent) \subseteq Kept /\ \A x \in Range(sent) : x.type \notin Telemetry
      BY <2>1 DEF KeepInv, OrderInv
    <3>2. e.type \notin Telemetry => e \in Kept'
      BY <2>1 DEF Kept
    <3> QED BY <1>1, <1>6, <3>1, <3>2
  <2> QED BY <2>1 DEF KeepInv
<1>9. WholeInv'
  <2>1. producer' # "result" /\ life # "COMPLETED"
    BY DEF WholeInv
  <2> QED BY <2>1 DEF WholeInv
<1>10. CountsEveryEvent'
  BY DEF CountsEveryEvent
<1> QED BY <1>2, <1>5, <1>7, <1>8, <1>9, <1>10

\* publish()
LEMMA PublishInv ==
  ASSUME IInv, NEW type \in Types, NEW size \in Sizes, Publish(type, size)
  PROVE  IInv'
<1> DEFINE e == [sequence |-> emitted, type |-> type, size |-> size]
<1>1. e \in Event /\ e.sequence = emitted /\ e.type = type
  BY DEF Event, IInv, StreamType
<1>2. /\ producer = "run" /\ emitted' = emitted + 1
      /\ sent' = IF e.type \in Telemetry THEN sent ELSE Append(sent, e)
      /\ written' = written /\ life' = life /\ reader' = reader
  BY DEF Publish
<1>3. StreamType /\ OrderInv /\ CountsEveryEvent
  BY DEF IInv
<1>0. e \notin Range(events)
  BY <1>1, <1>3 DEF OrderInv, StreamType
<1>4. CASE closed
  <2>1. /\ events' = events /\ queuedBytes' = queuedBytes /\ nextSequence' = nextSequence
        /\ closed' = closed /\ slow' = slow /\ cancel' = cancel /\ producer' = producer
    BY <1>4 DEF Publish, bufferVars
  <2>2. Took(e)
    BY <1>3, <2>1 DEF Took, StreamType, OrderInv, Ascending
  <2>3. slow' \in BOOLEAN /\ cancel' \in BOOLEAN /\ nextSequence' \in Nat
    BY <1>3, <2>1 DEF StreamType
  <2>4. e \notin Range(events')
    BY <1>0, <2>1
  <2> HIDE DEF e
  <2> QED BY <1>1, <1>2, <1>4, <2>1, <2>2, <2>3, <2>4, PublishedInv
<1>5. CASE ~closed
  <2>0. e.sequence = nextSequence
    BY <1>1, <1>3, <1>5 DEF CountsEveryEvent
  <2>1. /\ nextSequence' = nextSequence + 1 /\ closed' = closed /\ producer' = producer
        /\ IF slow THEN UNCHANGED <<events, queuedBytes, slow, cancel>>
           ELSE IF HasRoom(e) THEN Enqueue(e) /\ UNCHANGED <<slow, cancel>>
           ELSE Overflow(e)
    BY <1>5, <2>0 DEF Publish
  <2> HIDE DEF e
  <2>2. nextSequence' \in Nat /\ nextSequence' = emitted'
    BY <1>1, <1>2, <1>3, <2>0, <2>1 DEF StreamType
  <2>3. CASE slow
    <3>1. /\ events' = events /\ queuedBytes' = queuedBytes
          /\ slow' = slow /\ cancel' = cancel
      BY <2>1, <2>3
    <3>2. Took(e)
      BY <1>3, <3>1 DEF Took, StreamType, OrderInv, Ascending
    <3>3. slow' \in BOOLEAN /\ cancel' \in BOOLEAN
      BY <1>3, <3>1 DEF StreamType
    <3>4. e \notin Range(events')
      BY <1>0, <3>1
    <3> QED BY <1>1, <1>2, <2>1, <2>2, <2>3, <3>1, <3>2, <3>3, <3>4, PublishedInv
  <2>4. CASE ~slow /\ HasRoom(e)
    <3>1. Enqueue(e) /\ slow' = slow /\ cancel' = cancel
      BY <2>1, <2>4
    <3>2. Took(e) /\ e \in Range(events')
      BY <1>1, <1>3, <3>1, EnqueueTakes
    <3>3. slow' \in BOOLEAN /\ cancel' \in BOOLEAN
      BY <1>3, <3>1 DEF StreamType
    <3> QED BY <1>1, <1>2, <1>5, <2>1, <2>2, <2>4, <3>1, <3>2, <3>3, PublishedInv
  <2>5. CASE ~slow /\ ~HasRoom(e)
    <3>1. Overflow(e)
      BY <2>1, <2>5
    <3>2. /\ Took(e) /\ Range(events') \subseteq Range(events)
          /\ slow' \in BOOLEAN /\ cancel' \in BOOLEAN
          /\ e.type \notin Telemetry => slow'
      BY <1>1, <1>3, <3>1, OverflowTakes
    <3>3. e \notin Range(events')
      BY <1>0, <3>2
    <3> QED BY <1>1, <1>2, <1>5, <2>1, <2>2, <2>5, <3>2, <3>3, PublishedInv
  <2> QED BY <2>3, <2>4, <2>5
<1> QED BY <1>4, <1>5

\* Steps that move no event.
LEMMA CalmInv ==
  ASSUME IInv,
         events' = events, written' = written, sent' = sent, emitted' = emitted,
         nextSequence' = nextSequence, slow' = slow, queuedBytes' = queuedBytes,
         reader' = "gone" <=> reader = "gone"
  PROVE  OrderInv' /\ NoHoles' /\ Kept' = Kept
BY DEF IInv, OrderInv, NoHoles, Ascending, Kept

\* execute() ends, the record is settled, the buffer closed, the handler looks.
LEMMA QuietInv ==
  ASSUME IInv,
         \/ \E outcome \in {"result", "failed"} : Finish(outcome)
         \/ Die \/ Cancel \/ Settle \/ Close
         \/ \E verdict \in {"TIMED_OUT", "CANCELLED"} : GiveUp(verdict)
         \/ Check
  PROVE  IInv'
<1>1. /\ events' = events /\ written' = written /\ sent' = sent /\ emitted' = emitted
      /\ nextSequence' = nextSequence /\ slow' = slow /\ queuedBytes' = queuedBytes
      /\ reader' = "gone" <=> reader = "gone"
  BY DEF Finish, Die, Cancel, Settle, Close, GiveUp, Check, bufferVars
<1>2. OrderInv' /\ NoHoles' /\ Kept' = Kept
  BY <1>1, CalmInv
<1>3. StreamType'
  <2>0. StreamType
    BY DEF IInv
  <2> USE DEF StreamType, TERMINAL
  <2>1. CASE \E outcome \in {"result", "failed"} : Finish(outcome)
    BY ONLY <1>1, <2>0, <2>1 DEF Finish, bufferVars
  <2>2. CASE Die
    BY ONLY <1>1, <2>0, <2>2 DEF Die, bufferVars
  <2>3. CASE Cancel
    BY ONLY <1>1, <2>0, <2>3 DEF Cancel, bufferVars
  <2>4. CASE Settle
    BY ONLY <1>1, <2>0, <2>4 DEF Settle, bufferVars
  <2>5. CASE Close
    BY ONLY <1>1, <2>0, <2>5 DEF Close
  <2>6. CASE \E verdict \in {"TIMED_OUT", "CANCELLED"} : GiveUp(verdict)
    BY ONLY <1>1, <2>0, <2>6 DEF GiveUp, bufferVars
  <2>7. CASE Check
    BY ONLY <1>1, <2>0, <2>7 DEF Check, bufferVars
  <2> QED BY <2>1, <2>2, <2>3, <2>4, <2>5, <2>6, <2>7
<1>4. CountsEveryEvent'
  BY <1>1 DEF IInv, CountsEveryEvent, Finish, Die, Cancel, Settle, Close, GiveUp, Check,
              bufferVars
<1>5. KeepInv' /\ WholeInv'
  <2>0. Range(sent') = Range(sent)
    BY <1>1
  <2> USE DEF IInv, StreamType, KeepInv, WholeInv, TERMINAL
  <2>1. CASE \E outcome \in {"result", "failed"} : Finish(outcome)
    BY <1>1, <1>2, <2>0, <2>1 DEF Finish, bufferVars
  <2>2. CASE Die
    BY <1>1, <1>2, <2>0, <2>2 DEF Die, bufferVars
  <2>3. CASE Cancel
    BY <1>1, <1>2, <2>0, <2>3 DEF Cancel, bufferVars
  <2>4. CASE Settle
    BY <1>1, <1>2, <2>0, <2>4 DEF Settle, bufferVars
  <2>5. CASE Close
    BY <1>1, <1>2, <2>0, <2>5 DEF Close
  <2>6. CASE \E verdict \in {"TIMED_OUT", "CANCELLED"} : GiveUp(verdict)
    BY <1>1, <1>2, <2>0, <2>6 DEF GiveUp, bufferVars
  <2>7. CASE Check
    BY <1>1, <1>2, <2>0, <2>7 DEF Check, bufferVars
  <2> QED BY <2>1, <2>2, <2>3, <2>4, <2>5, <2>6, <2>7
<1> QED BY <1>2, <1>3, <1>4, <1>5 DEF IInv

\* Events that move from the deque to the client stay in order and stay kept.
LEMMA MovedInv ==
  ASSUME IInv, StreamType', OrderInv', Kept' = Kept, sent' = sent, nextSequence' = nextSequence,
         closed' = closed, slow' = slow, emitted' = emitted, producer' = producer, life' = life,
         reader # "gone", reader' # "gone",
         reader' \in {"drain", "done"} => life \in TERMINAL,
         life = "COMPLETED" /\ reader' = "done" => events' = <<>>
  PROVE  IInv'
<1>1. NoHoles'
  BY DEF IInv, NoHoles
<1>2. CountsEveryEvent' /\ KeepInv' /\ WholeInv'
  BY DEF IInv, CountsEveryEvent, KeepInv, WholeInv
<1> QED BY <1>1, <1>2 DEF IInv

\* get()
LEMMA GetInv ==
  ASSUME IInv, Get
  PROVE  IInv'
<1>1. /\ StreamType /\ OrderInv
      /\ sent' = sent /\ nextSequence' = nextSequence /\ closed' = closed /\ slow' = slow
      /\ emitted' = emitted /\ producer' = producer /\ life' = life /\ cancel' = cancel
      /\ reader = "get" /\ reader' = "check"
  BY DEF IInv, Get
<1>2. CASE events = <<>>
  <2>1. events' = events /\ queuedBytes' = queuedBytes /\ written' = written
    BY <1>2 DEF Get
  <2>2. OrderInv' /\ NoHoles' /\ Kept' = Kept
    BY <1>1, <2>1, CalmInv
  <2>3. StreamType'
    BY <1>1, <2>1 DEF StreamType
  <2> QED BY <1>1, <2>2, <2>3, MovedInv
<1>3. CASE events # <<>>
  <2>1. /\ written' = Append(written, Head(events)) /\ events' = Tail(events)
        /\ queuedBytes' = queuedBytes - Head(events).size
    BY <1>3 DEF Get
  <2>2. events \in Seq(Event) /\ written \in Seq(Event) /\ queuedBytes \in Int
    BY <1>1 DEF StreamType
  <2>3. /\ Tail(events) \in Seq(Event) /\ Head(events) \in Event /\ Head(events) = events[1]
        /\ 1 \in DOMAIN events /\ DOMAIN Tail(events) = 1 .. Len(events) - 1
        /\ DOMAIN events = 1 .. Len(events)
        /\ \A k \in 1 .. Len(events) - 1 : Tail(events)[k] = events[k + 1]
        /\ Range(events) = Range(Tail(events)) \cup {Head(events)}
    BY <1>3, <2>2, TailPoints
  <2>4. PICK e \in Event : e = Head(events)
    BY <2>3
  <2>5. Append(written, e) \in Seq(Event) /\ Range(Append(written, e)) = Range(written) \cup {e}
    BY <2>2, AppendPoints
  <2>6. e.size \in Int
    BY EventSize
  <2>7. StreamType'
    BY <1>1, <2>1, <2>2, <2>3, <2>4, <2>5, <2>6 DEF StreamType
  <2>8. Kept' = Kept
    BY <1>1, <2>1, <2>3, <2>4, <2>5 DEF Kept
  <2>9. OrderInv'
    <3>1. /\ \A x \in Range(Tail(events)) : e.sequence < x.sequence
          /\ Ascending(Tail(events))
      BY <1>1, <1>3, <2>2, <2>4, TailAscending DEF OrderInv
    <3>2. e \in Range(events)
      BY <2>3, <2>4
    <3>3. Ascending(Append(written, e))
      BY <1>1, <2>2, <3>2, AppendAscending DEF OrderInv
    <3>5. written' = Append(written, e)
      BY <2>1, <2>4
    <3>6. Ascending(written)' /\ Ascending(events)'
      BY <2>1, <3>1, <3>3, <3>5 DEF Ascending
    <3> QED BY <1>1, <2>1, <2>3, <2>4, <2>5, <3>1, <3>2, <3>5, <3>6 DEF OrderInv
  <2> QED BY <1>1, <2>7, <2>8, <2>9, MovedInv
<1> QED BY <1>2, <1>3

\* Two ascending sequences, all of the first below all of the second.
LEMMA ConcatAscending ==
  ASSUME NEW p \in Seq(Event), NEW q \in Seq(Event), Ascending(p), Ascending(q),
         \A x \in Range(p), y \in Range(q) : x.sequence < y.sequence
  PROVE  Ascending(p \o q)
<1>1. PICK r : r = p \o q
  OBVIOUS
<1>2. /\ DOMAIN r = 1 .. Len(p) + Len(q) /\ DOMAIN p = 1 .. Len(p) /\ DOMAIN q = 1 .. Len(q)
      /\ Len(p) \in Nat /\ Len(q) \in Nat
      /\ \A k \in 1 .. Len(p) : r[k] = p[k]
      /\ \A k \in 1 .. Len(q) : r[Len(p) + k] = q[k]
  BY <1>1, ConcatPoints
<1> SUFFICES ASSUME NEW i \in DOMAIN r, NEW j \in DOMAIN r, i < j
             PROVE  r[i].sequence < r[j].sequence
  BY <1>1 DEF Ascending
<1>3. \A k \in DOMAIN r : k > Len(p) =>
        k - Len(p) \in DOMAIN q /\ r[k] = q[k - Len(p)]
  <2> SUFFICES ASSUME NEW k \in DOMAIN r, k > Len(p)
               PROVE  k - Len(p) \in DOMAIN q /\ r[k] = q[k - Len(p)]
    OBVIOUS
  <2>1. k - Len(p) \in 1 .. Len(q) /\ Len(p) + (k - Len(p)) = k
    BY <1>2
  <2> QED BY <1>2, <2>1
<1>4. \A k \in DOMAIN r : ~(k > Len(p)) => k \in DOMAIN p /\ r[k] = p[k]
  BY <1>2
<1>5. CASE j > Len(p) /\ i > Len(p)
  <2>1. i - Len(p) < j - Len(p)
    BY <1>2
  <2> QED BY <1>3, <1>5, <2>1 DEF Ascending
<1>6. CASE j > Len(p) /\ ~(i > Len(p))
  BY <1>3, <1>4, <1>6 DEF Range
<1>7. CASE ~(j > Len(p))
  <2>1. ~(i > Len(p))
    BY <1>2, <1>7
  <2> QED BY <1>4, <1>7, <2>1 DEF Ascending
<1> QED BY <1>5, <1>6, <1>7

\* drain()
LEMMA DrainInv ==
  ASSUME IInv, Drain
  PROVE  IInv'
<1>1. /\ StreamType /\ OrderInv
      /\ sent' = sent /\ nextSequence' = nextSequence /\ closed' = closed /\ slow' = slow
      /\ emitted' = emitted /\ producer' = producer /\ life' = life /\ cancel' = cancel
      /\ reader = "drain" /\ reader' = "done" /\ written' = written \o events /\ events' = <<>> /\ queuedBytes' = 0
      /\ life \in TERMINAL
  BY DEF IInv, Drain, WholeInv
<1>2. written \in Seq(Event) /\ events \in Seq(Event)
  BY <1>1 DEF StreamType
<1>3. /\ written \o events \in Seq(Event)
      /\ Range(written \o events) = Range(written) \cup Range(events)
  BY <1>2, ConcatPoints
<1>4. Range(<<>>) = {} /\ Ascending(<<>>) /\ <<>> \in Seq(Event)
  BY DEF Range, Ascending
<1>5. StreamType'
  BY <1>1, <1>3, <1>4 DEF StreamType
<1>6. Kept' = Kept
  BY <1>1, <1>3, <1>4 DEF Kept
<1>7. Ascending(written \o events)
  BY <1>1, <1>2, ConcatAscending DEF OrderInv
<1>8. OrderInv'
  <2>1. Ascending(written)' /\ Ascending(events)'
    BY <1>1, <1>4, <1>7 DEF Ascending
  <2> QED BY <1>1, <1>3, <1>4, <2>1 DEF OrderInv
<1> QED BY <1>1, <1>5, <1>6, <1>8, MovedInv

\* A client that is gone keeps a stretch of the stream from its beginning.
LEMMA LeftInv ==
  ASSUME IInv, StreamType', OrderInv', reader # "gone", reader' = "gone",
         sent' = sent, nextSequence' = nextSequence, closed' = closed, slow' = slow,
         emitted' = emitted, producer' = producer, life' = life,
         Range(written') \subseteq Range(written) \cup Range(events),
         \A x \in Range(written) : x \in Range(written'),
         \A y \in Range(events) :
           y \in Range(written') \/ \A x \in Range(written') : x.sequence < y.sequence
  PROVE  IInv'
<1>1. \A x \in Kept : x.sequence \in Nat
  <2>1. \A x \in Kept : x \in Event
    BY DEF IInv, StreamType, Kept, Range
  <2> QED BY <2>1, EventSize
<1>2. Kept = Range(written) \cup Range(events) /\ Kept' = Range(written')
  BY DEF Kept
<1>3. NoHoles'
  <2> SUFFICES ASSUME NEW k \in Kept'
               PROVE  /\ k.type \notin Telemetry => k \in Range(sent')
                      /\ \A x \in Range(sent') : x.sequence <= k.sequence => x \in Kept'
    BY DEF NoHoles
  <2>1. k \in Kept
    BY <1>2
  <2>2. ASSUME NEW x \in Range(sent), x.sequence <= k.sequence PROVE x \in Kept'
    <3>1. x \in Kept
      BY <2>1, <2>2 DEF IInv, NoHoles
    <3>2. ~(k.sequence < x.sequence)
      BY <1>1, <2>1, <2>2, <3>1
    <3> QED BY <1>2, <3>1, <3>2
  <2> QED BY <2>1, <2>2 DEF IInv, NoHoles
<1>4. CountsEveryEvent' /\ KeepInv' /\ WholeInv'
  BY DEF IInv, CountsEveryEvent, KeepInv, WholeInv
<1> QED BY <1>3, <1>4 DEF IInv

\* The handler sees that the client is gone.
LEMMA DisconnectInv ==
  ASSUME IInv, Disconnect
  PROVE  IInv'
<1>1. /\ reader = "check" /\ reader' = "gone" /\ cancel' \in BOOLEAN
      /\ events' = events /\ queuedBytes' = queuedBytes /\ nextSequence' = nextSequence
      /\ closed' = closed /\ slow' = slow /\ sent' = sent /\ written' = written
      /\ emitted' = emitted /\ producer' = producer /\ life' = life
  BY DEF Disconnect, Leave, bufferVars, IInv, StreamType
<1>2. StreamType' /\ OrderInv'
  BY <1>1 DEF IInv, StreamType, OrderInv, Ascending
<1>3. \A y \in Range(events), x \in Range(written') : x.sequence < y.sequence
  BY <1>1 DEF IInv, OrderInv
<1> QED BY <1>1, <1>2, <1>3, LeftInv

\* The first n events of an ascending sequence are older than the others.
LEMMA PrefixPoints ==
  ASSUME NEW q \in Seq(Event), Ascending(q), NEW n \in 0 .. Len(q) - 1
  PROVE  LET p == SubSeq(q, 1, n) IN
         /\ p \in Seq(Event) /\ Ascending(p) /\ Range(p) \subseteq Range(q)
         /\ \A y \in Range(q) : y \in Range(p) \/ \A x \in Range(p) : x.sequence < y.sequence
<1>1. Len(q) \in Nat /\ DOMAIN q = 1 .. Len(q)
  OBVIOUS
<1>2. PICK p : p = SubSeq(q, 1, n)
  OBVIOUS
<1>3. p \in Seq(Event) /\ DOMAIN p = 1 .. n /\ \A k \in 1 .. n : p[k] = q[k]
  BY <1>1, <1>2
<1>4. \A k \in 1 .. n : k \in DOMAIN q
  BY <1>1
<1>5. Ascending(p)
  BY <1>3, <1>4 DEF Ascending
<1>6. Range(p) \subseteq Range(q)
  BY <1>3, <1>4 DEF Range
<1>7. ASSUME NEW m \in DOMAIN q, q[m] \notin Range(p), NEW k \in DOMAIN p
      PROVE  p[k].sequence < q[m].sequence
  <2>1. m \notin 1 .. n
    BY <1>3, <1>7 DEF Range
  <2>2. k < m /\ k \in DOMAIN q
    BY <1>1, <1>3, <2>1
  <2> QED BY <1>3, <2>2 DEF Ascending
<1>8. \A y \in Range(q) : y \in Range(p) \/ \A x \in Range(p) : x.sequence < y.sequence
  BY <1>7 DEF Range
<1> QED BY <1>2, <1>3, <1>5, <1>6, <1>8

\* A write fails.
LEMMA WriteFailsInv ==
  ASSUME IInv, WriteFails
  PROVE  IInv'
<1>1. /\ StreamType /\ OrderInv /\ events # <<>>
      /\ reader # "gone" /\ reader' = "gone" /\ cancel' \in BOOLEAN
      /\ nextSequence' = nextSequence /\ closed' = closed /\ slow' = slow /\ sent' = sent
      /\ emitted' = emitted /\ producer' = producer /\ life' = life
  BY DEF WriteFails, Leave, IInv, StreamType
<1>2. events \in Seq(Event) /\ written \in Seq(Event) /\ queuedBytes \in Int
  BY <1>1 DEF StreamType
<1>3. CASE reader = "get"
  <2>1. /\ events' = Tail(events) /\ queuedBytes' = queuedBytes - Head(events).size
        /\ written' = written
    BY <1>3 DEF WriteFails
  <2>2. /\ Tail(events) \in Seq(Event) /\ Head(events) \in Event
        /\ Range(events) = Range(Tail(events)) \cup {Head(events)}
    BY <1>1, <1>2, TailPoints
  <2>3. Ascending(Tail(events))
    BY <1>1, <1>2, TailAscending DEF OrderInv
  <2>4. Head(events).size \in Int
    BY <2>2, EventSize
  <2>5. StreamType'
    BY <1>1, <1>2, <2>1, <2>2, <2>4 DEF StreamType
  <2>6. Ascending(written)' /\ Ascending(events)'
    BY <1>1, <2>1, <2>3 DEF OrderInv, Ascending
  <2>7. OrderInv'
    BY <1>1, <2>1, <2>2, <2>6 DEF OrderInv
  <2>8. \A y \in Range(events), x \in Range(written') : x.sequence < y.sequence
    BY <1>1, <2>1 DEF OrderInv
  <2> QED BY <1>1, <2>1, <2>5, <2>7, <2>8, LeftInv
<1>4. CASE reader = "drain"
  <2>1. PICK n \in 0 .. Len(events) - 1 : written' = written \o SubSeq(events, 1, n)
    BY <1>4 DEF WriteFails
  <2>2. events' = <<>> /\ queuedBytes' = 0
    BY <1>4 DEF WriteFails
  <2>3. PICK p : p = SubSeq(events, 1, n)
    OBVIOUS
  <2>4. /\ p \in Seq(Event) /\ Ascending(p) /\ Range(p) \subseteq Range(events)
        /\ \A y \in Range(events) : y \in Range(p) \/ \A x \in Range(p) : x.sequence < y.sequence
    BY <1>1, <1>2, <2>3, PrefixPoints DEF OrderInv
  <2>5. written' \in Seq(Event) /\ Range(written') = Range(written) \cup Range(p)
    <3>1. /\ written \o p \in Seq(Event)
          /\ Range(written \o p) = Range(written) \cup Range(p)
      BY <1>2, <2>4, ConcatPoints
    <3> QED BY <2>1, <2>3, <3>1
  <2>6. Ascending(written \o p)
    BY <1>1, <1>2, <2>4, ConcatAscending DEF OrderInv
  <2>7. Range(<<>>) = {} /\ Ascending(<<>>) /\ <<>> \in Seq(Event)
    BY DEF Range, Ascending
  <2>8. StreamType'
    BY <1>1, <2>2, <2>5, <2>7 DEF StreamType
  <2>9. Ascending(written)' /\ Ascending(events)'
    BY <2>1, <2>2, <2>3, <2>6, <2>7 DEF Ascending
  <2>10. OrderInv'
    BY <1>1, <2>2, <2>4, <2>5, <2>7, <2>9 DEF OrderInv
  <2>11. ASSUME NEW y \in Range(events), y \notin Range(written'), NEW x \in Range(written')
         PROVE  x.sequence < y.sequence
    BY <1>1, <2>4, <2>5, <2>11 DEF OrderInv
  <2> QED BY <1>1, <2>4, <2>5, <2>8, <2>10, <2>11, LeftInv
<1> QED BY <1>3, <1>4 DEF WriteFails

-----------------------------------------------------------------------------

\* The invariant holds for an empty stream.
LEMMA InitHolds == Init => IInv
<1> SUFFICES ASSUME Init PROVE IInv
  OBVIOUS
<1>0. <<>> \in Seq(Event)
  OBVIOUS
<1>1. Range(<<>>) = {} /\ <<>> \in Seq(Event) /\ Ascending(<<>>)
  BY <1>0 DEF Range, Ascending
<1>2. StreamType
  <2>1. events \in Seq(Event) /\ sent \in Seq(Event) /\ written \in Seq(Event)
    BY <1>0 DEF Init
  <2>2. queuedBytes \in Int /\ nextSequence \in Nat /\ emitted \in Nat
    BY DEF Init
  <2>3. /\ closed \in BOOLEAN /\ slow \in BOOLEAN /\ cancel \in BOOLEAN
        /\ producer \in {"run", "result", "failed", "slow_consumer", "crashed"}
        /\ life \in TERMINAL \cup {"RUNNING"}
        /\ reader \in {"check", "get", "drain", "done", "gone"}
    BY DEF Init
  <2> QED BY <2>1, <2>2, <2>3 DEF StreamType
<1>3. OrderInv
  BY <1>1 DEF Init, OrderInv
<1>4. NoHoles
  BY <1>1 DEF Init, NoHoles, Kept
<1>5. CountsEveryEvent /\ KeepInv /\ WholeInv
  BY <1>1 DEF Init, CountsEveryEvent, KeepInv, WholeInv, Kept, TERMINAL
<1> QED BY <1>2, <1>3, <1>4, <1>5 DEF IInv

\* Every step keeps the invariant.
LEMMA StepHolds == IInv /\ [Next]_vars => IInv'
<1> SUFFICES ASSUME IInv, [Next]_vars PROVE IInv'
  OBVIOUS
<1>1. CASE \E type \in Types, size \in Sizes : Publish(type, size)
  BY <1>1, PublishInv
<1>2. CASE Get
  BY <1>2, GetInv
<1>3. CASE Drain
  BY <1>3, DrainInv
<1>4. CASE \/ \E outcome \in {"result", "failed"} : Finish(outcome)
           \/ Die \/ Cancel \/ Settle \/ Close
           \/ \E verdict \in {"TIMED_OUT", "CANCELLED"} : GiveUp(verdict)
           \/ Check
  BY <1>4, QuietInv
<1>5. CASE UNCHANGED vars
  BY <1>5 DEF vars, bufferVars, IInv, StreamType, OrderInv, NoHoles, CountsEveryEvent, KeepInv,
              WholeInv, Ascending, Kept
<1>6. CASE Disconnect
  BY <1>6, DisconnectInv
<1>7. CASE WriteFails
  BY <1>7, WriteFailsInv
<1> QED BY <1>1, <1>2, <1>3, <1>4, <1>5, <1>6, <1>7 DEF Next, HandlerStep

\* The inductive invariant of the stream.
THEOREM Invariance == Spec => []IInv
BY InitHolds, StepHolds, PTL DEF Spec

\* For every buffer size and every number of events, the client gets events in
\* the order of their emission, never a delta without those before it, and
\* with a completed request every one of them.
THEOREM StreamIsWhole == Spec => []NothingMissing
<1>1. IInv => NothingMissing
  <2> SUFFICES ASSUME IInv PROVE NothingMissing
    OBVIOUS
  <2>1. InOrder
    <3>1. written \in Seq(Event) /\ events \in Seq(Event)
      BY DEF IInv, StreamType
    <3>2. Ascending(written \o events)
      BY <3>1, ConcatAscending DEF IInv, OrderInv
    <3> QED BY <3>2 DEF InOrder, Ascending
  <2>2. CompletedIsWhole
    <3>1. Range(<<>>) = {}
      BY DEF Range
    <3> QED BY <3>1 DEF IInv, WholeInv, CompletedIsWhole, Kept
  <2> QED BY <2>1, <2>2 DEF NothingMissing, IInv
<1> QED BY <1>1, Invariance, PTL

\* publish() never meets a number it does not expect: what it dropped or
\* coalesced was counted.
THEOREM EveryEventCounted == Spec => []CountsEveryEvent
<1>1. IInv => CountsEveryEvent
  BY DEF IInv
<1> QED BY <1>1, Invariance, PTL
-----------------------------------------------------------------------------
(***************************************************************************)
(* Sums of sizes.  FoldSeq is a fold over the positions of a sequence, and *)
(* the fold takes the elements in the order CHOOSE gives: the sum is h[D]  *)
(* for the one function h on the subsets of D that satisfies the fold's    *)
(* equation.  Such an h exists, by induction on the number of elements,    *)
(* and its values do not depend on the order.                              *)
(***************************************************************************)

\* The size of the event at position i, and what the positions of D sum up to.
Size(f, i) == f[i].size

SumOf(f, D) ==
  MapThenFoldSet(LAMBDA e, n : n + e.size, 0, LAMBDA i : f[i], LAMBDA s : CHOOSE x \in s : TRUE, D)

SumStep(h, f, s) ==
  IF s = {} THEN 0 ELSE h[s \ {CHOOSE x \in s : TRUE}] + Size(f, CHOOSE x \in s : TRUE)

Sums(h, f, D) == h = [s \in SUBSET D |-> SumStep(h, f, s)]

NatSums(h, f, D) == Sums(h, f, D) /\ h \in [SUBSET D -> Nat]

\* The sum as the fold defines it.
LEMMA SumOfAreSums ==
  ASSUME NEW D, NEW f PROVE SumOf(f, D) = (CHOOSE h : Sums(h, f, D))[D]
BY DEF SumOf, MapThenFoldSet, Sums, SumStep, Size

\* Every nonempty set of naturals has a least element.
LEMMA LeastNat ==
  ASSUME NEW B \in SUBSET Nat, B # {}
  PROVE  \E n \in B : \A m \in B : ~(m < n)
<1>1. \E n \in B : \A m \in B : ~(<<m, n>> \in OpToRel(<, Nat))
  BY NatLessThanWellFounded, WFMin, Zenon
<1>2. \A m, n \in Nat : m < n => <<m, n>> \in OpToRel(<, Nat)
  BY DEF OpToRel
<1> QED
  BY <1>1, <1>2, Zenon

\* Induction over the subsets of a finite set, with a set in the place of a
\* predicate.
LEMMA SubsetInduction ==
  ASSUME NEW D, IsFiniteSet(D), NEW F,
         \A s \in SUBSET D : (\A x \in s : s \ {x} \in F) => s \in F
  PROVE  D \in F
<1> DEFINE B == {n \in Nat : \E s \in SUBSET D : s \notin F /\ Cardinality(s) = n}
<1>1. SUFFICES ASSUME D \notin F PROVE FALSE
  OBVIOUS
<1>2. Cardinality(D) \in B
  BY <1>1, FS_CardinalityType
<1>3. PICK n \in B : \A m \in B : ~(m < n)
  BY <1>2, LeastNat
<1>4. PICK s \in SUBSET D : s \notin F /\ Cardinality(s) = n
  BY <1>3
<1>5. PICK x \in s : s \ {x} \notin F
  BY <1>4
<1>6. IsFiniteSet(s) /\ Cardinality(s \ {x}) = n - 1 /\ Cardinality(s \ {x}) \in Nat
  BY <1>4, FS_Subset, FS_RemoveElement, FS_CardinalityType
<1>7. n - 1 \in B /\ n - 1 < n
  BY <1>3, <1>5, <1>6
<1> QED
  BY <1>3, <1>7

\* What CHOOSE takes from a nonempty set is in it.
LEMMA Chosen == ASSUME NEW s, s # {} PROVE (CHOOSE x \in s : TRUE) \in s
OBVIOUS

\* A function that satisfies the equation of the fold exists.
LEMMA SumsExist ==
  ASSUME NEW D, IsFiniteSet(D), NEW f, \A x \in D : Size(f, x) \in Nat
  PROVE  \E h : NatSums(h, f, D)
<1> DEFINE Upto(n) == \E h \in [SUBSET D -> Nat] :
                        \A s \in SUBSET D : Cardinality(s) <= n => h[s] = SumStep(h, f, s)
           B == {n \in Nat : ~Upto(n)}
<1>0. \A s \in SUBSET D : IsFiniteSet(s) /\ Cardinality(s) \in Nat
  BY FS_Subset, FS_CardinalityType
<1>1. Upto(0)
  <2>1. [s \in SUBSET D |-> 0] \in [SUBSET D -> Nat]
    OBVIOUS
  <2>2. \A s \in SUBSET D : Cardinality(s) <= 0 => s = {}
    BY <1>0, FS_EmptySet
  <2> QED
    BY <2>1, <2>2 DEF SumStep
<1>2. ASSUME NEW n \in Nat, Upto(n) PROVE Upto(n + 1)
  <2>1. PICK h \in [SUBSET D -> Nat] :
          \A s \in SUBSET D : Cardinality(s) <= n => h[s] = SumStep(h, f, s)
    BY <1>2
  <2> DEFINE g == [s \in SUBSET D |-> SumStep(h, f, s)]
  <2>2. \A s \in SUBSET D : s # {} => (CHOOSE x \in s : TRUE) \in s
    BY Chosen
  <2>3. g \in [SUBSET D -> Nat]
    BY <2>2 DEF SumStep
  <2>4. ASSUME NEW s \in SUBSET D, Cardinality(s) <= n + 1 PROVE g[s] = SumStep(g, f, s)
    <3>1. CASE s = {}
      BY <3>1 DEF SumStep
    <3>2. CASE s # {}
      <4>1. PICK c \in s : c = (CHOOSE x \in s : TRUE)
        BY <2>2, <3>2
      <4>2. IsFiniteSet(s) /\ Cardinality(s \ {c}) = Cardinality(s) - 1
        BY <1>0, FS_RemoveElement
      <4>3. s \ {c} \in SUBSET D /\ Cardinality(s \ {c}) <= n
        BY <1>0, <2>4, <4>2
      <4>4. g[s \ {c}] = h[s \ {c}]
        BY <2>1, <4>3
      <4>5. g[s] = h[s \ {c}] + Size(f, c) /\ SumStep(g, f, s) = g[s \ {c}] + Size(f, c)
        BY <3>2, <4>1 DEF SumStep
      <4> QED
        BY <4>4, <4>5
    <3> QED
      BY <3>1, <3>2
  <2> HIDE DEF g
  <2> QED
    BY <2>3, <2>4
<1> HIDE DEF Upto
<1>3. B = {}
  <2>1. SUFFICES ASSUME B # {} PROVE FALSE
    OBVIOUS
  <2>2. PICK n \in B : \A m \in B : ~(m < n)
    BY <2>1, LeastNat
  <2>3. n # 0 /\ n - 1 \in Nat /\ n - 1 + 1 = n
    BY <1>1, <2>2
  <2>4. n - 1 \in B
    BY <1>2, <2>2, <2>3
  <2> QED
    BY <2>2, <2>3, <2>4
<1>4. Upto(Cardinality(D))
  BY <1>0, <1>3
<1>5. PICK h \in [SUBSET D -> Nat] :
        \A s \in SUBSET D : Cardinality(s) <= Cardinality(D) => h[s] = SumStep(h, f, s)
  BY <1>4 DEF Upto
<1>6. \A s \in SUBSET D : Cardinality(s) <= Cardinality(D)
  BY FS_Subset
<1> QED
  BY <1>5, <1>6 DEF Sums, NatSums

\* The sum over a set does not depend on what it is a part of.
LEMMA SumsAgree ==
  ASSUME NEW D, IsFiniteSet(D), NEW E \in SUBSET D, NEW f, NEW h, NEW g,
         Sums(h, f, D), Sums(g, f, E)
  PROVE  h[E] = g[E]
<1> DEFINE F == {s \in SUBSET E : h[s] = g[s]}
<1>1. ASSUME NEW s \in SUBSET E, \A x \in s : s \ {x} \in F PROVE s \in F
  <2>1. h[s] = SumStep(h, f, s) /\ g[s] = SumStep(g, f, s)
    BY DEF Sums
  <2>2. CASE s = {}
    BY <2>1, <2>2 DEF SumStep
  <2>3. CASE s # {}
    BY <1>1, <2>1, <2>3, Chosen DEF SumStep
  <2> QED
    BY <2>2, <2>3
<1>2. IsFiniteSet(E)
  BY FS_Subset
<1> HIDE DEF F
<1>3. E \in F
  BY <1>1, <1>2, SubsetInduction
<1> QED
  BY <1>3 DEF F

\* Any element may be taken first.
LEMMA SumsOrder ==
  ASSUME NEW D, IsFiniteSet(D), NEW f, \A x \in D : Size(f, x) \in Nat,
         NEW h, NatSums(h, f, D)
  PROVE  \A x \in D : h[D] = Size(f, x) + h[D \ {x}]
<1>0. h \in [SUBSET D -> Nat] /\ Sums(h, f, D)
  BY DEF NatSums
<1> DEFINE F == {s \in SUBSET D : \A y \in s : h[s] = Size(f, y) + h[s \ {y}]}
<1>1. ASSUME NEW s \in SUBSET D, \A y \in s : s \ {y} \in F, NEW y \in s
      PROVE  h[s] = Size(f, y) + h[s \ {y}]
  <2> DEFINE c == CHOOSE z \in s : TRUE
  <2>1. c \in s /\ h[s] = h[s \ {c}] + Size(f, c)
    BY <1>0, Chosen DEF Sums, SumStep
  <2> HIDE DEF c
  <2>2. CASE y = c
    <3>1. PICK m \in Nat : m = h[s \ {c}]
      BY <1>0
    <3>2. PICK n \in Nat : n = Size(f, c)
      BY <2>1
    <3> QED
      BY <2>1, <2>2, <3>1, <3>2
  <2>3. CASE y # c
    <3>1. h[s \ {c}] = Size(f, y) + h[(s \ {c}) \ {y}]
      BY <1>1, <2>1, <2>3
    <3>2. h[s \ {y}] = Size(f, c) + h[(s \ {y}) \ {c}]
      BY <1>1, <2>1, <2>3
    <3>3. (s \ {y}) \ {c} = (s \ {c}) \ {y}
      OBVIOUS
    <3>4. PICK k \in Nat : k = h[(s \ {c}) \ {y}]
      BY <1>0
    <3>5. Size(f, y) \in Nat /\ Size(f, c) \in Nat
      BY <2>1
    <3>6. h[s] = Size(f, c) + (Size(f, y) + k) /\ h[s \ {y}] = Size(f, c) + k
      BY <2>1, <3>1, <3>2, <3>3, <3>4
    <3> QED
      BY <3>4, <3>5, <3>6
  <2> QED
    BY <2>2, <2>3
<1>2. \A s \in SUBSET D : (\A y \in s : s \ {y} \in F) => s \in F
  BY <1>1
<1> HIDE DEF F
<1>3. D \in F
  BY <1>2, SubsetInduction
<1> QED
  BY <1>3 DEF F

\* The sum over a set of positions is a number, and each adds its size.
LEMMA SumAdd ==
  ASSUME NEW D, IsFiniteSet(D), NEW f, \A x \in D : Size(f, x) \in Nat
  PROVE  /\ SumOf(f, D) \in Nat
         /\ \A x \in D : SumOf(f, D) = Size(f, x) + SumOf(f, D \ {x})
<1>1. PICK h : NatSums(h, f, D)
  BY SumsExist
<1>2. ASSUME NEW E \in SUBSET D PROVE SumOf(f, E) = h[E]
  <2>1. IsFiniteSet(E)
    BY FS_Subset
  <2>2. \E g : Sums(g, f, E)
    BY <2>1, SumsExist DEF NatSums
  <2>3. Sums(CHOOSE g : Sums(g, f, E), f, E)
    BY <2>2
  <2> QED
    BY <1>1, <2>3, SumsAgree, SumOfAreSums DEF NatSums
<1>3. \A x \in D : h[D] = Size(f, x) + h[D \ {x}]
  BY <1>1, SumsOrder
<1>4. ASSUME NEW y \in D PROVE SumOf(f, D) = Size(f, y) + SumOf(f, D \ {y})
  BY <1>2, <1>3
<1> QED
  BY <1>1, <1>2, <1>4 DEF NatSums

\* No positions, no bytes.
LEMMA SumOfNone == ASSUME NEW f PROVE SumOf(f, {}) = 0
<1>1. PICK h : NatSums(h, f, {})
  BY SumsExist, FS_EmptySet
<1>2. Sums(CHOOSE g : Sums(g, f, {}), f, {})
  BY <1>1 DEF NatSums
<1> QED
  BY <1>2, SumOfAreSums DEF Sums, SumStep

\* Moving events to other positions does not change the sum.
LEMMA SumMoved ==
  ASSUME NEW D, IsFiniteSet(D), NEW f, NEW g, NEW to, IsFiniteSet({to[x] : x \in D}),
         \A x \in D : Size(f, x) \in Nat, \A x \in D : Size(g, to[x]) = Size(f, x),
         \A x, y \in D : to[x] = to[y] => x = y
  PROVE  SumOf(g, {to[x] : x \in D}) = SumOf(f, D)
<1> DEFINE M(s) == {to[x] : x \in s}
           F == {s \in SUBSET D : SumOf(g, M(s)) = SumOf(f, s)}
<1>1. ASSUME NEW s \in SUBSET D, \A x \in s : s \ {x} \in F
      PROVE  SumOf(g, M(s)) = SumOf(f, s)
  <2>1. IsFiniteSet(s) /\ IsFiniteSet(M(s))
    <3>1. M(s) \in SUBSET {to[x] : x \in D}
      OBVIOUS
    <3> HIDE DEF M
    <3> QED
      BY <3>1, FS_Subset
  <2>2. CASE s = {}
    <3>1. M(s) = {}
      BY <2>2
    <3> HIDE DEF M
    <3> QED
      BY <2>2, <3>1, SumOfNone
  <2>3. CASE s # {}
    <3>1. PICK x \in s : TRUE
      BY <2>3
    <3>2. to[x] \in M(s) /\ M(s) \ {to[x]} = M(s \ {x})
      BY <3>1
    <3>3. \A y \in M(s) : Size(g, y) \in Nat
      OBVIOUS
    <3>4. SumOf(g, M(s \ {x})) = SumOf(f, s \ {x}) /\ Size(g, to[x]) = Size(f, x)
      BY <1>1
    <3> HIDE DEF M
    <3>5. SumOf(g, M(s)) = Size(g, to[x]) + SumOf(g, M(s \ {x}))
      <4>1. PICK T, y : T = M(s) /\ y = to[x]
        OBVIOUS
      <4>2. IsFiniteSet(T) /\ (\A z \in T : Size(g, z) \in Nat) /\ y \in T
        BY <2>1, <3>2, <3>3, <4>1
      <4>3. SumOf(g, T) = Size(g, y) + SumOf(g, T \ {y})
        BY <4>2, SumAdd
      <4> QED
        BY <3>2, <4>1, <4>3
    <3>6. SumOf(f, s) = Size(f, x) + SumOf(f, s \ {x})
      BY <2>1, SumAdd
    <3> QED
      BY <3>4, <3>5, <3>6
  <2> QED
    BY <2>2, <2>3
<1>2. \A s \in SUBSET D : (\A x \in s : s \ {x} \in F) => s \in F
  BY <1>1
<1>3. F = {s \in SUBSET D : SumOf(g, M(s)) = SumOf(f, s)}
  OBVIOUS
<1> HIDE DEF F
<1>4. D \in F
  BY <1>2, SubsetInduction
<1> QED
  BY <1>3, <1>4

-----------------------------------------------------------------------------
(***************************************************************************)
(* The bounds and the byte count of the deque.                             *)
(***************************************************************************)

\* The byte count that Bounded speaks of.
BytesOf(q) == FoldSeq(LAMBDA e, n : n + e.size, 0, q)

\* At most one event of each kind of telemetry.
Single(q) == \A i, j \in DOMAIN q : i # j /\ q[i].type \in Telemetry => q[i].type # q[j].type

\* The deque q with b queued bytes is in order.
Books(q, b) ==
  /\ q \in Seq(Event) /\ Len(q) <= MaxEvents /\ Single(q)
  /\ b \in Nat /\ b <= MaxBytes /\ b = BytesOf(q)

\* The deque of the buffer and its byte count as they are.
BooksInv == Books(events, queuedBytes)

\* The bytes of a sequence are the sum over its positions.
LEMMA BytesAsSum ==
  ASSUME NEW q \in Seq(Event)
  PROVE  /\ IsFiniteSet(DOMAIN q) /\ \A i \in DOMAIN q : Size(q, i) \in Nat
         /\ BytesOf(q) = SumOf(q, DOMAIN q) /\ BytesOf(q) \in Nat
<1>1. DOMAIN q = 1 .. Len(q) /\ Len(q) \in Nat
  OBVIOUS
<1>2. IsFiniteSet(DOMAIN q)
  BY <1>1, FS_Interval
<1>3. ASSUME NEW i \in DOMAIN q PROVE Size(q, i) \in Nat
  <2>1. q[i] \in Event
    OBVIOUS
  <2>2. q[i].size \in Sizes
    BY <2>1 DEF Event
  <2> QED
    BY <2>2, BufferAssumption DEF Size
<1>4. BytesOf(q) = SumOf(q, DOMAIN q)
  BY DEF BytesOf, FoldSeq, FoldFunction, FoldFunctionOnSet, SumOf
<1> QED
  BY <1>2, <1>3, <1>4, SumAdd

\* A new event adds its size.
LEMMA BytesOfAppend ==
  ASSUME NEW q \in Seq(Event), NEW e \in Event
  PROVE  BytesOf(Append(q, e)) = BytesOf(q) + e.size
<1> DEFINE r == Append(q, e)
           n == Len(q) + 1
<1>1. /\ r \in Seq(Event) /\ DOMAIN r = 1 .. n /\ DOMAIN q = 1 .. Len(q) /\ Len(q) \in Nat
      /\ r[n] = e /\ \A i \in DOMAIN q : r[i] = q[i]
  BY AppendPoints
<1> HIDE DEF r
<1>2. n \in DOMAIN r /\ DOMAIN r \ {n} = DOMAIN q
  BY <1>1
<1> HIDE DEF n
<1>3. BytesOf(r) = Size(r, n) + SumOf(r, DOMAIN q)
  <2>1. /\ IsFiniteSet(DOMAIN r) /\ (\A i \in DOMAIN r : Size(r, i) \in Nat)
        /\ BytesOf(r) = SumOf(r, DOMAIN r)
    BY <1>1, BytesAsSum
  <2>2. SumOf(r, DOMAIN r) = Size(r, n) + SumOf(r, DOMAIN r \ {n})
    BY <1>2, <2>1, SumAdd
  <2> QED
    BY <1>2, <2>1, <2>2
<1>4. SumOf(r, DOMAIN q) = SumOf(q, DOMAIN q)
  <2>0. PICK D : D = DOMAIN q
    OBVIOUS
  <2>1. PICK to : to = [i \in D |-> i]
    OBVIOUS
  <2>2. {to[x] : x \in D} = D /\ \A x, y \in D : to[x] = to[y] => x = y
    BY <2>1
  <2>3. \A x \in D : Size(r, to[x]) = Size(q, x)
    BY <1>1, <2>0, <2>1 DEF Size
  <2>4. IsFiniteSet(D) /\ \A x \in D : Size(q, x) \in Nat
    BY <2>0, BytesAsSum
  <2>5. IsFiniteSet({to[x] : x \in D})
    BY <2>2, <2>4
  <2>6. SumOf(r, {to[x] : x \in D}) = SumOf(q, D)
    BY <2>2, <2>3, <2>4, <2>5, SumMoved
  <2> QED
    BY <2>0, <2>2, <2>6
<1>5. Size(r, n) = e.size /\ Size(r, n) \in Nat
  BY <1>1, <1>2, BytesAsSum DEF Size
<1>6. BytesOf(q) = SumOf(q, DOMAIN q) /\ BytesOf(q) \in Nat
  BY BytesAsSum
<1>7. BytesOf(r) = BytesOf(q) + e.size
  BY <1>3, <1>4, <1>5, <1>6
<1> QED
  BY <1>7 DEF r

\* An event that is removed takes its size with it.
LEMMA BytesOfRemove ==
  ASSUME NEW q \in Seq(Event), NEW k \in DOMAIN q
  PROVE  /\ BytesOf(q) = q[k].size + BytesOf(RemoveAt(q, k))
         /\ q[k].size \in Nat /\ BytesOf(RemoveAt(q, k)) \in Nat
<1> DEFINE r == RemoveAt(q, k)
<1>1. /\ r \in Seq(Event) /\ DOMAIN r = 1 .. Len(q) - 1
      /\ DOMAIN q = 1 .. Len(q) /\ Len(q) \in Nat
      /\ \A i \in 1 .. Len(q) - 1 : r[i] = IF i < k THEN q[i] ELSE q[i + 1]
  BY RemovePoints
<1> HIDE DEF r
<1>2. PICK to : to = [i \in DOMAIN r |-> IF i < k THEN i ELSE i + 1]
  OBVIOUS
<1>3. \A i, j \in DOMAIN r : to[i] = to[j] => i = j
  BY <1>1, <1>2
<1>4. {to[i] : i \in DOMAIN r} = DOMAIN q \ {k}
  <2>1. ASSUME NEW i \in DOMAIN r PROVE to[i] \in DOMAIN q \ {k}
    BY <1>1, <1>2
  <2>2. ASSUME NEW j \in DOMAIN q \ {k} PROVE \E i \in DOMAIN r : to[i] = j
    <3>1. CASE j < k
      BY <1>1, <1>2, <3>1
    <3>2. CASE j > k
      <4>1. j - 1 \in DOMAIN r /\ to[j - 1] = j
        BY <1>1, <1>2, <3>2
      <4> QED
        BY <4>1
    <3> QED
      BY <1>1, <3>1, <3>2
  <2> QED
    BY <2>1, <2>2
<1>5. \A i \in DOMAIN r : Size(q, to[i]) = Size(r, i)
  BY <1>1, <1>2 DEF Size
<1>6. /\ IsFiniteSet(DOMAIN r) /\ (\A i \in DOMAIN r : Size(r, i) \in Nat)
      /\ BytesOf(r) = SumOf(r, DOMAIN r) /\ BytesOf(r) \in Nat
  BY <1>1, BytesAsSum
<1>7. /\ IsFiniteSet(DOMAIN q) /\ (\A i \in DOMAIN q : Size(q, i) \in Nat)
      /\ BytesOf(q) = SumOf(q, DOMAIN q)
  BY BytesAsSum
<1>8. IsFiniteSet(DOMAIN q \ {k})
  BY <1>7, FS_Subset
<1>9. SumOf(q, DOMAIN q \ {k}) = SumOf(r, DOMAIN r)
  BY <1>3, <1>4, <1>5, <1>6, <1>8, SumMoved
<1>10. SumOf(q, DOMAIN q) = Size(q, k) + SumOf(q, DOMAIN q \ {k})
  BY <1>7, SumAdd
<1>11. Size(q, k) = q[k].size /\ Size(q, k) \in Nat
  BY <1>7 DEF Size
<1>12. BytesOf(q) = q[k].size + BytesOf(r)
  BY <1>6, <1>7, <1>9, <1>10, <1>11
<1> QED
  BY <1>6, <1>11, <1>12 DEF r

\* An empty deque is in order.
LEMMA BooksEmpty == Books(<<>>, 0)
<1>1. BytesOf(<<>>) = 0
  <2>1. <<>> \in Seq(Event) /\ DOMAIN <<>> = {}
    OBVIOUS
  <2>2. BytesOf(<<>>) = SumOf(<<>>, {})
    BY <2>1, BytesAsSum
  <2> QED
    BY <2>2, SumOfNone
<1> QED
  BY <1>1, BufferAssumption DEF Books, Single

\* A deque stays in order when an event is removed, and nothing else of the
\* kind is left if it was telemetry.
LEMMA BooksRemove ==
  ASSUME NEW q, NEW b, Books(q, b), NEW k \in DOMAIN q
  PROVE  /\ Books(RemoveAt(q, k), b - q[k].size)
         /\ q[k].type \in Telemetry =>
              \A i \in DOMAIN RemoveAt(q, k) : RemoveAt(q, k)[i].type # q[k].type
<1>0. /\ q \in Seq(Event) /\ Len(q) <= MaxEvents /\ Single(q)
      /\ b \in Nat /\ b <= MaxBytes /\ b = BytesOf(q) /\ MaxEvents \in Nat /\ MaxBytes \in Nat
  BY BufferAssumption DEF Books
<1>1. PICK r : r = RemoveAt(q, k)
  OBVIOUS
<1>2. /\ r \in Seq(Event) /\ DOMAIN r = 1 .. Len(q) - 1 /\ DOMAIN r = 1 .. Len(r)
      /\ DOMAIN q = 1 .. Len(q) /\ Len(q) \in Nat /\ Len(r) \in Nat
      /\ \A i \in 1 .. Len(q) - 1 : r[i] = IF i < k THEN q[i] ELSE q[i + 1]
  BY <1>0, <1>1, RemovePoints
<1>3. BytesOf(q) = q[k].size + BytesOf(r) /\ q[k].size \in Nat /\ BytesOf(r) \in Nat
  BY <1>0, <1>1, BytesOfRemove
<1>4. b - q[k].size \in Nat /\ b - q[k].size <= MaxBytes /\ b - q[k].size = BytesOf(r)
  BY <1>0, <1>3
<1>5. Len(r) <= MaxEvents
  BY <1>0, <1>2
<1> DEFINE at(i) == IF i < k THEN i ELSE i + 1
<1>6. ASSUME NEW i \in DOMAIN r PROVE at(i) \in DOMAIN q /\ r[i] = q[at(i)] /\ at(i) # k
  BY <1>2
<1>7. ASSUME NEW i \in DOMAIN r, NEW j \in DOMAIN r, i # j PROVE at(i) # at(j)
  BY <1>2, <1>7
<1> HIDE DEF at
<1>8. Single(r)
  BY <1>0, <1>6, <1>7 DEF Single
<1>9. q[k].type \in Telemetry => \A i \in DOMAIN r : r[i].type # q[k].type
  BY <1>0, <1>6 DEF Single
<1> QED
  BY <1>1, <1>2, <1>4, <1>5, <1>8, <1>9 DEF Books

\* And when one that fits is appended, if it is the only one of its kind.
LEMMA BooksAppend ==
  ASSUME NEW q, NEW b, Books(q, b), NEW e \in Event, Fits(q, b, e),
         e.type \in Telemetry => \A i \in DOMAIN q : q[i].type # e.type
  PROVE  Books(Append(q, e), b + e.size)
<1>0. /\ q \in Seq(Event) /\ Len(q) < MaxEvents /\ Single(q) /\ Len(q) \in Nat
      /\ b \in Nat /\ b + e.size <= MaxBytes /\ b = BytesOf(q) /\ MaxEvents \in Nat
  BY BufferAssumption DEF Books, Fits
<1>1. PICK r : r = Append(q, e)
  OBVIOUS
<1>2. /\ r \in Seq(Event) /\ DOMAIN r = 1 .. Len(q) + 1 /\ DOMAIN r = 1 .. Len(r)
      /\ DOMAIN q = 1 .. Len(q) /\ Len(r) \in Nat
      /\ r[Len(q) + 1] = e /\ \A i \in DOMAIN q : r[i] = q[i]
  BY <1>0, <1>1, AppendPoints
<1>3. e.size \in Nat
  BY BufferAssumption DEF Event
<1>4. b + e.size \in Nat /\ b + e.size = BytesOf(r)
  BY <1>0, <1>1, <1>3, BytesOfAppend
<1>5. Len(r) <= MaxEvents
  BY <1>0, <1>1
<1>6. Single(r)
  <2> SUFFICES ASSUME NEW i \in DOMAIN r, NEW j \in DOMAIN r, i # j, r[i].type \in Telemetry
               PROVE  r[i].type # r[j].type
    BY DEF Single
  <2>1. \A m \in DOMAIN r : m = Len(q) + 1 \/ m \in DOMAIN q
    BY <1>0, <1>2
  <2>2. CASE i \in DOMAIN q /\ j \in DOMAIN q
    BY <1>0, <1>2, <2>2 DEF Single
  <2>3. CASE i = Len(q) + 1 /\ j \in DOMAIN q
    BY <1>2, <2>3
  <2>4. CASE j = Len(q) + 1 /\ i \in DOMAIN q
    BY <1>2, <2>4
  <2> QED
    BY <2>1, <2>2, <2>3, <2>4
<1> QED
  BY <1>0, <1>1, <1>2, <1>4, <1>5, <1>6 DEF Books

\* The tail is what is left when the head is removed.
LEMMA BooksTail ==
  ASSUME NEW q, NEW b, Books(q, b), q # <<>>
  PROVE  Books(Tail(q), b - Head(q).size)
<1>1. q \in Seq(Event)
  BY DEF Books
<1>2. PICK r : r = RemoveAt(q, 1)
  OBVIOUS
<1>3. /\ Tail(q) \in Seq(Event) /\ 1 \in DOMAIN q /\ Head(q) = q[1] /\ Len(q) \in Nat
      /\ DOMAIN Tail(q) = 1 .. Len(q) - 1
      /\ \A i \in 1 .. Len(q) - 1 : Tail(q)[i] = q[i + 1]
  BY <1>1, TailPoints
<1>4. /\ r \in Seq(Event) /\ DOMAIN r = 1 .. Len(q) - 1
      /\ \A i \in 1 .. Len(q) - 1 : r[i] = IF i < 1 THEN q[i] ELSE q[i + 1]
  BY <1>1, <1>2, <1>3, RemovePoints
<1>5. \A i \in 1 .. Len(q) - 1 : r[i] = Tail(q)[i]
  BY <1>3, <1>4
<1>6. PICK t : t = Tail(q)
  OBVIOUS
<1>7. t \in Seq(Event) /\ DOMAIN t = DOMAIN r /\ \A i \in DOMAIN t : t[i] = r[i]
  BY <1>3, <1>4, <1>5, <1>6
<1>8. t = r
  <2>1. t = [i \in DOMAIN t |-> t[i]] /\ r = [i \in DOMAIN r |-> r[i]]
    BY <1>4, <1>7
  <2> QED
    BY <1>7, <2>1
<1>9. Books(r, b - q[1].size)
  BY <1>2, <1>3, BooksRemove
<1>10. t = Tail(q) /\ Head(q).size = q[1].size
  BY <1>3, <1>6
<1> QED
  BY <1>8, <1>9, <1>10

\* publish() keeps the deque in order: what does not fit is dropped, and what
\* is coalesced leaves before its successor comes.
LEMMA PublishBooks ==
  ASSUME IInv, Books(events, queuedBytes), NEW type \in Types, NEW size \in Sizes,
         Publish(type, size)
  PROVE  Books(events', queuedBytes')
<1> DEFINE e == [sequence |-> emitted, type |-> type, size |-> size]
<1>1. e \in Event
  BY DEF Event, IInv, StreamType
<1>2. \/ events' = events /\ queuedBytes' = queuedBytes
      \/ HasRoom(e) /\ Enqueue(e)
      \/ Overflow(e)
  BY DEF Publish, bufferVars
<1> HIDE DEF e
<1>3. /\ \A i \in Older(e) : i \in DOMAIN events /\ e.type \in Telemetry /\ events[i].type = e.type
      /\ \A i \in DOMAIN events : e.type \in Telemetry /\ events[i].type = e.type => i \in Older(e)
  BY DEF Older
<1>4. CASE HasRoom(e) /\ Enqueue(e)
  <2>1. CASE Older(e) = {}
    <3>1. /\ Fits(events, queuedBytes, e)
          /\ events' = Append(events, e) /\ queuedBytes' = queuedBytes + e.size
      BY <1>4, <2>1 DEF HasRoom, Enqueue
    <3>2. e.type \in Telemetry => \A i \in DOMAIN events : events[i].type # e.type
      BY <1>3, <2>1
    <3> QED
      BY <1>1, <3>1, <3>2, BooksAppend
  <2>2. CASE Older(e) # {}
    <3>1. PICK i \in Older(e) : Fits(RemoveAt(events, i), queuedBytes - events[i].size, e)
      BY <1>4, <2>2 DEF HasRoom
    <3>2. PICK j \in Older(e) : /\ events' = Append(RemoveAt(events, j), e)
                                /\ queuedBytes' = (queuedBytes - events[j].size) + e.size
      BY <1>4, <2>2 DEF Enqueue
    <3>3. i = j
      BY <1>3 DEF Books, Single
    <3>4. PICK r, b : r = RemoveAt(events, i) /\ b = queuedBytes - events[i].size
      OBVIOUS
    <3>5. Books(r, b) /\ \A m \in DOMAIN r : r[m].type # e.type
      BY <1>3, <3>4, BooksRemove
    <3>6. Fits(r, b, e) /\ events' = Append(r, e) /\ queuedBytes' = b + e.size
      BY <3>1, <3>2, <3>3, <3>4
    <3> QED
      BY <1>1, <3>5, <3>6, BooksAppend
  <2> QED
    BY <2>1, <2>2
<1>5. CASE Overflow(e)
  <2>1. \/ events' = events /\ queuedBytes' = queuedBytes
        \/ \E i \in Older(e) : /\ events' = RemoveAt(events, i)
                               /\ queuedBytes' = queuedBytes - events[i].size
    BY <1>5 DEF Overflow
  <2> QED
    BY <1>3, <2>1, BooksRemove
<1> QED
  BY <1>2, <1>4, <1>5

\* So does every other step.
LEMMA BooksStep ==
  ASSUME IInv, Books(events, queuedBytes), [Next]_vars
  PROVE  Books(events', queuedBytes')
<1>1. CASE \E type \in Types, size \in Sizes : Publish(type, size)
  BY <1>1, PublishBooks
<1>2. CASE Get \/ WriteFails
  <2>1. \/ events' = events /\ queuedBytes' = queuedBytes
        \/ events' = <<>> /\ queuedBytes' = 0
        \/ /\ events # <<>> /\ events' = Tail(events)
           /\ queuedBytes' = queuedBytes - Head(events).size
    BY <1>2 DEF Get, WriteFails
  <2> QED
    BY <2>1, BooksTail, BooksEmpty
<1>3. CASE Drain
  BY <1>3, BooksEmpty DEF Drain
<1>4. CASE \/ \E outcome \in {"result", "failed"} : Finish(outcome)
           \/ Die \/ Cancel \/ Settle \/ Close
           \/ \E verdict \in {"TIMED_OUT", "CANCELLED"} : GiveUp(verdict)
           \/ Check \/ Disconnect \/ UNCHANGED vars
  <2>1. events' = events /\ queuedBytes' = queuedBytes
    BY <1>4 DEF Finish, Die, Cancel, Settle, Close, GiveUp, Check, Disconnect, vars, bufferVars
  <2> QED
    BY <2>1
<1> QED
  BY <1>1, <1>2, <1>3, <1>4 DEF Next, HandlerStep

\* The books of the buffer are right in every state, for any bounds and any
\* sizes: neither bound is exceeded, _queued_bytes is the sum of the sizes in
\* the deque, there is one event of each kind of telemetry at most, and every
\* event of the worker was counted.
THEOREM BufferIsAccounted == Spec => []Accounted
<1>1. Init => BooksInv
  BY BooksEmpty DEF Init, BooksInv
<1>2. IInv /\ BooksInv /\ [Next]_vars => BooksInv'
  BY BooksStep DEF BooksInv
<1>3. IInv /\ BooksInv => Accounted
  <2> SUFFICES ASSUME IInv, BooksInv PROVE Accounted
    OBVIOUS
  <2>0. Books(events, queuedBytes)
    BY DEF BooksInv
  <2>1. TypeOK
    BY <2>0 DEF IInv, StreamType, Books, TypeOK
  <2>2. Bounded
    BY <2>0 DEF Books, Single, BytesOf, Bounded
  <2> QED
    BY <2>1, <2>2 DEF IInv, Accounted
<1> QED
  BY <1>1, <1>2, <1>3, Invariance, PTL DEF Spec
==============================================================================
