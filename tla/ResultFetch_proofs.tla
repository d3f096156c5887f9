------------------------- MODULE ResultFetch_proofs --------------------------
(***************************************************************************)
(* What holds of stored results and of the clients that read them, for     *)
(* every set of sessions, size of batch and number of losses.              *)
(***************************************************************************)
EXTENDS ResultFetch, SequenceTheorems, TLAPS

-----------------------------------------------------------------------------
(* Offsets and indices                                                     *)

LEMMA ChunksPerBatchIsPositive ==
    ChunksPerBatch \in Nat /\ ChunksPerBatch >= 1
  BY BatchesHoldChunks

LEMMA ProductsAreMonotone ==
    \A i, j, k \in Nat : i =< j => i * k =< j * k
  OBVIOUS

\* The number of batches that n chunks fill is the least j for which j batches hold them.
LEMMA CeilingIsLeast ==
    ASSUME NEW n \in Nat, NEW j \in Nat
    PROVE  /\ Ceiling(n) \in Nat
           /\ Ceiling(n) =< j <=> n =< j * ChunksPerBatch
  <1> DEFINE C == ChunksPerBatch
             q == (n + C - 1) \div C
  <1>1. C \in Nat /\ C >= 1
    BY ChunksPerBatchIsPositive
  <1> HIDE DEF C
  <1>2. q \in Nat /\ q * C =< n + C - 1 /\ n + C - 1 < q * C + C
    BY <1>1
  <1>3. Ceiling(n) = q
    BY DEF Ceiling, C
  <1> HIDE DEF q
  <1>4. ASSUME q =< j
        PROVE  n =< j * C
    <2>1. q * C =< j * C
      BY <1>1, <1>2, <1>4, ProductsAreMonotone
    <2>2. j * C \in Nat /\ q * C \in Nat
      BY <1>1, <1>2
    <2>3. QED
      BY <1>1, <1>2, <2>1, <2>2
  <1>5. ASSUME n =< j * C, ~(q =< j)
        PROVE  FALSE
    <2>1. (j + 1) * C =< q * C
      BY <1>1, <1>2, <1>5, ProductsAreMonotone
    <2>2. (j + 1) * C = j * C + C
      BY <1>1
    <2>3. j * C \in Nat /\ q * C \in Nat
      BY <1>1, <1>2
    <2>4. QED
      BY <1>1, <1>2, <1>5, <2>1, <2>2, <2>3
  <1>6. QED
    BY <1>2, <1>3, <1>4, <1>5 DEF C

\* A whole number of batches.
Whole(n) == \E m \in Nat : n = m * ChunksPerBatch

LEMMA CeilingOfWhole ==
    ASSUME NEW m \in Nat
    PROVE  m * ChunksPerBatch \in Nat /\ Ceiling(m * ChunksPerBatch) = m
  <1>1. m * ChunksPerBatch \in Nat
    BY ChunksPerBatchIsPositive
  <1> DEFINE n == m * ChunksPerBatch
             c == Ceiling(n)
  <1>2. c \in Nat /\ c =< m
    BY <1>1, CeilingIsLeast
  <1>3. n =< c * ChunksPerBatch
    BY <1>1, <1>2, CeilingIsLeast
  <1>4. ~(c + 1 =< m)
    <2> HIDE DEF c
    <2> SUFFICES ASSUME c + 1 =< m PROVE FALSE
      OBVIOUS
    <2>1. (c + 1) * ChunksPerBatch =< m * ChunksPerBatch
      BY <1>2, ChunksPerBatchIsPositive, ProductsAreMonotone
    <2>2. (c + 1) * ChunksPerBatch = c * ChunksPerBatch + ChunksPerBatch
      BY <1>2, ChunksPerBatchIsPositive
    <2>3. c * ChunksPerBatch \in Nat
      BY <1>2, ChunksPerBatchIsPositive
    <2>4. QED
      BY <1>1, <1>3, <2>1, <2>2, <2>3, ChunksPerBatchIsPositive
  <1>5. QED
    <2> HIDE DEF c
    <2>1. c = m
      BY <1>2, <1>4
    <2>2. QED
      BY <1>1, <2>1 DEF c

LEMMA CeilingIsBounded ==
    ASSUME NEW n \in 0 .. MaxChunks
    PROVE  Ceiling(n) \in 0 .. MaxChunks
  <1>1. n \in Nat /\ MaxChunks \in Nat
    BY BoundsAreNaturals
  <1>2. n =< n * ChunksPerBatch
    <2>1. n * 1 =< n * ChunksPerBatch
      BY <1>1, ChunksPerBatchIsPositive
    <2>2. QED
      BY <1>1, <2>1
  <1>3. Ceiling(n) \in Nat /\ Ceiling(n) =< n
    BY <1>1, <1>2, CeilingIsLeast
  <1>4. QED
    BY <1>1, <1>3

\* An offset stands at a whole number of batches or at the end.
Aligned(n, size) == n \in Nat /\ n =< size /\ (n = size \/ Whole(n))

\* The next offset is aligned too.  It is the old one at the end only, and otherwise the
\* batch up to it has the index after the batches before it.
LEMMA OffsetsGoOnByBatches ==
    ASSUME NEW x, x.size \in Nat, Aligned(x.next, x.size)
    PROVE  /\ Aligned(NextOffset(x), x.size)
           /\ x.next =< NextOffset(x)
           /\ NextOffset(x) = x.next <=> x.next = x.size
           /\ x.next # x.size => BatchIndex(x) = Ceiling(x.next) + 1
  <1> DEFINE C == ChunksPerBatch
             o == NextOffset(x)
  <1>1. C \in Nat /\ C >= 1
    BY ChunksPerBatchIsPositive
  <1>2. x.next \in Nat /\ x.next =< x.size
    BY DEF Aligned
  <1>3. CASE x.next = x.size
    BY <1>1, <1>2, <1>3 DEF NextOffset, Smaller, Aligned
  <1>4. CASE x.next # x.size
    <2>1. PICK m \in Nat : x.next = m * C
      BY <1>4 DEF Aligned, Whole
    <2>2. Ceiling(x.next) = m
      BY <2>1, CeilingOfWhole
    <2>3. (m + 1) * C = x.next + C
      BY <1>1, <2>1
    <2> HIDE DEF C
    <2>4. o = IF x.next + C < x.size THEN x.next + C ELSE x.size
      BY DEF NextOffset, Smaller, C
    <2> HIDE DEF o
    <2>5. o \in Nat /\ o =< x.size /\ x.next < o /\ o =< x.next + C
      BY <1>1, <1>2, <1>4, <2>4
    <2>6. o = x.size \/ Whole(o)
      BY <2>3, <2>4 DEF Whole, C
    <2>7. Ceiling(o) =< m + 1
      BY <2>3, <2>5, CeilingIsLeast DEF C
    <2>8. ~(Ceiling(o) =< m)
      BY <1>2, <2>1, <2>5, CeilingIsLeast DEF C
    <2>9. Ceiling(o) \in Nat
      BY <2>5, CeilingIsLeast
    <2>10. Ceiling(o) = m + 1
      BY <2>7, <2>8, <2>9
    <2>11. QED
      BY <1>2, <1>4, <2>2, <2>5, <2>6, <2>10 DEF Aligned, BatchIndex, o
  <1>5. QED
    BY <1>3, <1>4

-----------------------------------------------------------------------------
(* What a client knows                                                     *)

Chunks(n) == [i \in 1 .. n |-> i]

ClientRecord ==
    [phase : Phase, id : ResultId \cup {NoId}, size : 0 .. MaxChunks,
     got : {Chunks(n) : n \in 0 .. MaxChunks}, index : 0 .. MaxChunks, timeouts : Nat]

LEMMA ChunksAreASequence ==
    ASSUME NEW n \in Nat
    PROVE  /\ Chunks(n) \in Seq(Nat)
           /\ Len(Chunks(n)) = n
           /\ \A i \in 1 .. n : Chunks(n)[i] = i
  BY DEF Chunks

\* A prefix followed by the chunks after it is a longer prefix.
LEMMA PrefixGrows ==
    ASSUME NEW g \in Nat, NEW o \in Nat, g =< o, NEW more \in Seq(Nat),
           Len(more) = o - g, \A i \in 1 .. Len(more) : more[i] = g + i
    PROVE  Chunks(g) \o more = Chunks(o)
  <1>1. Chunks(g) \in Seq(Nat) /\ Len(Chunks(g)) = g /\ \A i \in 1 .. g : Chunks(g)[i] = i
    BY ChunksAreASequence
  <1>2. Chunks(o) \in Seq(Nat) /\ Len(Chunks(o)) = o /\ \A i \in 1 .. o : Chunks(o)[i] = i
    BY ChunksAreASequence
  <1> DEFINE all == Chunks(g) \o more
  <1>3. all \in Seq(Nat) /\ Len(all) = o
    <2>1. all \in Seq(Nat) /\ Len(all) = Len(Chunks(g)) + Len(more)
      BY <1>1, ConcatProperties, Zenon
    <2> HIDE DEF all
    <2>2. QED
      BY <1>1, <2>1
  <1>4. \A i \in 1 .. o : all[i] = i
    <2> TAKE i \in 1 .. o
    <2>1. i \in 1 .. Len(Chunks(g)) + Len(more)
      BY <1>1
    <2>2. all[i] = IF i <= Len(Chunks(g)) THEN Chunks(g)[i] ELSE more[i - Len(Chunks(g))]
      BY <1>1, <2>1, ConcatProperties
    <2>3. i > g => more[i - g] = i
      <3>1. i > g => i - g \in 1 .. Len(more) /\ g + (i - g) = i
        OBVIOUS
      <3>2. QED
        BY <3>1
    <2>4. QED
      BY <1>1, <2>2, <2>3
  <1> HIDE DEF all
  <1>5. all = Chunks(o)
    BY <1>2, <1>3, <1>4, SeqEqual
  <1>6. QED
    BY <1>5 DEF all

\* A client has the first chunks of its result, has counted their batches, and is done
\* only when it has them all.
Knows(k) ==
    /\ k \in ClientRecord
    /\ Aligned(Len(k.got), k.size)
    /\ k.index = Ceiling(Len(k.got))
    /\ k.phase = "complete" => Len(k.got) = k.size
    /\ k.phase = "broken" => k.timeouts > 0

LEMMA GotIsAPrefix ==
    ASSUME NEW k \in ClientRecord
    PROVE  /\ Len(k.got) \in 0 .. MaxChunks
           /\ k.got = Chunks(Len(k.got))
           /\ k.size \in Nat
  <1>1. PICK n \in 0 .. MaxChunks : k.got = Chunks(n)
    BY DEF ClientRecord
  <1>2. n \in Nat
    BY <1>1, BoundsAreNaturals
  <1>3. k.size \in Nat
    BY BoundsAreNaturals DEF ClientRecord
  <1>4. QED
    BY <1>1, <1>2, <1>3, ChunksAreASequence

\* The stored result a client reads is of the size it thinks, and not behind it.
NotBehind(k, x) == x.size = k.size /\ Aligned(x.next, x.size) /\ x.next >= Len(k.got)

LEMMA BatchLength ==
    ASSUME NEW x, x.size \in Nat, Aligned(x.next, x.size)
    PROVE  /\ Batch(x) \in Seq(Nat)
           /\ Len(Batch(x)) = NextOffset(x) - x.next
           /\ \A i \in 1 .. Len(Batch(x)) : Batch(x)[i] = x.next + i
           /\ Batch(x) = <<>> <=> x.next = x.size
  <1>1. NextOffset(x) - x.next \in Nat /\ x.next \in Nat
    BY OffsetsGoOnByBatches DEF Aligned
  <1>2. NextOffset(x) - x.next = 0 <=> x.next = x.size
    BY OffsetsGoOnByBatches DEF Aligned
  <1> DEFINE n == NextOffset(x) - x.next
  <1> HIDE DEF n
  <1>3. Batch(x) = [i \in 1 .. n |-> x.next + i]
    BY DEF Batch, n
  <1>4. Batch(x) \in Seq(Nat) /\ Len(Batch(x)) = n
    BY <1>1, <1>3 DEF n
  <1>5. Batch(x) = <<>> <=> n = 0
    BY <1>4
  <1>6. QED
    BY <1>1, <1>2, <1>3, <1>4, <1>5 DEF n

\* The index tells whether a batch is the one after those a client has: if so, nothing
\* lies between; an empty one with the last index says that nothing is left.
LEMMA IndexTellsGaps ==
    ASSUME NEW k, Knows(k), NEW x, NotBehind(k, x)
    PROVE  /\ x.next # x.size => (BatchIndex(x) = k.index + 1 <=> x.next = Len(k.got))
           /\ x.next = x.size => (BatchIndex(x) = k.index <=> Len(k.got) = k.size)
  <1> DEFINE g == Len(k.got)
  <1>1. /\ g \in Nat /\ k.size \in Nat
        /\ Aligned(g, k.size) /\ Aligned(x.next, k.size) /\ x.size = k.size
        /\ x.next >= g
        /\ k.index = Ceiling(g)
    BY GotIsAPrefix DEF Knows, NotBehind
  <1> HIDE DEF g
  <1>2. x.next \in Nat /\ Ceiling(g) \in Nat /\ Ceiling(x.next) \in Nat
    BY <1>1, CeilingIsLeast DEF Aligned
  <1>3. ASSUME x.next # x.size
        PROVE  BatchIndex(x) = k.index + 1 <=> x.next = g
    <2>1. BatchIndex(x) = Ceiling(x.next) + 1
      BY <1>1, <1>3, OffsetsGoOnByBatches
    <2>2. Whole(x.next) /\ Whole(g)
      BY <1>1, <1>2, <1>3 DEF Aligned
    <2>3. PICK m \in Nat : x.next = m * ChunksPerBatch
      BY <2>2 DEF Whole
    <2>4. PICK j \in Nat : g = j * ChunksPerBatch
      BY <2>2 DEF Whole
    <2>5. Ceiling(x.next) = m /\ Ceiling(g) = j
      BY <2>3, <2>4, CeilingOfWhole
    <2>6. m = j <=> x.next = g
      BY <2>3, <2>4, <2>5
    <2>7. QED
      BY <1>1, <2>1, <2>5, <2>6
  <1>4. ASSUME x.next = x.size
        PROVE  BatchIndex(x) = k.index <=> g = k.size
    <2>1. BatchIndex(x) = Ceiling(k.size)
      BY <1>1, <1>4, OffsetsGoOnByBatches DEF BatchIndex
    <2>2. ASSUME g # k.size
          PROVE  Ceiling(k.size) # Ceiling(g)
      <3>1. PICK j \in Nat : g = j * ChunksPerBatch
        BY <1>1, <2>2 DEF Aligned, Whole
      <3>2. Ceiling(g) = j
        BY <3>1, CeilingOfWhole
      <3>3. g < k.size
        BY <1>1, <2>2 DEF Aligned
      <3>4. ~(Ceiling(k.size) =< j)
        BY <1>1, <3>1, <3>3, CeilingIsLeast
      <3>5. QED
        BY <3>2, <3>4
    <2>3. QED
      BY <1>1, <2>1, <2>2
  <1>5. QED
    BY <1>3, <1>4 DEF g

\* A client that takes a batch goes on knowing a prefix.
LEMMA AfterBatchKnows ==
    ASSUME NEW k, Knows(k), NEW x, NotBehind(k, x),
           k.timeouts = 0 => x.next = Len(k.got)
    PROVE  LET after == AfterBatch(k, x) IN
           /\ Knows(after)
           /\ after.id = k.id /\ after.size = k.size /\ after.timeouts = k.timeouts
           /\ NextOffset(x) >= Len(after.got)
           /\ after.phase \in {"reading", "complete", "broken"}
           /\ after.phase = "reading" => NextOffset(x) = Len(after.got)
  <1> DEFINE after == AfterBatch(k, x)
             o == NextOffset(x)
             whole == Batch(x) = <<>> /\ BatchIndex(x) = k.index
             next == Batch(x) # <<>> /\ BatchIndex(x) = k.index + 1
  <1>1. /\ k \in ClientRecord
        /\ Len(k.got) \in Nat /\ k.size \in Nat /\ k.index \in Nat
        /\ k.got = Chunks(Len(k.got))
        /\ x.size = k.size /\ x.next \in Nat /\ x.next >= Len(k.got)
        /\ Aligned(x.next, x.size)
        /\ k.timeouts \in Nat
    BY GotIsAPrefix, BoundsAreNaturals DEF Knows, NotBehind, Aligned, ClientRecord
  <1>2. /\ Aligned(o, k.size)
        /\ x.next =< o
        /\ o \in Nat /\ o =< k.size
    BY <1>1, OffsetsGoOnByBatches DEF Aligned
  <1>3. Batch(x) = <<>> <=> x.next = x.size
    BY <1>1, BatchLength
  <1>4. whole => Len(k.got) = k.size
    BY <1>1, <1>3, IndexTellsGaps
  <1>5. next <=> x.next # x.size /\ x.next = Len(k.got)
    BY <1>1, <1>3, IndexTellsGaps
  <1>6. k.timeouts = 0 => whole \/ next
    BY <1>1, <1>3, IndexTellsGaps
  <1>7. CASE next
    <2> DEFINE got == k.got \o Batch(x)
    <2>1. x.next = Len(k.got)
      BY <1>5, <1>7
    <2>2. got = Chunks(o)
      <3>1. /\ Batch(x) \in Seq(Nat) /\ Len(Batch(x)) = o - x.next
            /\ \A i \in 1 .. Len(Batch(x)) : Batch(x)[i] = x.next + i
        BY <1>1, BatchLength
      <3>2. k.got = Chunks(x.next)
        BY <1>1, <2>1
      <3> HIDE DEF o
      <3>3. Chunks(x.next) \o Batch(x) = Chunks(o)
        BY <1>1, <1>2, <3>1, PrefixGrows
      <3>4. QED
        BY <3>2, <3>3
    <2>3. Len(got) = o
      BY <1>2, <2>2, ChunksAreASequence
    <2> HIDE DEF got
    <2>4. after = [k EXCEPT !.phase = "reading", !.got = got, !.index = BatchIndex(x)]
      BY <1>7 DEF AfterBatch, got
    <2>5. o \in 0 .. MaxChunks
      BY <1>1, <1>2, BoundsAreNaturals DEF ClientRecord
    <2>6. BatchIndex(x) = Ceiling(o) /\ BatchIndex(x) \in 0 .. MaxChunks
      BY <2>5, CeilingIsBounded DEF BatchIndex
    <2> HIDE DEF after, o
    <2>7. /\ after \in ClientRecord
          /\ after.got = got /\ after.index = BatchIndex(x) /\ after.phase = "reading"
          /\ after.id = k.id /\ after.size = k.size /\ after.timeouts = k.timeouts
      BY <1>1, <2>2, <2>4, <2>5, <2>6 DEF ClientRecord, Phase
    <2>8. Knows(after)
      BY <1>2, <2>3, <2>6, <2>7 DEF Knows
    <2>9. QED
      BY <1>2, <2>3, <2>7, <2>8 DEF after, o
  <1>8. CASE ~next
    <2> DEFINE end == IF whole THEN "complete" ELSE "broken"
    <2>1. after = [k EXCEPT !.phase = end]
      BY <1>8 DEF AfterBatch
    <2>2. end \in Phase /\ end \in {"complete", "broken"}
      BY DEF Phase
    <2>3. end = "broken" => k.timeouts > 0
      BY <1>1, <1>6, <1>8
    <2>4. end = "complete" => Len(k.got) = k.size
      BY <1>4
    <2> HIDE DEF end, after, next, whole, o
    <2>5. /\ after \in ClientRecord
          /\ after.phase = end
          /\ after.got = k.got /\ after.index = k.index
          /\ after.id = k.id /\ after.size = k.size /\ after.timeouts = k.timeouts
      BY <1>1, <2>1, <2>2 DEF ClientRecord
    <2>6. Knows(after)
      BY <2>3, <2>4, <2>5 DEF Knows
    <2>7. o >= Len(after.got)
      BY <1>1, <1>2, <2>5
    <2>8. QED
      BY <2>2, <2>5, <2>6, <2>7 DEF after, o
  <1>9. QED
    BY <1>7, <1>8

-----------------------------------------------------------------------------
(* The invariant                                                           *)

\* A result is stored for an open session, under an id that was issued.
ResultsInv ==
    /\ \A x \in results :
          /\ x \in Result
          /\ x.session \in open
          /\ x.id =< issued
          /\ Aligned(x.next, x.size)
    /\ \A x, y \in results : x.session = y.session => x = y

\* What the client of a request waits for while it awaits this one's answer.
WaitsFor(r, k) ==
    \/ r.kind = "prepare" /\ k.phase = "preparing"
    \/ r.kind = "fetch" /\ k.phase = "fetching" /\ r.id = k.id
    \/ r.kind = "disconnect" /\ k.phase = "leaving"

RequestsInv ==
    /\ \A r \in requests :
          /\ r \in Request
          /\ r.try =< client[r.session].timeouts
          /\ Awaited(r) => WaitsFor(r, client[r.session])
    /\ \A r, q \in requests : r.session = q.session /\ Awaited(r) /\ Awaited(q) => r = q

\* No stored result with the id a client has is behind it.
Sound(k, s, xs) == \A x \in xs : x.session = s /\ x.id = k.id => NotBehind(k, x)

\* The result that is stored for a client is exactly where the client is.
InStep(k, s, xs) == \E x \in xs : x.session = s /\ x.id = k.id /\ x.next = Len(k.got)

SessionInv(s) ==
    /\ Knows(client[s])
    /\ client[s].id =< issued
    /\ Sound(client[s], s, results)
    /\ /\ client[s].timeouts = 0
       /\ \/ client[s].phase = "reading"
          \/ client[s].phase = "fetching" /\ \E r \in requests : r.session = s
       => InStep(client[s], s, results)

IInv ==
    /\ open \subseteq Session
    /\ issued \in 0 .. MaxResults
    /\ client \in [Session -> ClientRecord]
    /\ ResultsInv
    /\ RequestsInv
    /\ \A s \in Session : SessionInv(s)

-----------------------------------------------------------------------------
(* Steps                                                                   *)

Others(s, xs) == {x \in xs : x.session # s}

\* A session's part of the invariant does not depend on other sessions' requests,
\* results and clients.
LEMMA SessionFrame ==
    ASSUME NEW t \in Session, NEW s \in Session, s # t, SessionInv(s),
           client'[s] = client[s],
           issued \in Nat, issued' \in Nat, issued =< issued',
           client[s].id \in Nat,
           Others(t, results)' = Others(t, results),
           \A q \in requests' : q.session = s => q \in requests
    PROVE  SessionInv(s)'
  <1>1. \A x : x.session = s => (x \in results' <=> x \in results)
    BY DEF Others
  <1>2. Sound(client[s], s, results')
    BY <1>1 DEF SessionInv, Sound
  <1>3. InStep(client[s], s, results) => InStep(client[s], s, results')
    BY <1>1 DEF InStep
  <1>4. QED
    BY <1>2, <1>3 DEF SessionInv

LEMMA IdsAreNaturals ==
    /\ \A k \in ClientRecord : k.id \in Nat /\ k.timeouts \in Nat
    /\ \A r \in Request : r.session \in Session /\ r.try \in Nat
    /\ \A x \in Result : x.session \in Session /\ x.id \in Nat /\ x.size \in Nat /\ x.next \in Nat
  BY BoundsAreNaturals DEF ClientRecord, Request, Result, ResultId, NoId

\* Another phase alone changes nothing of what a client knows.
LEMMA PhaseStep ==
    ASSUME NEW k, Knows(k), NEW p \in Phase, p # "complete", p = "broken" => k.timeouts > 0
    PROVE  LET after == [k EXCEPT !.phase = p] IN
           /\ Knows(after)
           /\ after.phase = p
           /\ after.id = k.id /\ after.size = k.size
           /\ after.got = k.got /\ after.timeouts = k.timeouts
  <1>1. k \in ClientRecord
    BY DEF Knows
  <1> DEFINE after == [k EXCEPT !.phase = p]
  <1>2. /\ after \in ClientRecord
        /\ after.phase = p
        /\ after.id = k.id /\ after.size = k.size /\ after.index = k.index
        /\ after.got = k.got /\ after.timeouts = k.timeouts
    BY <1>1 DEF ClientRecord
  <1> HIDE DEF after
  <1>3. Knows(after)
    BY <1>2 DEF Knows
  <1>4. QED
    BY <1>2, <1>3 DEF after

\* A client that sends waited for nothing, and waits for what it sends.
LEMMA SendStep ==
    ASSUME IInv, NEW s \in Session, NEW kind, NEW id, NEW phase,
           client[s].phase \in Phase \ Waiting,
           \/ kind = "prepare" /\ phase = "preparing" /\ id = NoId
           \/ kind = "fetch" /\ phase = "fetching" /\ id = client[s].id
              /\ client[s].phase = "reading"
           \/ kind = "disconnect" /\ phase = "leaving" /\ id = NoId,
           Send(s, kind, id, phase)
    PROVE  IInv'
  <1> DEFINE k == client[s]
             after == [k EXCEPT !.phase = phase]
             q == [session |-> s, kind |-> kind, id |-> id, try |-> k.timeouts]
  <1>1. /\ k \in ClientRecord /\ Knows(k) /\ k.id \in Nat /\ k.timeouts \in Nat
        /\ issued \in Nat
    BY IdsAreNaturals, BoundsAreNaturals DEF IInv, SessionInv
  <1>2. phase \in Phase /\ phase # "complete" /\ phase # "broken" /\ phase # "reading"
    BY DEF Phase, Waiting
  <1>3. /\ Knows(after) /\ after.phase = phase /\ after.id = k.id /\ after.size = k.size
        /\ after.got = k.got /\ after.timeouts = k.timeouts /\ after \in ClientRecord
    BY <1>1, <1>2, PhaseStep DEF Knows
  <1>4. /\ requests' = requests \cup {q}
        /\ client' = [client EXCEPT ![s] = after]
        /\ UNCHANGED <<open, results, issued>>
    BY DEF Send, IInv
  <1>5. q \in Request
    BY <1>1 DEF Request, ClientRecord
  <1> HIDE DEF after
  <1>6. client' \in [Session -> ClientRecord] /\ client'[s] = after
    BY <1>3, <1>4 DEF IInv
  <1>7. ResultsInv'
    BY <1>4 DEF IInv, ResultsInv
  <1>8. RequestsInv'
    <2>1. \A r \in requests : r.session = s => r.try # k.timeouts
      BY DEF IInv, RequestsInv, Awaited, WaitsFor, Waiting
    <2>2. \A r \in requests : r.session # s => client'[r.session] = client[r.session]
      BY <1>4, IdsAreNaturals DEF IInv, RequestsInv
    <2>3. WaitsFor(q, after) /\ q.try = after.timeouts /\ q.session = s
      BY <1>3 DEF WaitsFor
    <2>4. \A r \in requests' :
             /\ r \in Request
             /\ r.try =< client'[r.session].timeouts
             /\ r.try = client'[r.session].timeouts => WaitsFor(r, client'[r.session])
      <3>1. ASSUME NEW r \in requests, r.session # s
            PROVE  /\ r \in Request
                   /\ r.try =< client'[r.session].timeouts
                   /\ r.try = client'[r.session].timeouts => WaitsFor(r, client'[r.session])
        BY <2>2, <3>1 DEF IInv, RequestsInv, Awaited
      <3>2. ASSUME NEW r \in requests, r.session = s
            PROVE  /\ r \in Request
                   /\ r.try =< client'[r.session].timeouts
                   /\ r.try # client'[r.session].timeouts
        BY <1>3, <1>6, <2>1, <3>2 DEF IInv, RequestsInv
      <3>3. /\ q \in Request
            /\ q.try =< client'[q.session].timeouts
            /\ WaitsFor(q, client'[q.session])
        BY <1>1, <1>3, <1>5, <1>6, <2>3
      <3>4. QED
        BY <1>4, <3>1, <3>2, <3>3
    <2>5. \A r, p \in requests' :
             /\ r.session = p.session
             /\ r.try = client'[r.session].timeouts
             /\ p.try = client'[p.session].timeouts
             => r = p
      BY <1>3, <1>4, <1>6, <2>1, <2>2, <2>3 DEF IInv, RequestsInv, Awaited
    <2>6. QED
      BY <2>4, <2>5 DEF RequestsInv, Awaited
  <1>9. ASSUME NEW u \in Session
        PROVE  SessionInv(u)'
    <2>1. CASE u # s
      <3>1. \A p \in requests' : p.session = u => p \in requests
        BY <1>4, <2>1
      <3>2. client'[u] = client[u] /\ client[u].id \in Nat /\ Others(s, results)' = Others(s, results)
        BY <1>4, <2>1, IdsAreNaturals DEF IInv, Others
      <3>3. QED
        BY <1>1, <1>4, <2>1, <3>1, <3>2, SessionFrame DEF IInv
    <2>2. CASE u = s
      <3>1. Sound(after, s, results)
        BY <1>3 DEF IInv, SessionInv, Sound, NotBehind
      <3>2. phase = "fetching" /\ k.timeouts = 0 => InStep(after, s, results)
        BY <1>3 DEF IInv, SessionInv, InStep
      <3>3. QED
        BY <1>1, <1>2, <1>3, <1>4, <1>6, <2>2, <3>1, <3>2 DEF IInv, SessionInv
    <2>3. QED
      BY <2>1, <2>2
  <1>10. QED
    BY <1>4, <1>6, <1>7, <1>8, <1>9 DEF IInv

\* A client that gives a request up awaits none that is under way.
LEMMA TimeOutStep ==
    ASSUME IInv, NEW s \in Session, TimeOut(s)
    PROVE  IInv'
  <1> DEFINE k == client[s]
             p == CASE k.phase = "preparing" -> "idle"
                    [] k.phase = "fetching"  -> "reading"
                    [] k.phase = "leaving"   -> "gone"
             later == [k EXCEPT !.timeouts = k.timeouts + 1]
             after == [later EXCEPT !.phase = p]
  <1>1. /\ k \in ClientRecord /\ Knows(k) /\ k.id \in Nat /\ k.timeouts \in Nat
        /\ issued \in Nat
    BY IdsAreNaturals, BoundsAreNaturals DEF IInv, SessionInv
  <1>2. p \in {"idle", "reading", "gone"} /\ p \in Phase
    BY DEF TimeOut, Waiting, Phase
  <1>3. /\ UNCHANGED <<open, results, issued, requests>>
        /\ client' = [client EXCEPT ![s] = after]
    <2>1. /\ UNCHANGED <<open, results, issued, requests>>
          /\ client' = [client EXCEPT ![s].timeouts = k.timeouts + 1, ![s].phase = p]
      BY DEF TimeOut
    <2> HIDE DEF p
    <2>2. client \in [Session -> ClientRecord]
      BY DEF IInv
    <2>3. [client EXCEPT ![s].timeouts = k.timeouts + 1, ![s].phase = p]
              = [client EXCEPT ![s] = after]
      BY <2>2
    <2>4. QED
      BY <2>1, <2>3
  <1> HIDE DEF p
  <1>4. /\ later \in ClientRecord /\ later.phase = k.phase
        /\ later.id = k.id /\ later.size = k.size /\ later.index = k.index
        /\ later.got = k.got /\ later.timeouts = k.timeouts + 1
    BY <1>1 DEF ClientRecord
  <1> HIDE DEF later
  <1>5. Knows(later)
    BY <1>1, <1>4 DEF Knows
  <1>6. /\ Knows(after) /\ after.phase = p /\ after.id = k.id /\ after.size = k.size
        /\ after.got = k.got /\ after.timeouts = k.timeouts + 1 /\ after \in ClientRecord
    BY <1>2, <1>4, <1>5, PhaseStep DEF Knows
  <1> HIDE DEF after
  <1>7. client' \in [Session -> ClientRecord] /\ client'[s] = after
    BY <1>3, <1>6 DEF IInv
  <1>8. ResultsInv'
    BY <1>3 DEF IInv, ResultsInv
  <1>9. RequestsInv'
    <2>1. \A r \in requests : r.session = s =>
             /\ r.try \in Nat
             /\ r.try =< k.timeouts
      BY IdsAreNaturals DEF IInv, RequestsInv
    <2>2. \A r \in requests : r.session = s =>
             /\ r.try =< client'[r.session].timeouts
             /\ r.try # client'[r.session].timeouts
      BY <1>1, <1>6, <1>7, <2>1
    <2>3. \A r \in requests : r.session # s => client'[r.session] = client[r.session]
      BY <1>3, IdsAreNaturals DEF IInv, RequestsInv
    <2>4. QED
      BY <1>3, <2>2, <2>3 DEF IInv, RequestsInv, Awaited
  <1>10. ASSUME NEW u \in Session
         PROVE  SessionInv(u)'
    <2>1. CASE u # s
      <3>1. client'[u] = client[u] /\ client[u].id \in Nat /\ Others(s, results)' = Others(s, results)
        BY <1>3, <2>1, IdsAreNaturals DEF IInv, Others
      <3>2. QED
        BY <1>1, <1>3, <2>1, <3>1, SessionFrame DEF IInv
    <2>2. CASE u = s
      <3>1. Sound(after, s, results)
        BY <1>6 DEF IInv, SessionInv, Sound, NotBehind
      <3>2. QED
        BY <1>1, <1>3, <1>6, <1>7, <2>2, <3>1 DEF IInv, SessionInv
    <2>3. QED
      BY <2>1, <2>2
  <1>11. QED
    BY <1>3, <1>7, <1>8, <1>9, <1>10 DEF IInv

\* What serving a request does to the requests and the clients, whatever became of its
\* answer: a session that has lost nothing awaited it, and has no other under way.
LEMMA AnswerStep ==
    ASSUME IInv, NEW r \in requests, NEW k \in ClientRecord,
           k.timeouts = client[r.session].timeouts,
           Answer(r, k)
    PROVE  /\ requests' \subseteq requests
           /\ client' \in [Session -> ClientRecord]
           /\ RequestsInv'
           /\ \A s \in Session \ {r.session} : client'[s] = client[s]
           /\ \/ Awaited(r) /\ client'[r.session] = k
              \/ client'[r.session] = client[r.session]
           /\ client[r.session].timeouts = 0 =>
                 /\ WaitsFor(r, client[r.session])
                 /\ \A q \in requests' : q.session # r.session
  <1> DEFINE s == r.session
  <1>1. s \in Session /\ r.try \in Nat /\ r \in Request
    BY IdsAreNaturals DEF IInv, RequestsInv
  <1>2. client \in [Session -> ClientRecord] /\ requests' = requests \ {r}
    BY DEF Answer, IInv
  <1>3. client' \in [Session -> ClientRecord]
    BY <1>2 DEF Answer
  <1>4. \A t \in Session \ {s} : client'[t] = client[t]
    BY <1>2 DEF Answer
  <1>5. \/ Awaited(r) /\ client'[s] = k
        \/ client'[s] = client[s]
    BY <1>1, <1>2 DEF Answer
  <1>6. \A t \in Session : client'[t].timeouts = client[t].timeouts
    BY <1>4, <1>5
  <1>7. \A q \in requests : q \in Request /\ q.session \in Session /\ q.try \in Nat
    BY IdsAreNaturals DEF IInv, RequestsInv
  <1>8. RequestsInv'
    <2>1. ASSUME NEW q \in requests'
          PROVE  /\ q \in Request
                 /\ q.try =< client'[q.session].timeouts
                 /\ q.try = client'[q.session].timeouts => WaitsFor(q, client'[q.session])
      <3>1. q \in requests /\ q # r
        BY <1>2
      <3>2. q.try =< client'[q.session].timeouts
        BY <1>6, <1>7, <3>1 DEF IInv, RequestsInv
      <3>3. ASSUME q.try = client'[q.session].timeouts
            PROVE  WaitsFor(q, client'[q.session])
        <4>1. Awaited(q)
          BY <1>6, <1>7, <3>1, <3>3 DEF Awaited
        <4>2. client'[q.session] = client[q.session]
          <5>1. CASE q.session = s
            BY <1>5, <3>1, <4>1, <5>1 DEF IInv, RequestsInv
          <5>2. CASE q.session # s
            BY <1>4, <1>7, <3>1, <5>2
          <5>3. QED
            BY <5>1, <5>2
        <4>3. QED
          BY <3>1, <4>1, <4>2 DEF IInv, RequestsInv
      <3>4. QED
        BY <1>7, <3>1, <3>2, <3>3
    <2>2. \A q, p \in requests' :
             /\ q.session = p.session
             /\ q.try = client'[q.session].timeouts
             /\ p.try = client'[p.session].timeouts
             => q = p
      BY <1>2, <1>6, <1>7 DEF IInv, RequestsInv, Awaited
    <2>3. QED
      BY <2>1, <2>2 DEF RequestsInv, Awaited
  <1>9. ASSUME client[s].timeouts = 0
        PROVE  WaitsFor(r, client[s]) /\ \A q \in requests' : q.session # s
    <2>1. \A q \in requests : q.session = s => Awaited(q)
      BY <1>7, <1>9 DEF IInv, RequestsInv, Awaited
    <2>2. QED
      BY <1>2, <2>1 DEF IInv, RequestsInv
  <1>10. QED
    BY <1>2, <1>3, <1>4, <1>5, <1>8, <1>9

\* What a handler owes: results that stay in order and are another session's no more than
\* before, and a client that is as sound without the answer as with it.
LEMMA ServeStep ==
    ASSUME IInv, NEW r \in requests, NEW k \in ClientRecord,
           k.timeouts = client[r.session].timeouts,
           Answer(r, k),
           open' \subseteq open, issued' \in issued .. MaxResults,
           ResultsInv',
           Others(r.session, results)' = Others(r.session, results),
           Sound(client[r.session], r.session, results'),
           Awaited(r) =>
              /\ Knows(k)
              /\ k.id =< issued'
              /\ Sound(k, r.session, results')
              /\ k.phase # "fetching"
              /\ k.timeouts = 0 /\ k.phase = "reading" => InStep(k, r.session, results')
    PROVE  IInv'
  <1> DEFINE s == r.session
  <1>1. /\ s \in Session
        /\ issued \in Nat /\ issued' \in Nat /\ issued =< issued' /\ issued' \in 0 .. MaxResults
        /\ \A u \in Session : client[u] \in ClientRecord /\ client[u].id \in Nat
    BY IdsAreNaturals, BoundsAreNaturals DEF IInv, RequestsInv
  <1>2. /\ requests' \subseteq requests
        /\ client' \in [Session -> ClientRecord]
        /\ RequestsInv'
        /\ \A u \in Session \ {s} : client'[u] = client[u]
        /\ \/ Awaited(r) /\ client'[s] = k
           \/ client'[s] = client[s]
        /\ client[s].timeouts = 0 =>
              /\ WaitsFor(r, client[s])
              /\ \A q \in requests' : q.session # s
    BY AnswerStep
  <1>3. ASSUME NEW u \in Session
        PROVE  SessionInv(u)'
    <2>1. CASE u # s
      BY <1>1, <1>2, <2>1, SessionFrame DEF IInv
    <2>2. CASE u = s /\ Awaited(r) /\ client'[s] = k
      BY <1>2, <2>2 DEF SessionInv
    <2>3. CASE u = s /\ client'[s] = client[s]
      <3>1. client[s].timeouts = 0 => client[s].phase # "reading"
        BY <1>2 DEF WaitsFor
      <3>2. client[s].id =< issued'
        BY <1>1 DEF IInv, SessionInv
      <3>3. QED
        BY <1>1, <1>2, <2>3, <3>1, <3>2 DEF IInv, SessionInv
    <2>4. QED
      BY <1>2, <2>1, <2>2, <2>3
  <1>4. open' \subseteq Session
    BY DEF IInv
  <1>5. QED
    BY <1>1, <1>2, <1>3, <1>4 DEF IInv

\* The stored result is new, and the client has its first batch.
LEMMA PrepareStep ==
    ASSUME IInv, NEW r \in requests, NEW size \in 0 .. MaxChunks, Prepare(r, size)
    PROVE  IInv'
  <1> DEFINE s == r.session
             id == issued + 1
             x == [session |-> s, id |-> id, size |-> size, next |-> 0]
             o == NextOffset(x)
             y == [x EXCEPT !.next = o]
             p == IF size > o THEN "reading" ELSE "complete"
             k == [client[s] EXCEPT !.id = id, !.size = size, !.got = Batch(x),
                                    !.index = BatchIndex(x), !.phase = p]
  <1>1. /\ s \in Session /\ s \in open /\ size \in Nat
        /\ issued \in Nat /\ id \in Nat /\ id \in ResultId /\ issued' = id
        /\ results' = {z \in results : z.session # s} \cup {y}
        /\ Answer(r, k)
        /\ open' = open
    BY IdsAreNaturals, BoundsAreNaturals DEF Prepare, IInv, RequestsInv
  <1>2. Aligned(0, size) /\ Ceiling(0) = 0
    <2>1. 0 = 0 * ChunksPerBatch /\ 0 \in Nat
      BY ChunksPerBatchIsPositive
    <2>2. Ceiling(0 * ChunksPerBatch) = 0
      BY CeilingOfWhole
    <2>3. QED
      BY <1>1, <2>1, <2>2 DEF Aligned, Whole
  <1>3. x.next = 0 /\ x.size = size
    OBVIOUS
  <1>4. Aligned(o, size) /\ BatchIndex(x) = Ceiling(o)
    BY <1>1, <1>2, <1>3, OffsetsGoOnByBatches DEF BatchIndex
  <1>5. o \in 0 .. MaxChunks /\ o \in Nat /\ o =< size
    BY <1>1, <1>4, BoundsAreNaturals DEF Aligned
  <1> HIDE DEF o
  <1>6. Batch(x) = Chunks(o)
    <2>1. o - x.next = o /\ \A i \in 1 .. o : x.next + i = i
      BY <1>3, <1>5
    <2> HIDE DEF x
    <2>2. Batch(x) = [i \in 1 .. o - x.next |-> x.next + i]
      BY DEF Batch, o
    <2>3. QED
      BY <2>1, <2>2 DEF Chunks
  <1>7. BatchIndex(x) \in 0 .. MaxChunks
    BY <1>4, <1>5, CeilingIsBounded
  <1>8. client[s] \in ClientRecord /\ Len(Chunks(o)) = o
    BY <1>1, <1>5, ChunksAreASequence DEF IInv
  <1>9. p \in Phase /\ p \in {"reading", "complete"}
    BY DEF Phase
  <1>10. p = "complete" => o = size
    BY <1>1, <1>5
  <1> DEFINE index == BatchIndex(x)
             got == Batch(x)
  <1> HIDE DEF p, index, got
  <1>11. k = [client[s] EXCEPT !.id = id, !.size = size, !.got = got, !.index = index, !.phase = p]
    BY DEF index, got
  <1>12. got = Chunks(o) /\ got \in {Chunks(n) : n \in 0 .. MaxChunks} /\ index \in 0 .. MaxChunks
    BY <1>5, <1>6, <1>7 DEF got, index
  <1> HIDE DEF k, id
  <1>13. /\ k \in ClientRecord
         /\ k.id = id /\ k.size = size /\ k.got = got /\ k.index = index
         /\ k.phase = p /\ k.timeouts = client[s].timeouts
    BY <1>1, <1>8, <1>9, <1>11, <1>12 DEF ClientRecord
  <1>14. Len(k.got) = o
    BY <1>8, <1>12, <1>13
  <1>15. k.index = Ceiling(o)
    BY <1>4, <1>13 DEF index
  <1>16. Knows(k)
    BY <1>4, <1>9, <1>10, <1>13, <1>14, <1>15 DEF Knows
  <1>17. y = [session |-> s, id |-> id, size |-> size, next |-> o]
    OBVIOUS
  <1> HIDE DEF y, x
  <1>18. /\ y.session = s /\ y.id = id /\ y.size = size /\ y.next = o
         /\ y \in Result
    BY <1>1, <1>5, <1>17 DEF Result
  <1>19. ResultsInv'
    <2>1. \A z \in results' :
             /\ z \in Result
             /\ z.session \in open
             /\ z.id =< id
             /\ Aligned(z.next, z.size)
      <3>1. ASSUME NEW z \in results
            PROVE  /\ z \in Result
                   /\ z.session \in open
                   /\ z.id =< id
                   /\ Aligned(z.next, z.size)
        BY <1>1, IdsAreNaturals DEF IInv, ResultsInv, id
      <3>2. /\ y \in Result
            /\ y.session \in open
            /\ y.id =< id
            /\ Aligned(y.next, y.size)
        BY <1>1, <1>4, <1>18
      <3>3. QED
        BY <1>1, <3>1, <3>2
    <2>2. \A z, w \in results' : z.session = w.session => z = w
      BY <1>1, <1>18 DEF IInv, ResultsInv
    <2>3. QED
      BY <1>1, <2>1, <2>2 DEF ResultsInv
  <1>20. Others(s, results)' = Others(s, results)
    BY <1>1, <1>18 DEF Others
  <1>21. Sound(client[s], s, results')
    <2>1. client[s].id \in Nat /\ client[s].id =< issued
      BY <1>1, <1>8, IdsAreNaturals DEF IInv, SessionInv
    <2>2. client[s].id # id
      BY <1>1, <2>1 DEF id
    <2>3. QED
      BY <1>1, <1>18, <2>2 DEF Sound
  <1>22. Sound(k, s, results')
    <2>1. NotBehind(k, y)
      BY <1>4, <1>5, <1>13, <1>14, <1>18 DEF NotBehind
    <2>2. QED
      BY <1>1, <2>1 DEF Sound
  <1>23. InStep(k, s, results')
    BY <1>1, <1>13, <1>14, <1>18 DEF InStep
  <1>24. issued' \in issued .. MaxResults /\ k.id =< issued'
    BY <1>1, <1>13, BoundsAreNaturals DEF id, ResultId
  <1>25. QED
    BY <1>1, <1>9, <1>13, <1>16, <1>19, <1>20, <1>21, <1>22, <1>23, <1>24, ServeStep

\* A client that is told something else changes its phase only.
LEMMA ToldStep ==
    ASSUME IInv, NEW r \in requests, NEW p \in {"idle", "gone", "broken"},
           p = "broken" /\ Awaited(r) => client[r.session].timeouts > 0,
           Answer(r, [client[r.session] EXCEPT !.phase = p]),
           open' \subseteq open, issued' = issued, ResultsInv', results' \subseteq results,
           Others(r.session, results)' = Others(r.session, results)
    PROVE  IInv'
  <1> DEFINE s == r.session
             k == [client[s] EXCEPT !.phase = p]
  <1>1. s \in Session /\ issued \in 0 .. MaxResults /\ issued' \in issued .. MaxResults
    BY IdsAreNaturals, BoundsAreNaturals DEF IInv, RequestsInv
  <1>2. client[s] \in ClientRecord /\ Knows(client[s]) /\ Sound(client[s], s, results)
    BY <1>1 DEF IInv, SessionInv
  <1>3. p \in Phase
    BY DEF Phase
  <1>4. /\ k \in ClientRecord /\ k.phase = p /\ k.timeouts = client[s].timeouts
        /\ k.id = client[s].id
    BY <1>2, <1>3 DEF ClientRecord
  <1>5. Sound(client[s], s, results')
    BY <1>2 DEF Sound
  <1>6. Awaited(r) => Knows(k) /\ Sound(k, s, results')
    <2> SUFFICES ASSUME Awaited(r) PROVE Knows(k) /\ Sound(k, s, results')
      OBVIOUS
    <2>1. Knows(k) /\ k.id = client[s].id /\ k.size = client[s].size /\ k.got = client[s].got
      BY <1>2, <1>3, PhaseStep
    <2>2. QED
      BY <1>5, <2>1 DEF Sound, NotBehind
  <1>7. k.id =< issued'
    BY <1>1, <1>4 DEF IInv, SessionInv
  <1> HIDE DEF k
  <1>8. Answer(r, k)
    BY DEF k
  <1>9. QED
    BY <1>1, <1>4, <1>5, <1>6, <1>7, <1>8, ServeStep

\* The offset goes on whether or not the answer arrives; a client that awaits it either
\* reads on without a gap, ends, or breaks, and breaks only if it has lost something.
LEMMA FetchStep ==
    ASSUME IInv, NEW r \in requests, Fetch(r)
    PROVE  IInv'
  <1> DEFINE s == r.session
  <1>1. /\ s \in Session /\ issued \in 0 .. MaxResults /\ issued \in Nat
        /\ client[s] \in ClientRecord /\ Knows(client[s])
        /\ client[s].id =< issued /\ Sound(client[s], s, results)
    BY IdsAreNaturals, BoundsAreNaturals DEF IInv, RequestsInv, SessionInv
  <1>2. PICK x \in results :
           /\ x.session = s
           /\ x.id = r.id
           /\ results' = (results \ {x}) \cup {[x EXCEPT !.next = NextOffset(x)]}
           /\ Answer(r, AfterBatch(client[s], x))
    BY DEF Fetch
  <1>3. UNCHANGED <<open, issued>> /\ r.kind = "fetch"
    BY DEF Fetch
  <1>4. /\ x \in Result /\ x.session \in open /\ x.id =< issued
        /\ Aligned(x.next, x.size) /\ x.size \in Nat
    BY IdsAreNaturals DEF IInv, ResultsInv
  <1> DEFINE o == NextOffset(x)
             y == [x EXCEPT !.next = o]
             k == AfterBatch(client[s], x)
  <1>5. Aligned(o, x.size) /\ x.next =< o /\ x.next \in Nat /\ o \in Nat /\ o =< x.size
    BY <1>4, OffsetsGoOnByBatches DEF Aligned
  <1> HIDE DEF o
  <1>6. x.size \in 0 .. MaxChunks /\ o \in 0 .. MaxChunks
    BY <1>4, <1>5, BoundsAreNaturals DEF Result
  <1>7. /\ y.session = s /\ y.id = x.id /\ y.size = x.size /\ y.next = o
        /\ y \in Result
    BY <1>2, <1>4, <1>6 DEF Result
  <1>8. results' = (results \ {x}) \cup {y}
    BY <1>2 DEF o
  <1> HIDE DEF y
  <1>9. \A z \in results : z.session = s => z = x
    BY <1>2 DEF IInv, ResultsInv
  <1>10. ResultsInv'
    BY <1>2, <1>3, <1>4, <1>5, <1>7, <1>8, <1>9 DEF IInv, ResultsInv
  <1>11. Others(s, results)' = Others(s, results)
    BY <1>2, <1>7, <1>8 DEF Others
  <1>12. x.id = client[s].id => NotBehind(client[s], x)
    BY <1>1, <1>2 DEF Sound
  <1>13. Sound(client[s], s, results')
    <2>1. y.id = client[s].id => NotBehind(client[s], y)
      <3> SUFFICES ASSUME y.id = client[s].id PROVE NotBehind(client[s], y)
        OBVIOUS
      <3>1. NotBehind(client[s], x)
        BY <1>7, <1>12
      <3>2. Len(client[s].got) \in Nat
        BY <1>1, GotIsAPrefix
      <3>3. QED
        BY <1>5, <1>7, <3>1, <3>2 DEF NotBehind
    <2>2. QED
      BY <1>1, <1>8, <2>1 DEF Sound
  <1>14. issued' \in issued .. MaxResults
    BY <1>1, <1>3, BoundsAreNaturals
  <1>15. CASE ~Awaited(r)
    <2>1. Answer(r, client[s])
      BY <1>2, <1>15 DEF Answer
    <2>2. QED
      BY <1>1, <1>3, <1>10, <1>11, <1>13, <1>14, <1>15, <2>1, ServeStep
  <1>16. CASE Awaited(r)
    <2>1. WaitsFor(r, client[s]) /\ client[s].phase = "fetching" /\ r.id = client[s].id
      BY <1>3, <1>16 DEF IInv, RequestsInv, WaitsFor
    <2>2. NotBehind(client[s], x)
      BY <1>2, <1>12, <2>1
    <2>3. client[s].timeouts = 0 => x.next = Len(client[s].got)
      <3> SUFFICES ASSUME client[s].timeouts = 0 PROVE x.next = Len(client[s].got)
        OBVIOUS
      <3>1. InStep(client[s], s, results)
        BY <1>1, <2>1 DEF IInv, SessionInv
      <3>2. QED
        BY <1>9, <3>1 DEF InStep
    <2>4. /\ Knows(k)
          /\ k.id = client[s].id /\ k.size = client[s].size /\ k.timeouts = client[s].timeouts
          /\ o >= Len(k.got)
          /\ k.phase \in {"reading", "complete", "broken"}
          /\ k.phase = "reading" => o = Len(k.got)
      BY <1>1, <2>2, <2>3, AfterBatchKnows DEF o
    <2>5. Answer(r, k)
      BY <1>2
    <2> HIDE DEF k
    <2>6. NotBehind(k, y)
      BY <1>5, <1>7, <2>2, <2>4 DEF NotBehind
    <2>7. Sound(k, s, results')
      BY <1>8, <1>9, <2>6 DEF Sound
    <2>8. k.phase = "reading" => InStep(k, s, results')
      BY <1>2, <1>7, <1>8, <2>1, <2>4 DEF InStep
    <2>9. k \in ClientRecord /\ k.id =< issued'
      BY <1>1, <1>3, <2>4 DEF Knows
    <2>10. QED
      BY <1>1, <1>3, <1>10, <1>11, <1>13, <1>14, <2>4, <2>5, <2>7, <2>8, <2>9, ServeStep
  <1>17. QED
    BY <1>15, <1>16

LEMMA NextStep ==
    ASSUME IInv, Next
    PROVE  IInv'
  <1>1. ASSUME NEW s \in Session, SendPrepare(s)
        PROVE  IInv'
    <2>1. client[s].phase \in Phase \ Waiting /\ Send(s, "prepare", NoId, "preparing")
      BY <1>1 DEF SendPrepare, Phase, Waiting
    <2>2. QED
      BY <2>1, SendStep
  <1>2. ASSUME NEW s \in Session, SendFetch(s)
        PROVE  IInv'
    <2>1. /\ client[s].phase = "reading" /\ client[s].phase \in Phase \ Waiting
          /\ Send(s, "fetch", client[s].id, "fetching")
      BY <1>2 DEF SendFetch, Phase, Waiting
    <2>2. QED
      BY <2>1, SendStep
  <1>3. ASSUME NEW s \in Session, SendDisconnect(s)
        PROVE  IInv'
    <2>1. client[s].phase \in Phase \ Waiting /\ Send(s, "disconnect", NoId, "leaving")
      BY <1>3 DEF SendDisconnect, Phase, Waiting
    <2>2. QED
      BY <2>1, SendStep
  <1>4. ASSUME NEW r \in requests, PrepareFails(r)
        PROVE  IInv'
    <2>1. /\ Answer(r, [client[r.session] EXCEPT !.phase = "idle"])
          /\ UNCHANGED <<open, results, issued>>
      BY <1>4 DEF PrepareFails
    <2>2. ResultsInv' /\ Others(r.session, results)' = Others(r.session, results)
      BY <2>1 DEF IInv, ResultsInv, Others
    <2>3. QED
      BY <2>1, <2>2, ToldStep
  <1>5. ASSUME NEW r \in requests, FetchClosed(r)
        PROVE  IInv'
    <2>1. /\ Answer(r, [client[r.session] EXCEPT !.phase = "broken"])
          /\ UNCHANGED <<open, results, issued>>
          /\ r.kind = "fetch"
          /\ ~ \E x \in results : x.session = r.session /\ x.id = r.id
      BY <1>5 DEF FetchClosed
    <2>2. ResultsInv' /\ Others(r.session, results)' = Others(r.session, results)
      BY <2>1 DEF IInv, ResultsInv, Others
    <2>3. Awaited(r) => client[r.session].timeouts > 0
      <3> SUFFICES ASSUME Awaited(r), client[r.session].timeouts = 0 PROVE FALSE
        BY IdsAreNaturals DEF IInv, RequestsInv
      <3>1. r.session \in Session
        BY IdsAreNaturals DEF IInv, RequestsInv
      <3>2. client[r.session].phase = "fetching" /\ r.id = client[r.session].id
        BY <2>1 DEF IInv, RequestsInv, WaitsFor
      <3>3. InStep(client[r.session], r.session, results)
        BY <3>1, <3>2 DEF IInv, SessionInv
      <3>4. QED
        BY <2>1, <3>2, <3>3 DEF InStep
    <2>4. QED
      BY <2>1, <2>2, <2>3, ToldStep
  <1>6. ASSUME NEW r \in requests, Disconnect(r)
        PROVE  IInv'
    <2>1. /\ Answer(r, [client[r.session] EXCEPT !.phase = "gone"])
          /\ open' = open \ {r.session}
          /\ results' = {x \in results : x.session # r.session}
          /\ issued' = issued
      BY <1>6 DEF Disconnect
    <2>2. ResultsInv' /\ Others(r.session, results)' = Others(r.session, results)
      BY <2>1 DEF IInv, ResultsInv, Others
    <2>3. QED
      BY <2>1, <2>2, ToldStep
  <1>7. ASSUME NEW r \in requests, Refuse(r)
        PROVE  IInv'
    <2>1. /\ Answer(r, [client[r.session] EXCEPT !.phase = "gone"])
          /\ UNCHANGED <<open, results, issued>>
      BY <1>7 DEF Refuse
    <2>2. ResultsInv' /\ Others(r.session, results)' = Others(r.session, results)
      BY <2>1 DEF IInv, ResultsInv, Others
    <2>3. QED
      BY <2>1, <2>2, ToldStep
  <1>8. QED
    BY <1>1, <1>2, <1>3, <1>4, <1>5, <1>6, <1>7, TimeOutStep, PrepareStep, FetchStep
       DEF Next, Serve

LEMMA Inductive ==
    Spec => []IInv
  <1>1. Init => IInv
    <2> SUFFICES ASSUME Init PROVE IInv
      OBVIOUS
    <2> DEFINE k == [phase |-> "idle", id |-> NoId, size |-> 0, got |-> <<>>,
                     index |-> 0, timeouts |-> 0]
    <2>1. /\ open = Session /\ results = {} /\ issued = 0 /\ requests = {}
          /\ client = [s \in Session |-> k]
      BY DEF Init
    <2>2. MaxChunks \in Nat /\ MaxResults \in Nat /\ 0 \in 0 .. MaxChunks
      BY BoundsAreNaturals
    <2>3. Chunks(0) = <<>>
      <3>1. Chunks(0) \in Seq(Nat) /\ Len(Chunks(0)) = 0
        BY ChunksAreASequence
      <3>2. QED
        BY <3>1
    <2>4. <<>> \in {Chunks(n) : n \in 0 .. MaxChunks}
      BY <2>2, <2>3
    <2>5. k \in ClientRecord
      BY <2>2, <2>4 DEF ClientRecord, Phase
    <2>6. Ceiling(0) = 0 /\ Aligned(0, 0)
      <3>1. 0 = 0 * ChunksPerBatch
        BY ChunksPerBatchIsPositive
      <3>2. Ceiling(0 * ChunksPerBatch) = 0
        BY CeilingOfWhole
      <3>3. QED
        BY <3>1, <3>2 DEF Aligned
    <2>7. k.id = 0 /\ k.got = <<>> /\ k.index = 0 /\ k.size = 0 /\ k.phase = "idle"
      BY DEF NoId
    <2> HIDE DEF k
    <2>8. Knows(k)
      BY <2>5, <2>6, <2>7 DEF Knows
    <2>9. ASSUME NEW s \in Session
          PROVE  SessionInv(s)
      <3>1. client[s] = k
        BY <2>1
      <3>2. QED
        BY <2>1, <2>7, <2>8, <3>1 DEF SessionInv, Sound
    <2>10. QED
      BY <2>1, <2>2, <2>5, <2>9 DEF IInv, ResultsInv, RequestsInv
  <1>2. IInv /\ [Next]_vars => IInv'
    <2> SUFFICES ASSUME IInv, [Next]_vars PROVE IInv'
      OBVIOUS
    <2>1. CASE Next
      BY <2>1, NextStep
    <2>2. CASE UNCHANGED vars
      BY <2>2 DEF vars, IInv, ResultsInv, RequestsInv, SessionInv, Awaited
    <2>3. QED
      BY <2>1, <2>2
  <1>3. QED
    BY <1>1, <1>2, PTL DEF Spec

-----------------------------------------------------------------------------
(* Theorems                                                                *)

\* Rows, offsets, requests and clients hold what they may (ResultFetch!TypeOK).
THEOREM TypeCorrect ==
    Spec => []TypeOK
  <1>1. IInv => TypeOK
    <2> SUFFICES ASSUME IInv PROVE TypeOK
      OBVIOUS
    <2>1. results \subseteq Result /\ \A x \in results : x.next =< x.size
      BY DEF IInv, ResultsInv, Aligned
    <2>2. requests \subseteq Request
      BY DEF IInv, RequestsInv
    <2>3. ASSUME NEW s \in Session
          PROVE  /\ client[s] \in [phase : Phase, id : ResultId \cup {NoId},
                                   size : 0..MaxChunks, got : {client[s].got},
                                   index : 0..MaxChunks, timeouts : Nat]
                 /\ \A i \in DOMAIN client[s].got : client[s].got[i] \in 1..MaxChunks
      <3>1. client[s] \in ClientRecord
        BY DEF IInv
      <3>2. PICK n \in 0 .. MaxChunks : client[s].got = Chunks(n)
        BY <3>1 DEF ClientRecord
      <3>3. QED
        BY <3>1, <3>2, BoundsAreNaturals DEF ClientRecord, Chunks
    <2>4. QED
      BY <2>1, <2>2, <2>3 DEF IInv, TypeOK
  <1>2. QED
    BY <1>1, Inductive, PTL

\* A session has one stored result at most, and none once it is disconnected, in whatever
\* order its requests arrive (__dq_results, requireSession).
THEOREM ResultsHaveSessions ==
    Spec => []ResultsBelongToSessions
  <1>1. IInv => ResultsBelongToSessions
    BY DEF IInv, ResultsInv, ResultsBelongToSessions
  <1>2. QED
    BY <1>1, Inductive, PTL

\* What a client has put together is the beginning of its result, for every size of batch
\* and whatever answers were lost (fetch, batchIndex).
THEOREM ClientsReadPrefixes ==
    Spec => []ReadsAPrefix
  <1>1. IInv => ReadsAPrefix
    <2> SUFFICES ASSUME IInv, NEW s \in Session
                 PROVE  /\ client[s].got = [i \in 1..Len(client[s].got) |-> i]
                        /\ Len(client[s].got) =< client[s].size
      BY DEF ReadsAPrefix
    <2>1. client[s] \in ClientRecord /\ Aligned(Len(client[s].got), client[s].size)
      BY DEF IInv, SessionInv, Knows
    <2>2. QED
      BY <2>1, GotIsAPrefix DEF Aligned, Chunks
  <1>2. QED
    BY <1>1, Inductive, PTL

\* A client that is told its result has ended has all of it (the empty batch with the
\* index of the last one).
THEOREM CompleteResultsAreWhole ==
    Spec => []CompleteMeansWhole
  <1>1. IInv => CompleteMeansWhole
    BY DEF IInv, SessionInv, Knows, CompleteMeansWhole
  <1>2. QED
    BY <1>1, Inductive, PTL

\* A client that has given up no request meets neither a gap nor a closed result.
THEOREM OnlyLossBreaksReading ==
    Spec => []OnlyLossBreaks
  <1>1. IInv => OnlyLossBreaks
    BY DEF IInv, SessionInv, Knows, OnlyLossBreaks
  <1>2. QED
    BY <1>1, Inductive, PTL
=============================================================================
