----------------------------- MODULE OutboxProofs -----------------------------
(***************************************************************************)
(* Proofs about the order of writes (module FirestoreWrites), among them   *)
(* that the write path implements Outbox, for any users, any number of     *)
(* writes and disruptions and any size of the pipeline.                    *)
(***************************************************************************)
EXTENDS FirestoreWritesProofs

-----------------------------------------------------------------------------
(* The head of a queue                                                     *)

Later(q, p) == {id \in DOMAIN q : p = <<>> \/ id > Last(p).id}

\* Ids are in the order of how many there are below.
LEMMA BelowDecides ==
    ASSUME NEW S \in SUBSET Nat, IsFiniteSet(S), NEW x \in S, NEW y \in S
    PROVE  /\ Cardinality(Below(S, x)) \in Nat
           /\ Cardinality(Below(S, x)) < Cardinality(S)
           /\ Cardinality(Below(S, x)) < Cardinality(Below(S, y)) => x < y
           /\ Cardinality(Below(S, x)) = Cardinality(Below(S, y)) => x = y
<1>1. x \in Nat /\ y \in Nat
  OBVIOUS
<1>2. x < y => Cardinality(Below(S, x)) < Cardinality(Below(S, y))
  BY BelowGrows
<1>3. y < x => Cardinality(Below(S, y)) < Cardinality(Below(S, x))
  BY BelowGrows
<1>4. /\ IsFiniteSet(Below(S, x)) /\ Cardinality(Below(S, x)) \in Nat
      /\ Cardinality(Below(S, y)) \in Nat
  BY FS_Subset, FS_CardinalityType DEF Below
<1>5. Cardinality(Below(S, x)) < Cardinality(S)
  <2>1. Below(S, x) \subseteq S \ {x}
    BY <1>1 DEF Below
  <2>2. /\ IsFiniteSet(S \ {x}) /\ Cardinality(S \ {x}) = Cardinality(S) - 1
        /\ Cardinality(S) \in Nat
    BY FS_RemoveElement, FS_CardinalityType
  <2>3. Cardinality(Below(S, x)) <= Cardinality(S \ {x})
    BY <2>1, <2>2, FS_Subset
  <2> QED
    BY <1>4, <2>2, <2>3
<1> QED
  BY <1>1, <1>2, <1>3, <1>4, <1>5

\* The loop of FillWritePipeline takes the oldest of what is later, in order, and
\* stops early only when the pipeline is full.
LEMMA AddedInOrder ==
    ASSUME NEW q, IsQueue(q), NEW p \in Seq(Batch), Len(p) <= MaxPendingWrites,
           NEW added, added = NextBatches(q, p)
    PROVE  /\ \A n \in DOMAIN added :
                 added[n].id \in Later(q, p) /\ added[n].write = q[added[n].id]
           /\ \A m, n \in DOMAIN added : m < n => added[m].id < added[n].id
           /\ \A id \in Later(q, p) :
                 \/ \E n \in DOMAIN added : added[n].id = id
                 \/ /\ Len(p) + Len(added) = MaxPendingWrites
                    /\ \A n \in DOMAIN added : added[n].id < id
<1> DEFINE L == Later(q, p)
           count == Min({MaxPendingWrites - Len(p), Cardinality(L)})
<1>1. L \in SUBSET Nat /\ IsFiniteSet(L) /\ L \subseteq DOMAIN q
  BY FS_Subset DEF IsQueue, Stored, Later
<1>2. Cardinality(L) \in Nat
  BY <1>1, FS_CardinalityType
<1>3. added = [n \in 1..count |-> [id |-> NthId(L, n), write |-> q[NthId(L, n)]]]
  BY DEF NextBatches, Later
<1> HIDE DEF L
<1>4. /\ count \in Nat /\ count <= Cardinality(L)
      /\ count = MaxPendingWrites - Len(p) \/ count = Cardinality(L)
  <2>1. MaxPendingWrites - Len(p) \in Nat /\ Len(p) \in Nat
    BY WritesAssumption
  <2> DEFINE a == MaxPendingWrites - Len(p)
             b == Cardinality(L)
  <2>2. a \in Int /\ b \in Int
    BY <1>2, <2>1
  <2> HIDE DEF a, b
  <2>3. Min({a, b}) \in {a, b} /\ Min({a, b}) <= a /\ Min({a, b}) <= b
    BY <2>2, MinOfTwo
  <2> QED
    BY <1>2, <2>1, <2>3 DEF a, b
<1> HIDE DEF count
<1>5. \A n \in 1..count : NthId(L, n) \in L /\ Cardinality(Below(L, NthId(L, n))) = n - 1
  BY <1>1, <1>2, <1>4, NthIdIn
<1>6. /\ DOMAIN added = 1..count
      /\ \A n \in 1..count : /\ added[n].id = NthId(L, n)
                             /\ added[n].write = q[added[n].id]
  BY <1>3
<1>7. Len(added) = count
  <2>1. added \in Seq(Batch)
    BY NextBatchesType
  <2> QED
    BY <1>4, <1>6, <2>1, LenProperties, SameInterval
<1>8. \A n \in DOMAIN added : /\ n \in 1..count /\ added[n].id \in L
                              /\ Cardinality(Below(L, added[n].id)) = n - 1
  BY <1>5, <1>6
<1>9. ASSUME NEW m \in DOMAIN added, NEW n \in DOMAIN added, m < n
      PROVE  added[m].id < added[n].id
  <2>1. Cardinality(Below(L, added[m].id)) < Cardinality(Below(L, added[n].id))
    BY <1>8, <1>9, <1>4
  <2> QED
    BY <1>1, <1>8, <2>1, BelowDecides
<1>10. ASSUME NEW id \in L
       PROVE  \/ \E n \in DOMAIN added : added[n].id = id
              \/ /\ Len(p) + Len(added) = MaxPendingWrites
                 /\ \A n \in DOMAIN added : added[n].id < id
  <2> DEFINE k == Cardinality(Below(L, id))
  <2>1. k \in Nat /\ k < Cardinality(L)
    BY <1>1, BelowDecides
  <2>2. CASE k < count
    <3>1. k + 1 \in DOMAIN added /\ (k + 1) - 1 = k
      BY <1>4, <1>6, <2>1, <2>2
    <3>2. Cardinality(Below(L, added[k + 1].id)) = k /\ added[k + 1].id \in L
      BY <1>8, <3>1
    <3> DEFINE found == added[k + 1].id
    <3>3. found \in L /\ Cardinality(Below(L, found)) = Cardinality(Below(L, id))
      BY <3>2
    <3> HIDE DEF found, k
    <3>4. found = id
      BY <1>1, <3>3, BelowDecides
    <3> QED
      BY <3>1, <3>4 DEF found
  <2>3. CASE ~(k < count)
    <3>1. Len(p) + Len(added) = MaxPendingWrites
      BY <1>2, <1>4, <1>7, <2>1, <2>3, WritesAssumption
    <3>2. ASSUME NEW n \in DOMAIN added PROVE added[n].id < id
      <4>1. Cardinality(Below(L, added[n].id)) < k
        BY <1>4, <1>8, <2>1, <2>3
      <4> QED
        BY <1>1, <1>8, <4>1, BelowDecides
    <3> QED
      BY <3>1, <3>2
  <2> QED
    BY <2>2, <2>3
<1> QED
  BY <1>6, <1>8, <1>9, <1>10 DEF L

\* Filling the pipeline keeps it the head of the queue, and leaves no room for
\* what waits.
LEMMA HeadFilled ==
    ASSUME NEW q, IsQueue(q), NEW p \in Seq(Batch), Len(p) <= MaxPendingWrites,
           IsHead(q, p), NEW all, all = p \o NextBatches(q, p)
    PROVE  IsHead(q, all) /\ IsFilled(q, all)
<1> DEFINE added == NextBatches(q, p)
<1>1. added \in Seq(Batch) /\ DOMAIN q \subseteq Nat /\ Len(p) \in Nat /\ DOMAIN p = 1..Len(p)
  BY NextBatchesType DEF IsQueue, Stored
<1>2. /\ \A n \in DOMAIN added :
            added[n].id \in Later(q, p) /\ added[n].write = q[added[n].id]
      /\ \A m, n \in DOMAIN added : m < n => added[m].id < added[n].id
      /\ \A id \in Later(q, p) :
            \/ \E n \in DOMAIN added : added[n].id = id
            \/ /\ Len(p) + Len(added) = MaxPendingWrites
               /\ \A n \in DOMAIN added : added[n].id < id
  BY AddedInOrder
<1> HIDE DEF added
<1>3. /\ all \in Seq(Batch) /\ Len(all) = Len(p) + Len(added)
      /\ DOMAIN all = 1..(Len(p) + Len(added))
      /\ \A i \in 1..(Len(p) + Len(added)) :
            all[i] = IF i <= Len(p) THEN p[i] ELSE added[i - Len(p)]
      /\ Len(added) \in Nat /\ DOMAIN added = 1..Len(added)
  <2>1. all = p \o added
    BY DEF added
  <2> QED
    BY <1>1, <2>1, ConcatProperties, LenProperties
\* A batch of the new pipeline was there, or is added.
<1>4. ASSUME NEW i \in DOMAIN all
      PROVE  \/ i \in DOMAIN p /\ all[i] = p[i]
             \/ i - Len(p) \in DOMAIN added /\ all[i] = added[i - Len(p)] /\ i > Len(p)
  BY <1>1, <1>3
<1>5. /\ \A i \in DOMAIN p : i \in DOMAIN all /\ all[i] = p[i]
      /\ \A n \in DOMAIN added : Len(p) + n \in DOMAIN all /\ all[Len(p) + n] = added[n]
  <2>1. ASSUME NEW n \in DOMAIN added
        PROVE  /\ Len(p) + n \in 1..(Len(p) + Len(added)) /\ ~(Len(p) + n <= Len(p))
               /\ (Len(p) + n) - Len(p) = n
    BY <1>1, <1>3
  <2> QED
    BY <1>1, <1>3, <2>1
\* What is later has an id above those of p.
<1>6. ASSUME NEW id \in Later(q, p), NEW i \in DOMAIN p PROVE p[i].id < id
  <2>1. /\ p # <<>> /\ Last(p) = p[Len(p)] /\ Len(p) \in DOMAIN p /\ id \in DOMAIN q
        /\ id > Last(p).id
    BY <1>1 DEF Last, Later
  <2>2. p[i].id \in Nat /\ p[Len(p)].id \in Nat /\ id \in Nat
    BY <1>1, <2>1 DEF IsHead
  <2>3. i < Len(p) => p[i].id < p[Len(p)].id
    BY <2>1 DEF IsHead
  <2>4. i < Len(p) \/ i = Len(p)
    BY <1>1
  <2> QED
    BY <2>1, <2>2, <2>3, <2>4
<1>7. ASSUME NEW id \in DOMAIN q, \A i \in DOMAIN p : p[i].id # id
      PROVE  id \in Later(q, p)
  <2>1. \A i \in DOMAIN p : p[i].id < id
    BY <1>7 DEF IsHead
  <2>2. p # <<>> => /\ Last(p) = p[Len(p)] /\ Len(p) \in DOMAIN p
    BY <1>1 DEF Last
  <2>3. \A i \in DOMAIN p : p[i].id \in Nat
    BY <1>1 DEF IsHead
  <2> QED
    BY <1>1, <2>1, <2>2, <2>3 DEF Later
<1>8. ASSUME NEW i \in DOMAIN all
      PROVE  all[i].id \in DOMAIN q /\ all[i].write = q[all[i].id]
  BY <1>2, <1>4 DEF IsHead, Later
<1>9. ASSUME NEW i \in DOMAIN all, NEW j \in DOMAIN all, i < j
      PROVE  all[i].id < all[j].id
  <2>1. CASE i \in DOMAIN p /\ all[i] = p[i]
    <3>1. CASE j \in DOMAIN p /\ all[j] = p[j]
      BY <1>9, <2>1, <3>1 DEF IsHead
    <3>2. CASE j - Len(p) \in DOMAIN added /\ all[j] = added[j - Len(p)]
      BY <1>2, <1>6, <2>1, <3>2
    <3> QED
      BY <1>4, <3>1, <3>2
  <2>2. CASE i - Len(p) \in DOMAIN added /\ all[i] = added[i - Len(p)] /\ i > Len(p)
    <3>1. j - Len(p) \in DOMAIN added /\ all[j] = added[j - Len(p)]
      BY <1>1, <1>3, <1>4, <1>9, <2>2
    <3>2. i - Len(p) < j - Len(p)
      BY <1>1, <1>3, <1>9
    <3> QED
      BY <1>2, <2>2, <3>1, <3>2
  <2> QED
    BY <1>4, <2>1, <2>2
<1>10. ASSUME NEW id \in DOMAIN q
       PROVE  \/ \E i \in DOMAIN all : all[i].id = id
              \/ /\ Len(all) = MaxPendingWrites
                 /\ \A i \in DOMAIN all : all[i].id < id
  <2>1. CASE \E i \in DOMAIN p : p[i].id = id
    BY <1>5, <2>1
  <2>2. CASE \A i \in DOMAIN p : p[i].id # id
    <3>1. id \in Later(q, p)
      BY <1>7, <2>2
    <3>2. CASE \E n \in DOMAIN added : added[n].id = id
      BY <1>5, <3>2
    <3>3. CASE Len(p) + Len(added) = MaxPendingWrites /\ \A n \in DOMAIN added : added[n].id < id
      BY <1>3, <1>4, <1>6, <3>1, <3>3
    <3> QED
      BY <1>2, <3>1, <3>2, <3>3
  <2> QED
    BY <2>1, <2>2
<1> QED
  BY <1>8, <1>9, <1>10 DEF IsHead, IsFilled

\* A batch of the head has as many ids below it as there are batches before it.
LEMMA HeadCounts ==
    ASSUME NEW q, IsQueue(q), NEW p \in Seq(Batch), IsHead(q, p), NEW n \in DOMAIN p
    PROVE  /\ p[n].id \in DOMAIN q /\ p[n].write = q[p[n].id]
           /\ Cardinality(Below(DOMAIN q, p[n].id)) = n - 1
<1> DEFINE S == Below(DOMAIN q, p[n].id)
           f == [i \in 1..(n - 1) |-> p[i].id]
<1>1. /\ Len(p) \in Nat /\ DOMAIN p = 1..Len(p) /\ n - 1 \in Nat
      /\ \A i \in 1..(n - 1) : i \in DOMAIN p /\ i < n
  BY LenProperties
<1>2. DOMAIN q \subseteq Nat /\ \A i \in DOMAIN p : p[i].id \in DOMAIN q
  BY DEF IsQueue, Stored, IsHead
<1>3. \A i \in 1..(n - 1) : f[i] \in S
  BY <1>1, <1>2 DEF IsHead, Below
<1>4. ASSUME NEW i \in 1..(n - 1), NEW j \in 1..(n - 1), f[i] = f[j]
      PROVE  i = j
  <2>1. i < j => p[i].id < p[j].id
    BY <1>1 DEF IsHead
  <2>2. j < i => p[j].id < p[i].id
    BY <1>1 DEF IsHead
  <2>3. p[i].id = p[j].id /\ p[i].id \in Nat
    BY <1>1, <1>2, <1>4
  <2>4. ~(i < j) /\ ~(j < i)
    BY <2>1, <2>2, <2>3
  <2> QED
    BY <2>4
<1>5. ASSUME NEW id \in S PROVE \E i \in 1..(n - 1) : f[i] = id
  <2>1. id \in DOMAIN q /\ id < p[n].id /\ id \in Nat /\ p[n].id \in Nat
    BY <1>2 DEF Below
  <2>2. PICK i \in DOMAIN p : p[i].id = id
    BY <2>1 DEF IsHead
  <2>3. n < i => p[n].id < p[i].id
    BY <2>2 DEF IsHead
  <2>4. i < n
    BY <1>1, <2>1, <2>2, <2>3
  <2>5. i \in 1..(n - 1)
    BY <1>1, <2>4
  <2> QED
    BY <2>2, <2>5
<1> HIDE DEF S
<1>6. f \in [1..(n - 1) -> S]
  BY <1>3
<1> HIDE DEF f
<1>7. f \in Bijection(1..(n - 1), S)
  BY <1>4, <1>5, <1>6 DEF Bijection, Injection, Surjection, IsInjective
<1>8. Cardinality(S) = n - 1
  BY <1>1, <1>7, FS_CountingElements DEF ExistsBijection
<1> QED
  BY <1>2, <1>8 DEF S, IsHead

\* A head that is full is what a fresh start would load.
LEMMA HeadIsNext ==
    ASSUME NEW q, IsQueue(q), NEW p \in Seq(Batch), Len(p) <= MaxPendingWrites,
           IsHead(q, p), IsFilled(q, p)
    PROVE  p = NextBatches(q, <<>>)
<1> DEFINE b == NextBatches(q, <<>>)
<1>1. /\ <<>> \in Seq(Batch) /\ Len(<<>>) = 0 /\ 0 <= MaxPendingWrites /\ DOMAIN <<>> = {}
  BY WritesAssumption
<1>2. b \in Seq(Batch) /\ Len(<<>>) + Len(b) <= MaxPendingWrites
  BY <1>1, NextBatchesType
<1>3. IsHead(q, b) /\ IsFilled(q, b)
  <2>1. IsHead(q, <<>>)
    BY <1>1 DEF IsHead
  <2>2. b = <<>> \o b
    BY <1>2, ConcatEmptySeq
  <2> QED
    BY <1>1, <2>1, <2>2, HeadFilled
<1> HIDE DEF b
<1>4. /\ Len(b) \in Nat /\ Len(p) \in Nat /\ DOMAIN b = 1..Len(b) /\ DOMAIN p = 1..Len(p)
      /\ Len(b) <= MaxPendingWrites
  BY <1>1, <1>2, LenProperties
<1>5. ASSUME NEW n \in DOMAIN p, n \in DOMAIN b PROVE p[n] = b[n]
  <2>1. /\ p[n].id \in DOMAIN q /\ p[n].write = q[p[n].id]
        /\ Cardinality(Below(DOMAIN q, p[n].id)) = n - 1
    BY HeadCounts
  <2>2. /\ b[n].id \in DOMAIN q /\ b[n].write = q[b[n].id]
        /\ Cardinality(Below(DOMAIN q, b[n].id)) = n - 1
    BY <1>2, <1>3, <1>5, HeadCounts
  <2> DEFINE x == p[n].id
             y == b[n].id
  <2>3. /\ DOMAIN q \in SUBSET Nat /\ IsFiniteSet(DOMAIN q) /\ x \in DOMAIN q /\ y \in DOMAIN q
        /\ Cardinality(Below(DOMAIN q, x)) = Cardinality(Below(DOMAIN q, y))
    BY <2>1, <2>2 DEF IsQueue, Stored
  <2> HIDE DEF x, y
  <2>4. x = y
    BY <2>3, BelowDecides
  <2>5. p[n] \in Batch /\ b[n] \in Batch
    BY <1>2, <1>5, ElementOfSeq, LenProperties
  <2> QED
    BY <2>1, <2>2, <2>4, <2>5 DEF x, y, Batch
<1>6. ASSUME NEW s \in Seq(Batch), NEW t \in Seq(Batch), IsHead(q, s), IsHead(q, t),
             IsFilled(q, s), Len(t) <= MaxPendingWrites, Len(s) < Len(t),
             \A n \in DOMAIN s : n \in DOMAIN t => s[n] = t[n]
      PROVE  FALSE
  <2>1. /\ Len(s) \in Nat /\ Len(t) \in Nat /\ DOMAIN s = 1..Len(s) /\ DOMAIN t = 1..Len(t)
        /\ MaxPendingWrites \in Nat
    BY <1>6, LenProperties, WritesAssumption
  <2> DEFINE n == Len(s) + 1
  <2>2. n \in DOMAIN t /\ \A i \in DOMAIN s : i \in DOMAIN t /\ i < n
    BY <1>6, <2>1
  <2>3. t[n].id \in DOMAIN q /\ DOMAIN q \subseteq Nat
    BY <1>6, <2>2 DEF IsHead, IsQueue, Stored
  <2>4. Len(s) # MaxPendingWrites
    <3>1. /\ Len(s) \in Nat /\ Len(t) \in Nat /\ Len(s) < Len(t)
          /\ Len(t) <= MaxPendingWrites /\ MaxPendingWrites \in Nat
      BY <1>6, <2>1
    <3> QED
      BY <3>1
  <2>5. PICK i \in DOMAIN s : s[i].id = t[n].id
    BY <1>6, <2>3, <2>4 DEF IsFilled
  <2>6. t[i].id < t[n].id
    BY <1>6, <2>2 DEF IsHead
  <2> QED
    BY <1>6, <2>2, <2>3, <2>5, <2>6
<1>7. ~(Len(p) < Len(b))
  <2>1. \A n \in DOMAIN p : n \in DOMAIN b => p[n] = b[n]
    BY <1>5
  <2> QED
    BY <1>2, <1>3, <1>4, <1>6, <2>1
<1>8. ~(Len(b) < Len(p))
  <2>1. \A n \in DOMAIN b : n \in DOMAIN p => b[n] = p[n]
    BY <1>5
  <2> QED
    BY <1>2, <1>3, <1>4, <1>6, <2>1
<1>9. Len(p) = Len(b)
  <2>1. Len(p) \in Nat /\ Len(b) \in Nat
    BY <1>4
  <2> QED
    BY <1>7, <1>8, <2>1
<1> QED
  BY <1>2, <1>4, <1>5, <1>9, SeqEqual DEF b

\* A head stays one when a batch joins the queue, and when the front leaves both.
LEMMA HeadOfLonger ==
    ASSUME NEW q, NEW longer, NEW p, NEW new, IsHead(q, p),
           DOMAIN longer = DOMAIN q \cup {new},
           \A id \in DOMAIN q : id < new /\ longer[id] = q[id]
    PROVE  IsHead(longer, p)
<1>1. \A i \in DOMAIN p : p[i].id \in DOMAIN q /\ p[i].write = q[p[i].id]
  BY DEF IsHead
<1> QED
  BY <1>1 DEF IsHead

LEMMA HeadOfShorter ==
    ASSUME NEW q, IsQueue(q), NEW p \in Seq(Batch), p # <<>>, IsHead(q, p)
    PROVE  IsHead(RemoveMutationBatch(q, Head(p).id), Tail(p))
<1> DEFINE id == Head(p).id
           shorter == RemoveMutationBatch(q, id)
<1>1. /\ DOMAIN shorter = DOMAIN q \ {id}
      /\ \A x \in DOMAIN q \ {id} : shorter[x] = q[x]
  BY BatchRemoved
<1>2. /\ Len(p) \in Nat /\ DOMAIN p = 1..Len(p) /\ 1 \in DOMAIN p /\ p[1].id = id
      /\ DOMAIN Tail(p) = 1..(Len(p) - 1)
      /\ \A i \in 1..(Len(p) - 1) : i + 1 \in DOMAIN p /\ Tail(p)[i] = p[i + 1]
  BY HeadTailProperties, LenProperties, EmptySeq
<1> HIDE DEF id, shorter
<1>3. DOMAIN q \subseteq Nat /\ \A i \in DOMAIN p : p[i].id \in DOMAIN q
  BY DEF IsQueue, Stored, IsHead
<1>4. ASSUME NEW i \in DOMAIN Tail(p)
      PROVE  /\ Tail(p)[i].id \in DOMAIN shorter
             /\ Tail(p)[i].write = shorter[Tail(p)[i].id]
  <2>1. i + 1 \in DOMAIN p /\ Tail(p)[i] = p[i + 1] /\ 1 < i + 1
    BY <1>2
  <2>2. p[1].id < p[i + 1].id /\ p[i + 1].write = q[p[i + 1].id]
    BY <1>2, <2>1 DEF IsHead
  <2>3. p[i + 1].id \in DOMAIN q \ {id}
    BY <1>2, <1>3, <2>1, <2>2
  <2> QED
    BY <1>1, <2>1, <2>2, <2>3
<1>5. ASSUME NEW i \in DOMAIN Tail(p), NEW j \in DOMAIN Tail(p), i < j
      PROVE  Tail(p)[i].id < Tail(p)[j].id
  <2>1. i + 1 < j + 1 /\ i + 1 \in DOMAIN p /\ j + 1 \in DOMAIN p
    BY <1>2, <1>5
  <2> QED
    BY <1>2, <2>1 DEF IsHead
<1>6. ASSUME NEW x \in DOMAIN shorter, \A i \in DOMAIN Tail(p) : Tail(p)[i].id # x,
             NEW i \in DOMAIN Tail(p)
      PROVE  Tail(p)[i].id < x
  <2>1. x \in DOMAIN q /\ x # id
    BY <1>1
  <2>2. ASSUME NEW j \in DOMAIN p PROVE p[j].id # x
    <3>1. CASE j = 1
      BY <1>2, <2>1, <3>1
    <3>2. CASE j # 1
      <4>1. j - 1 \in DOMAIN Tail(p) /\ Tail(p)[j - 1] = p[j]
        BY <1>2, <3>2
      <4> QED
        BY <1>6, <4>1
    <3> QED
      BY <3>1, <3>2
  <2> QED
    BY <1>2, <2>1, <2>2 DEF IsHead
<1> QED
  BY <1>4, <1>5, <1>6 DEF IsHead, shorter, id

-----------------------------------------------------------------------------
(* What waits, and what is on its way                                      *)

LEMMA OrderTypes ==
    ASSUME IInv
    PROVE  /\ user \in Users /\ owner \in Seq(Users) /\ Len(owner) \in Nat
           /\ DOMAIN owner = 1..Len(owner)
           /\ DOMAIN mutations = Users /\ \A u \in Users : IsQueue(mutations[u])
           /\ \A u \in Users : DOMAIN mutations[u] \subseteq Nat
           /\ pipeline \in Seq(Batch) /\ Len(pipeline) \in Nat
           /\ DOMAIN pipeline = 1..Len(pipeline) /\ Len(pipeline) <= MaxPendingWrites
           /\ wire \in Seq(Writes) /\ Len(wire) \in Nat /\ DOMAIN wire = 1..Len(wire)
           /\ answers \in Seq(Answer) /\ Len(answers) \in Nat
           /\ DOMAIN answers = 1..Len(answers)
           /\ applied \in [Users -> Seq(Writes)] /\ refused \subseteq Writes
           /\ Writes \subseteq Nat /\ stream \in Stream
<1>1. \A u \in Users : IsQueue(mutations[u])
  BY QueuesFinite
<1>2. Writes \subseteq Nat
  BY WritesAssumption DEF Writes
<1> QED
  BY <1>1, <1>2, LenProperties DEF IInv, TypeOK, IsQueue, Stored

\* A write that stays is in the queue of its owner.
LEMMA StaysWithOwner ==
    ASSUME IInv
    PROVE  /\ \A u \in Users : \A id \in DOMAIN mutations[u] :
                 /\ WrittenBy(mutations[u][id], u) /\ Stays(mutations[u][id])
                 /\ mutations[u][id] \in Writes
           /\ \A w : Stays(w) =>
                 /\ w \in DOMAIN owner /\ owner[w] \in Users
                 /\ \E id \in DOMAIN mutations[owner[w]] : mutations[owner[w]][id] = w
<1>1. \A u \in Users : \A id \in DOMAIN mutations[u] : WrittenBy(mutations[u][id], u)
  BY DEF IInv, OwnersKnown
<1>2. \A u \in Users : \A id \in DOMAIN mutations[u] : mutations[u][id] \in Writes
  BY OrderTypes DEF IsQueue, Stored
<1> QED
  BY <1>1, <1>2 DEF Stays, WrittenBy

\* The batches of the pipeline are of the user, in the order they were made, and
\* a write made before one of them is before it in the pipeline or has left.
LEMMA PipelineInOrder ==
    ASSUME IInv, OrderInv, NEW i \in DOMAIN pipeline
    PROVE  LET w == pipeline[i].write
           IN /\ pipeline[i].id \in DOMAIN mutations[user]
              /\ mutations[user][pipeline[i].id] = w
              /\ w \in Writes /\ WrittenBy(w, user) /\ Stays(w) /\ w \notin SettledWrites
              /\ \A j \in DOMAIN pipeline : i < j => w < pipeline[j].write
              /\ \A v \in EarlierOf(w) :
                    \/ v \in SettledWrites
                    \/ \E j \in DOMAIN pipeline : j < i /\ pipeline[j].write = v
<1> DEFINE q == mutations[user]
           w == pipeline[i].write
<1>1. IsHead(q, pipeline) /\ DOMAIN q \subseteq Nat /\ user \in Users /\ Writes \subseteq Nat
  BY OrderTypes DEF OrderInv, PipelineIsOldest
<1>2. \A j \in DOMAIN pipeline : pipeline[j].id \in DOMAIN q /\ pipeline[j].write = q[pipeline[j].id]
  BY <1>1 DEF IsHead
<1>3. \A id \in DOMAIN q : q[id] \in Writes /\ WrittenBy(q[id], user) /\ Stays(q[id])
  BY <1>1, StaysWithOwner
<1>4. \A id, later \in DOMAIN q : id < later => q[id] < q[later]
  BY <1>1 DEF OrderInv, QueuesInOrder
<1> HIDE DEF q
<1>5. w \notin SettledWrites
  BY <1>2, <1>3 DEF SettledWrites
<1>6. ASSUME NEW j \in DOMAIN pipeline, i < j PROVE w < pipeline[j].write
  BY <1>1, <1>2, <1>4, <1>6 DEF IsHead
<1>7. ASSUME NEW v \in EarlierOf(w), v \notin SettledWrites
      PROVE  \E j \in DOMAIN pipeline : j < i /\ pipeline[j].write = v
  <2>1. v \in DOMAIN owner /\ Stays(v) /\ v < w /\ owner[v] = owner[w]
    BY <1>7 DEF EarlierOf, SettledWrites
  <2>2. owner[w] = user
    BY <1>2, <1>3 DEF WrittenBy
  <2>3. PICK x \in DOMAIN q : q[x] = v
    BY <2>1, <2>2, StaysWithOwner DEF q
  <2>4. v \in Nat /\ w \in Nat /\ x \in Nat /\ pipeline[i].id \in Nat
    BY <1>1, <1>2, <1>3, <2>3
  <2>5. ~(pipeline[i].id < x) /\ x # pipeline[i].id
    BY <1>2, <1>4, <2>1, <2>3, <2>4
  <2>6. PICK j \in DOMAIN pipeline : pipeline[j].id = x
    BY <1>1, <2>5 DEF IsHead
  <2>7. ~(i < j) /\ i # j
    BY <1>1, <2>5, <2>6 DEF IsHead
  <2>8. j < i
    BY <2>7, OrderTypes
  <2> QED
    BY <1>2, <2>3, <2>6, <2>8
<1> QED
  BY <1>2, <1>3, <1>5, <1>6, <1>7 DEF q

\* What is answered or on the wire is the pipeline, place by place.
LEMMA OnTheWay ==
    ASSUME IInv
    PROVE  /\ answers # <<>> \/ wire # <<>> => CanSend(stream)
           /\ \A i \in DOMAIN answers : i \in DOMAIN pipeline /\ pipeline[i].write = answers[i].write
           /\ \A i \in DOMAIN wire : /\ Len(answers) + i \in DOMAIN pipeline
                                     /\ pipeline[Len(answers) + i].write = wire[i]
<1>1. CASE ~CanSend(stream)
  <2>1. wire = <<>> /\ answers = <<>>
    BY <1>1 DEF IInv, AnswersMatchPipeline
  <2> QED
    BY <2>1
<1>2. CASE CanSend(stream)
  <2> DEFINE ws == [i \in DOMAIN answers |-> answers[i].write]
  <2>1. Mutations(pipeline) = ws \o wire
    BY <1>2 DEF IInv, AnswersMatchPipeline
  <2>2. ws \in Seq(Writes) /\ Len(ws) = Len(answers) /\ \A i \in DOMAIN answers : ws[i] = answers[i].write
    BY AnswersType, OrderTypes
  <2>3. /\ Mutations(pipeline) \in Seq(Writes) /\ Len(Mutations(pipeline)) = Len(pipeline)
        /\ \A i \in 1..Len(pipeline) : Mutations(pipeline)[i] = pipeline[i].write
    BY MutationsType, OrderTypes
  <2> HIDE DEF ws
  <2>4. /\ Len(ws \o wire) = Len(answers) + Len(wire)
        /\ \A i \in 1..(Len(answers) + Len(wire)) :
              (ws \o wire)[i] = IF i <= Len(answers) THEN ws[i] ELSE wire[i - Len(answers)]
    <3>1. ws \in Seq(Writes) /\ wire \in Seq(Writes)
      BY <2>2, OrderTypes
    <3>2. /\ Len(ws \o wire) = Len(ws) + Len(wire)
          /\ \A i \in 1..(Len(ws) + Len(wire)) :
                (ws \o wire)[i] = IF i <= Len(ws) THEN ws[i] ELSE wire[i - Len(ws)]
      BY <3>1, ConcatProperties
    <3> QED
      BY <2>2, <3>2
  <2>5. /\ Len(pipeline) = Len(answers) + Len(wire)
        /\ \A i \in 1..Len(pipeline) :
              pipeline[i].write = IF i <= Len(answers) THEN ws[i] ELSE wire[i - Len(answers)]
    BY <2>1, <2>3, <2>4
  <2>6. ASSUME NEW i \in DOMAIN answers
        PROVE  i \in DOMAIN pipeline /\ pipeline[i].write = answers[i].write
    <3>1. i \in 1..Len(pipeline) /\ i <= Len(answers)
      BY <2>5, OrderTypes
    <3> QED
      BY <2>2, <2>5, <3>1, OrderTypes
  <2>7. ASSUME NEW i \in DOMAIN wire
        PROVE  /\ Len(answers) + i \in DOMAIN pipeline
               /\ pipeline[Len(answers) + i].write = wire[i]
    <3>1. /\ Len(answers) + i \in 1..Len(pipeline) /\ ~(Len(answers) + i <= Len(answers))
          /\ (Len(answers) + i) - Len(answers) = i
      BY <2>5, OrderTypes
    <3> QED
      BY <2>5, <3>1, OrderTypes
  <2> QED
    BY <1>2, <2>6, <2>7
<1> QED
  BY <1>1, <1>2

\* The wire is in the order of the writes, after the answers.
LEMMA WireInOrder ==
    ASSUME IInv, OrderInv, NEW i \in DOMAIN wire
    PROVE  /\ wire[i] \in Writes /\ WrittenBy(wire[i], user) /\ wire[i] \notin SettledWrites
           /\ \A j \in DOMAIN answers : answers[j].write < wire[i]
           /\ \A v \in EarlierOf(wire[i]) :
                 \/ v \in SettledWrites
                 \/ \E j \in DOMAIN answers : answers[j].write = v
                 \/ \E j \in DOMAIN wire : j < i /\ wire[j] = v
<1> DEFINE k == Len(answers) + i
<1>1. k \in DOMAIN pipeline /\ pipeline[k].write = wire[i]
  BY OnTheWay
<1>2. /\ wire[i] \in Writes /\ WrittenBy(wire[i], user) /\ wire[i] \notin SettledWrites
      /\ \A v \in EarlierOf(wire[i]) :
            v \in SettledWrites \/ \E j \in DOMAIN pipeline : j < k /\ pipeline[j].write = v
  BY <1>1, PipelineInOrder
<1>3. ASSUME NEW j \in DOMAIN answers PROVE answers[j].write < wire[i]
  <2>1. j \in DOMAIN pipeline /\ pipeline[j].write = answers[j].write
    BY OnTheWay
  <2>2. j < k
    BY OrderTypes
  <2> HIDE DEF k
  <2> QED
    BY <1>1, <2>1, <2>2, PipelineInOrder
<1>4. ASSUME NEW j \in DOMAIN pipeline, j < k
      PROVE  \/ \E n \in DOMAIN answers : answers[n].write = pipeline[j].write
             \/ \E n \in DOMAIN wire : n < i /\ wire[n] = pipeline[j].write
  <2>1. CASE j <= Len(answers)
    <3>1. j \in DOMAIN answers
      BY <2>1, OrderTypes
    <3> QED
      BY <3>1, OnTheWay
  <2>2. CASE ~(j <= Len(answers))
    <3> DEFINE n == j - Len(answers)
    <3>1. n \in DOMAIN wire /\ n < i /\ Len(answers) + n = j
      BY <1>4, <2>2, OrderTypes
    <3> HIDE DEF n
    <3>2. pipeline[Len(answers) + n].write = wire[n]
      BY <3>1, OnTheWay
    <3> QED
      BY <3>1, <3>2
  <2> QED
    BY <2>1, <2>2
<1> HIDE DEF k
<1> QED
  BY <1>2, <1>3, <1>4

-----------------------------------------------------------------------------
(* The server judges, and writes leave                                     *)

\* The server has taken the first n writes of the wire.
LEMMA Taken ==
    ASSUME IInv, OrderInv, NEW n \in 0..Len(wire),
           applied' = [u \in Users |->
               IF u = streamUser THEN applied[u] \o SubSeq(wire, 1, n) ELSE applied[u]]
    PROVE  /\ AppliedWrites' = AppliedWrites \cup {wire[i] : i \in 1..n}
           /\ n = 0 => applied' = applied
           /\ \A u \in Users : \/ applied'[u] = applied[u]
                               \/ /\ u = user /\ n > 0
                                  /\ applied'[u] # <<>> /\ Last(applied'[u]) = wire[n]
<1> DEFINE taken == SubSeq(wire, 1, n)
<1>1. /\ wire \in Seq(Writes) /\ Len(wire) \in Nat /\ n \in 0..Len(wire)
      /\ DOMAIN wire = 1..Len(wire)
      /\ applied \in [Users -> Seq(Writes)] /\ user \in Users
  BY OrderTypes
<1>2. /\ taken \in Seq(Writes) /\ Len(taken) = n /\ \A i \in 1..n : taken[i] = wire[i]
      /\ DOMAIN taken = 1..n
  <2>1. \A i \in 1..n : wire[i] \in Writes
    BY <1>1, ElementOfSeq
  <2>2. /\ taken \in Seq(Writes) /\ Len(taken) = IF 1 <= n THEN n - 1 + 1 ELSE 0
        /\ \A i \in 1..(n - 1 + 1) : taken[i] = wire[1 + i - 1]
    BY <1>1, <2>1, SubSeqProperties
  <2> HIDE DEF taken
  <2>3. Len(taken) = n /\ \A i \in 1..n : taken[i] = wire[i]
    BY <1>1, <2>2
  <2> QED
    BY <2>2, <2>3, LenProperties
<1>3. applied' = [u \in Users |-> IF u = streamUser THEN applied[u] \o taken ELSE applied[u]]
  OBVIOUS
<1> HIDE DEF taken
<1>4. CASE n = 0
  <2>1. taken = <<>>
    BY <1>2, <1>4, EmptySeq
  <2>2. \A u \in Users : applied[u] \o taken = applied[u]
    BY <1>1, <2>1, ConcatEmptySeq
  <2>3. applied' = applied
    BY <1>1, <1>3, <2>2
  <2>4. {wire[i] : i \in 1..n} = {}
    BY <1>4
  <2> QED
    BY <1>4, <2>3, <2>4 DEF AppliedWrites
<1>5. CASE n > 0
  <2>1. streamUser = user
    <3>1. wire # <<>>
      BY <1>1, <1>5
    <3>2. stream.state = "Open"
      BY <3>1, OnTheWay DEF CanSend
    <3> QED
      BY <3>2 DEF OrderInv, OpenIsOfUser
  <2> DEFINE before == applied[user]
             after == applied'[user]
  <2>2. \A u \in Users : u # user => applied'[u] = applied[u]
    BY <1>3, <2>1
  <2>3. before \in Seq(Writes) /\ after = before \o taken
    BY <1>1, <1>3, <2>1
  <2> HIDE DEF before, after
  <2>4. /\ after \in Seq(Writes) /\ Len(after) = Len(before) + n
        /\ Len(before) \in Nat /\ DOMAIN before = 1..Len(before)
        /\ DOMAIN after = 1..(Len(before) + n)
        /\ \A i \in 1..(Len(before) + n) :
              after[i] = IF i <= Len(before) THEN before[i] ELSE taken[i - Len(before)]
    <3>1. /\ before \o taken \in Seq(Writes) /\ Len(before \o taken) = Len(before) + Len(taken)
          /\ \A i \in 1..(Len(before) + Len(taken)) : (before \o taken)[i] =
                IF i <= Len(before) THEN before[i] ELSE taken[i - Len(before)]
      BY <1>2, <2>3, ConcatProperties
    <3> QED
      BY <1>2, <2>3, <3>1, LenProperties
  <2>5. after # <<>> /\ Last(after) = wire[n]
    <3>1. Len(before) + n \in 1..(Len(before) + n) /\ ~(Len(before) + n <= Len(before))
          /\ (Len(before) + n) - Len(before) = n /\ n \in 1..n /\ Len(before) + n # 0
      BY <1>1, <1>5, <2>4
    <3>2. after[Len(before) + n] = wire[n]
      BY <1>2, <2>4, <3>1
    <3> QED
      BY <2>4, <3>1, <3>2 DEF Last
  <2>6. ASSUME NEW w
        PROVE  (\E i \in DOMAIN after : after[i] = w)
                  <=> (\E i \in DOMAIN before : before[i] = w) \/ w \in {wire[i] : i \in 1..n}
    <3>1. ASSUME NEW i \in DOMAIN after
          PROVE  \/ i \in DOMAIN before /\ after[i] = before[i]
                 \/ i - Len(before) \in 1..n /\ after[i] = wire[i - Len(before)]
      BY <1>1, <1>2, <2>4
    <3>2. ASSUME NEW i \in DOMAIN before PROVE i \in DOMAIN after /\ after[i] = before[i]
      BY <1>1, <2>4
    <3>3. ASSUME NEW i \in 1..n PROVE \E j \in DOMAIN after : after[j] = wire[i]
      <4>1. /\ Len(before) + i \in 1..(Len(before) + n) /\ ~(Len(before) + i <= Len(before))
            /\ (Len(before) + i) - Len(before) = i
        BY <1>1, <2>4
      <4> QED
        BY <1>2, <2>4, <4>1
    <3> QED
      BY <3>1, <3>2, <3>3
  <2>7. AppliedWrites' = AppliedWrites \cup {wire[i] : i \in 1..n}
    <3>1. {wire[i] : i \in 1..n} \subseteq Writes
      BY <1>1, ElementOfSeq
    <3>2. ASSUME NEW w \in Writes
          PROVE  (\E u \in Users : \E i \in DOMAIN applied'[u] : applied'[u][i] = w)
                    <=> \/ \E u \in Users : \E i \in DOMAIN applied[u] : applied[u][i] = w
                        \/ w \in {wire[i] : i \in 1..n}
      <4>1. user \in Users /\ before = applied[user] /\ after = applied'[user]
        BY <1>1 DEF before, after
      <4>2. \A u \in Users : u = user \/ applied'[u] = applied[u]
        BY <2>2
      <4>3. (\E i \in DOMAIN after : after[i] = w)
                <=> (\E i \in DOMAIN before : before[i] = w) \/ w \in {wire[i] : i \in 1..n}
        BY <2>6
      <4> DEFINE new == w \in {wire[i] : i \in 1..n}
      <4> HIDE DEF new
      <4>4. ASSUME NEW u \in Users, NEW i \in DOMAIN applied'[u], applied'[u][i] = w
            PROVE  (\E v \in Users : \E j \in DOMAIN applied[v] : applied[v][j] = w) \/ new
        BY <4>1, <4>2, <4>3, <4>4 DEF new
      <4>5. ASSUME NEW u \in Users, NEW i \in DOMAIN applied[u], applied[u][i] = w
            PROVE  \E v \in Users : \E j \in DOMAIN applied'[v] : applied'[v][j] = w
        BY <4>1, <4>2, <4>3, <4>5 DEF new
      <4>6. new => \E v \in Users : \E j \in DOMAIN applied'[v] : applied'[v][j] = w
        BY <4>1, <4>3 DEF new
      <4> QED
        BY <4>4, <4>5, <4>6 DEF new
    <3> QED
      BY <3>1, <3>2 DEF AppliedWrites
  <2> QED
    BY <1>5, <2>2, <2>5, <2>7 DEF after
<1>6. n = 0 \/ n > 0
  BY <1>1
<1> QED
  BY <1>4, <1>5, <1>6

\* The first n writes of the wire are judged while the queues stay as they are.
LEMMA TakenInOrder ==
    ASSUME IInv, OrderInv, mutations' = mutations, owner' = owner,
           NEW n \in 0..Len(wire), n = 0 \/ ~Ended,
           JudgedWrites' = JudgedWrites \cup {wire[i] : i \in 1..n},
           refused \subseteq refused',
           \A u \in Users : \/ applied'[u] = applied[u]
                            \/ /\ u = user /\ n > 0
                               /\ applied'[u] # <<>> /\ Last(applied'[u]) = wire[n]
    PROVE  JudgedInOrder' /\ SettledInOrder' /\ NewerWait' /\ SettledWrites' = SettledWrites
<1>1. /\ SettledWrites' = SettledWrites /\ \A w : EarlierOf(w)' = EarlierOf(w)
      /\ JudgedWrites \subseteq JudgedWrites'
  BY DEF SettledWrites, Stays, EarlierOf
<1>2. /\ \A i \in 1..n : i \in DOMAIN wire
      /\ \A w : EarlierOf(w) \subseteq Nat
  BY OrderTypes DEF EarlierOf
<1>3. SettledInOrder'
  BY <1>1 DEF OrderInv, SettledInOrder
<1>4. ASSUME NEW i \in 1..n
      PROVE  wire[i] \in DOMAIN owner /\ EarlierOf(wire[i]) \subseteq JudgedWrites'
  <2>1. ~Ended
    BY OrderTypes
  <2>2. \A j \in DOMAIN answers : answers[j].verdict = "applied"
    <3>1. answers # <<>> => Last(answers) = answers[Len(answers)]
      BY DEF Last
    <3>2. answers # <<>> => answers[Len(answers)].verdict = "applied"
      BY <2>1, <3>1 DEF Ended
    <3>3. ASSUME NEW j \in DOMAIN answers PROVE j < Len(answers) \/ j = Len(answers)
      BY OrderTypes
    <3> QED
      BY <3>2, <3>3 DEF OrderInv, AnswersAreTrue
  <2>3. \A j \in DOMAIN answers : answers[j].write \in JudgedWrites
    BY <2>2 DEF OrderInv, AnswersAreTrue, JudgedWrites
  <2>4. \A v \in SettledWrites : v \in JudgedWrites
    BY DEF OrderInv, SettledInOrder
  <2>5. ASSUME NEW j \in DOMAIN wire, j < i PROVE wire[j] \in JudgedWrites'
    BY <2>5, OrderTypes
  <2>6. wire[i] \in DOMAIN owner
    BY <1>2, WireInOrder DEF WrittenBy
  <2> QED
    BY <1>1, <1>2, <2>3, <2>4, <2>5, <2>6, WireInOrder
<1>5. JudgedInOrder'
  BY <1>1, <1>4 DEF OrderInv, JudgedInOrder
<1>6. ASSUME NEW u \in Users, applied'[u] # <<>>, NEW w \in DOMAIN owner,
             owner[w] = u, w > Last(applied'[u])
      PROVE  w \in refused' \/ w \notin SettledWrites
  <2>1. CASE applied'[u] = applied[u]
    BY <1>6, <2>1 DEF OrderInv, NewerWait
  <2>2. CASE u = user /\ n > 0 /\ Last(applied'[u]) = wire[n]
    <3>1. n \in DOMAIN wire
      BY <2>2, OrderTypes
    <3>2. wire[n] \in Writes /\ WrittenBy(wire[n], user) /\ wire[n] \notin SettledWrites
      BY <3>1, WireInOrder
    <3>3. wire[n] \in EarlierOf(w)
      BY <1>6, <2>2, <3>2, OrderTypes DEF EarlierOf, WrittenBy
    <3> QED
      BY <3>2, <3>3 DEF OrderInv, SettledInOrder
  <2> QED
    BY <2>1, <2>2
<1>7. NewerWait'
  BY <1>1, <1>6 DEF NewerWait
<1> QED
  BY <1>1, <1>3, <1>5, <1>7

\* The front of the pipeline leaves the queue.
LEMMA FrontLeaves ==
    ASSUME IInv, OrderInv, pipeline # <<>>, owner' = owner, NEW id, id = Head(pipeline).id,
           mutations' = [mutations EXCEPT ![user] = RemoveMutationBatch(mutations[user], id)]
    PROVE  LET w == Head(pipeline).write
           IN /\ QueuesInOrder' /\ w \in DOMAIN owner /\ WrittenBy(w, user) /\ w \in Writes
              /\ w \notin SettledWrites /\ EarlierOf(w) \subseteq SettledWrites
              /\ SettledWrites' = SettledWrites \cup {w}
              /\ id \in DOMAIN mutations[user] /\ mutations[user][id] = w
              /\ \A u \in Users : \A x \in DOMAIN mutations[u] :
                    mutations[u][x] = w <=> u = user /\ x = id
<1> DEFINE w == Head(pipeline).write
<1>1. 1 \in DOMAIN pipeline /\ Head(pipeline) = pipeline[1] /\ \A j \in DOMAIN pipeline : ~(j < 1)
  BY OrderTypes, EmptySeq
<1>2. /\ id \in DOMAIN mutations[user] /\ mutations[user][id] = w /\ WrittenBy(w, user)
      /\ w \in Writes /\ w \notin SettledWrites
      /\ \A v \in EarlierOf(w) : v \in SettledWrites
  BY <1>1, PipelineInOrder
<1>3. /\ DOMAIN mutations = Users /\ user \in Users /\ IsQueue(mutations[user])
      /\ \A u \in Users : DOMAIN mutations[u] \subseteq Nat
  BY OrderTypes
<1> HIDE DEF w
<1>4. /\ DOMAIN RemoveMutationBatch(mutations[user], id) = DOMAIN mutations[user] \ {id}
      /\ \A x \in DOMAIN mutations[user] \ {id} :
            RemoveMutationBatch(mutations[user], id)[x] = mutations[user][x]
  BY <1>3, BatchRemoved
<1>5. ASSUME NEW u \in Users, NEW x
      PROVE  /\ x \in DOMAIN mutations'[u] <=> x \in DOMAIN mutations[u] /\ ~(u = user /\ x = id)
             /\ x \in DOMAIN mutations'[u] => mutations'[u][x] = mutations[u][x]
  <2>1. CASE u = user
    <3>1. mutations'[u] = RemoveMutationBatch(mutations[user], id)
      BY <1>3, <2>1
    <3> QED
      BY <1>4, <2>1, <3>1
  <2>2. CASE u # user
    <3>1. mutations'[u] = mutations[u]
      BY <1>3, <2>2
    <3> QED
      BY <2>2, <3>1
  <2> QED
    BY <2>1, <2>2
<1>6. ASSUME NEW u \in Users, NEW x \in DOMAIN mutations[u]
      PROVE  mutations[u][x] = w <=> u = user /\ x = id
  <2>1. mutations[u][x] = w => u = user
    BY <1>2, StaysWithOwner DEF WrittenBy
  <2>2. u = user => (x < id => mutations[u][x] < w) /\ (id < x => w < mutations[u][x])
    BY <1>2, <1>3 DEF OrderInv, QueuesInOrder
  <2>3. w \in Nat /\ mutations[u][x] \in Nat /\ x \in Nat /\ (u = user => id \in Nat)
    BY <1>2, <1>3, StaysWithOwner, OrderTypes
  <2> QED
    BY <1>2, <2>1, <2>2, <2>3
<1>7. ASSUME NEW v PROVE Stays(v)' <=> Stays(v) /\ v # w
  <2>1. ASSUME NEW u \in Users, NEW x \in DOMAIN mutations'[u], mutations'[u][x] = v
        PROVE  Stays(v) /\ v # w
    <3>1. x \in DOMAIN mutations[u] /\ mutations[u][x] = v /\ ~(u = user /\ x = id)
      BY <1>5, <2>1
    <3> QED
      BY <1>6, <3>1 DEF Stays
  <2>2. ASSUME NEW u \in Users, NEW x \in DOMAIN mutations[u], mutations[u][x] = v, v # w
        PROVE  Stays(v)'
    <3>1. x \in DOMAIN mutations'[u]
      BY <1>2, <1>5, <2>2
    <3> QED
      BY <1>5, <2>2, <3>1 DEF Stays
  <2> QED
    BY <2>1, <2>2 DEF Stays
<1>8. w \in DOMAIN owner
  BY <1>2 DEF WrittenBy
<1>9. SettledWrites' = SettledWrites \cup {w}
  BY <1>7, <1>8 DEF SettledWrites
<1>10. QueuesInOrder'
  <2>1. SUFFICES ASSUME NEW u \in Users, NEW x \in DOMAIN mutations'[u],
                        NEW y \in DOMAIN mutations'[u], x < y
                 PROVE  mutations'[u][x] < mutations'[u][y]
    BY DEF QueuesInOrder
  <2>2. /\ x \in DOMAIN mutations[u] /\ mutations'[u][x] = mutations[u][x]
        /\ y \in DOMAIN mutations[u] /\ mutations'[u][y] = mutations[u][y]
    BY <1>5
  <2> QED
    BY <2>1, <2>2 DEF OrderInv, QueuesInOrder
<1> QED
  BY <1>2, <1>6, <1>8, <1>9, <1>10 DEF w

\* If it has been judged, and is not newer than the last write applied or was
\* refused, the order is kept.
LEMMA FrontSettled ==
    ASSUME IInv, OrderInv, pipeline # <<>>, owner' = owner, applied' = applied, refused' = refused,
           mutations' = [mutations EXCEPT ![user] =
                             RemoveMutationBatch(mutations[user], Head(pipeline).id)],
           Head(pipeline).write \in JudgedWrites,
           \/ Head(pipeline).write \in refused
           \/ (applied[user] # <<>> /\ Head(pipeline).write <= Last(applied[user]))
    PROVE  QueuesInOrder' /\ JudgedInOrder' /\ SettledInOrder' /\ NewerWait'
<1> DEFINE w == Head(pipeline).write
           id == Head(pipeline).id
<1>1. /\ QueuesInOrder' /\ w \in DOMAIN owner /\ WrittenBy(w, user) /\ w \in Writes
      /\ EarlierOf(w) \subseteq SettledWrites
      /\ SettledWrites' = SettledWrites \cup {w}
  <2> HIDE DEF w
  <2>1. id = Head(pipeline).id
    OBVIOUS
  <2> HIDE DEF id
  <2>2. mutations' = [mutations EXCEPT ![user] = RemoveMutationBatch(mutations[user], id)]
    BY <2>1
  <2> QED
    BY <2>1, <2>2, FrontLeaves DEF w
<1>2. JudgedWrites' = JudgedWrites /\ \A v : EarlierOf(v)' = EarlierOf(v)
  BY DEF JudgedWrites, AppliedWrites, EarlierOf
<1>3. /\ w \in JudgedWrites
      /\ w \in refused \/ (applied[user] # <<>> /\ w <= Last(applied[user]))
  BY DEF w
<1> HIDE DEF w
<1>4. JudgedInOrder'
  BY <1>2 DEF OrderInv, JudgedInOrder
<1>5. SettledInOrder'
  BY <1>1, <1>2, <1>3 DEF OrderInv, SettledInOrder
<1>6. ASSUME NEW u \in Users, applied[u] # <<>>, NEW v \in DOMAIN owner, owner[v] = u,
             v > Last(applied[u])
      PROVE  v \in refused \/ v \notin SettledWrites'
  <2>1. CASE v = w
    <3>1. u = user
      BY <1>1, <1>6, <2>1 DEF WrittenBy
    <3>2. Last(applied[user]) \in Writes
      <4>1. applied[user] \in Seq(Writes)
        BY OrderTypes
      <4> QED
        BY <1>6, <3>1, <4>1, EmptySeq, LenProperties DEF Last
    <3>3. Last(applied[user]) \in Nat /\ w \in Nat
      BY <1>1, <3>2, OrderTypes
    <3> QED
      BY <1>3, <1>6, <2>1, <3>1, <3>3
  <2>2. CASE v # w
    BY <1>1, <1>6, <2>2 DEF OrderInv, NewerWait
  <2> QED
    BY <2>1, <2>2
<1>7. NewerWait'
  BY <1>6 DEF NewerWait
<1> QED
  BY <1>1, <1>4, <1>5, <1>7

-----------------------------------------------------------------------------
(* Steps of the outbox                                                     *)

IsStep == [Promise!Next]_(Promise!vars)

LEMMA EldersAgree ==
    ASSUME owner \in Seq(Users), NEW w \in DOMAIN owner
    PROVE  Promise!Earlier(w) = EarlierOf(w)
<1>1. Len(owner) \in Nat /\ DOMAIN owner = 1..Len(owner)
  BY LenProperties
<1> QED
  BY <1>1 DEF Promise!Earlier, EarlierOf

LEMMA OutboxRests ==
    ASSUME UNCHANGED <<mutations, applied, refused, owner, told>>
    PROVE  IsStep
<1>1. AppliedWrites' = AppliedWrites /\ SettledWrites' = SettledWrites
  BY DEF AppliedWrites, SettledWrites, Stays
<1> QED
  BY <1>1 DEF IsStep, Promise!vars

LEMMA VerdictsGiven ==
    ASSUME owner \in Seq(Users), owner' = owner, JudgedInOrder',
           AppliedWrites \subseteq AppliedWrites', refused \subseteq refused'
    PROVE  Promise!Verdicts
<1>1. ASSUME NEW w \in AppliedWrites' \cup refused'
      PROVE  w \in DOMAIN owner /\ Promise!Earlier(w) \subseteq Promise!Judged'
  <2>1. w \in DOMAIN owner /\ EarlierOf(w)' \subseteq JudgedWrites'
    BY <1>1 DEF JudgedInOrder, JudgedWrites
  <2>2. EarlierOf(w)' = EarlierOf(w) /\ JudgedWrites' = Promise!Judged'
    BY DEF EarlierOf, JudgedWrites, Promise!Judged
  <2> QED
    BY <2>1, <2>2, EldersAgree
<1> QED
  BY <1>1 DEF Promise!Verdicts

LEMMA OutboxJudges ==
    ASSUME owner \in Seq(Users), owner' = owner, told' = told, SettledWrites' = SettledWrites,
           JudgedInOrder', AppliedWrites \subseteq AppliedWrites', refused \subseteq refused'
    PROVE  IsStep
<1>1. Promise!Judge
  BY VerdictsGiven DEF Promise!Judge
<1> QED
  BY <1>1 DEF IsStep, Promise!Next

LEMMA OutboxSettles ==
    ASSUME owner \in Seq(Users), owner' = owner, applied' = applied, refused' = refused,
           NEW w \in JudgedWrites \ SettledWrites, w \in DOMAIN owner,
           EarlierOf(w) \subseteq SettledWrites, SettledWrites' = SettledWrites \cup {w},
           \/ told' = told
           \/ \E outcome \in {"ok", "failed"} :
                 /\ told[w] = <<>> /\ told' = [told EXCEPT ![w] = <<outcome>>]
                 /\ outcome = "ok" => w \in AppliedWrites
    PROVE  IsStep
<1>1. AppliedWrites' = AppliedWrites
  BY DEF AppliedWrites
<1>2. Promise!Earlier(w) \subseteq SettledWrites /\ JudgedWrites = Promise!Judged
  BY EldersAgree DEF JudgedWrites, Promise!Judged
<1>3. CASE told' = told
  <2>1. Promise!Settle(w)
    BY <1>1, <1>2, <1>3 DEF Promise!Settle
  <2> QED
    BY <2>1 DEF IsStep, Promise!Next
<1>4. ASSUME NEW outcome \in {"ok", "failed"}, told[w] = <<>>,
             told' = [told EXCEPT ![w] = <<outcome>>], outcome = "ok" => w \in AppliedWrites
      PROVE  IsStep
  <2>1. Promise!Tell(w, outcome)
    BY <1>2, <1>4 DEF Promise!Tell, Promise!MayTell
  <2>2. Promise!Settle(w)
    BY <1>1, <1>2, <1>4, <2>1 DEF Promise!Settle
  <2> QED
    BY <2>2 DEF IsStep, Promise!Next
<1> QED
  BY <1>3, <1>4

-----------------------------------------------------------------------------
(* The stream opens only with a token                                      *)

LEMMA StartDoesNotOpen ==
    ASSUME NEW s \in Stream, NEW p, NEW t, t = StartIfNeeded(s, p)
    PROVE  t.state = "Open" => s.state = "Open"
<1>1. CASE t = s
  BY <1>1
<1>2. CASE t = Start(s)
  <2>1. CASE s.state = "Error"
    <3>1. t = [s EXCEPT !.state = "Backoff"]
      BY <1>2, <2>1 DEF Start
    <3>2. t.state = "Backoff"
      BY <3>1 DEF Stream
    <3> QED
      BY <3>2
  <2>2. CASE s.state # "Error"
    <3> DEFINE more == s.requests \cup {[closeCount |-> s.closeCount, counter |-> tokenCounter]}
    <3>1. t = [s EXCEPT !.state = "Starting", !.requests = more]
      BY <1>2, <2>2 DEF Start
    <3> HIDE DEF more
    <3>2. t.state = "Starting"
      BY <3>1 DEF Stream
    <3> QED
      BY <3>2
  <2> QED
    BY <2>1, <2>2
<1> QED
  BY <1>1, <1>2 DEF StartIfNeeded

LEMMA FillingDoesNotOpen ==
    ASSUME NEW q, NEW p, NEW s \in Stream, NEW sent, FillWritePipeline(q, p, s, sent)
    PROVE  stream'.state = "Open" => s.state = "Open"
<1> DEFINE all == p \o NextBatches(q, p)
           sends == CanSend(s) /\ NextBatches(q, p) # <<>>
           idle == IF all = <<>> THEN MarkIdle(s)
                   ELSE IF sends THEN [s EXCEPT !.idleTimer = FALSE] ELSE s
<1>1. stream' = StartIfNeeded(idle, all)
  BY DEF FillWritePipeline
<1> HIDE DEF all, sends
<1>2. idle \in Stream /\ idle.state = s.state
  <2>1. MarkIdle(s) \in Stream /\ MarkIdle(s).state = s.state
    BY DEF MarkIdle, Stream
  <2>2. [s EXCEPT !.idleTimer = FALSE] \in Stream /\ [s EXCEPT !.idleTimer = FALSE].state = s.state
    BY DEF Stream
  <2> QED
    BY <2>1, <2>2
<1> HIDE DEF idle
<1> QED
  BY <1>1, <1>2, StartDoesNotOpen

LEMMA ClosedIsNotOpen ==
    ASSUME NEW s \in Stream, NEW state \in {"Initial", "Error"}, NEW c, c = Close(s, state)
    PROVE  c \in Stream /\ c.state # "Open"
<1>1. CASE IsStarted(s)
  <2> DEFINE n == s.closeCount + 1
  <2>1. n \in Nat
    BY DEF Stream
  <2>2. c = [s EXCEPT !.state = state, !.handshakeComplete = FALSE, !.idleTimer = FALSE,
                      !.closeCount = n]
    BY <1>1 DEF Close
  <2> HIDE DEF n
  <2> QED
    BY <2>1, <2>2 DEF Stream
<1>2. CASE ~IsStarted(s)
  BY <1>2 DEF Close, IsStarted
<1> QED
  BY <1>1, <1>2

-----------------------------------------------------------------------------
(* The connection goes; who waits is told                                  *)

\* What Disconnect leaves in order, as long as queues and owners stay.
LEMMA Cut ==
    ASSUME IInv, OrderInv, Disconnect, owner' = owner, refused' = refused
    PROVE  /\ answers' = <<>> /\ AnswersAreTrue'
           /\ AppliedWrites \subseteq AppliedWrites'
           /\ Ended => applied' = applied
           /\ mutations' = mutations =>
                 /\ JudgedInOrder' /\ SettledInOrder' /\ NewerWait'
                 /\ SettledWrites' = SettledWrites
<1>1. PICK n \in 0..(IF Ended THEN 0 ELSE Len(wire)) :
         applied' = [u \in Users |->
             IF u = streamUser THEN applied[u] \o SubSeq(wire, 1, n) ELSE applied[u]]
  BY DEF Disconnect
<1>2. n \in 0..Len(wire) /\ (n = 0 \/ ~Ended) /\ (Ended => n = 0)
  BY OrderTypes
<1>3. /\ AppliedWrites' = AppliedWrites \cup {wire[i] : i \in 1..n}
      /\ n = 0 => applied' = applied
      /\ \A u \in Users : \/ applied'[u] = applied[u]
                          \/ /\ u = user /\ n > 0
                             /\ applied'[u] # <<>> /\ Last(applied'[u]) = wire[n]
  BY <1>1, <1>2, Taken
<1>4. answers' = <<>> /\ DOMAIN <<>> = {}
  BY DEF Disconnect
<1>5. AnswersAreTrue'
  BY <1>4 DEF AnswersAreTrue
<1>6. JudgedWrites' = JudgedWrites \cup {wire[i] : i \in 1..n}
  BY <1>3 DEF JudgedWrites
<1>7. ASSUME mutations' = mutations
      PROVE  JudgedInOrder' /\ SettledInOrder' /\ NewerWait' /\ SettledWrites' = SettledWrites
  BY <1>2, <1>3, <1>6, <1>7, TakenInOrder
<1> QED
  BY <1>2, <1>3, <1>4, <1>5, <1>7

\* A completion that waits under the front's id is the one of the front's write,
\* and no other waits for that write.
LEMMA WaitsForFront ==
    ASSUME IInv, OrderInv, pipeline # <<>>, NEW id, id = Head(pipeline).id,
           NEW u \in Users, NEW x \in DOMAIN callbacks[u]
    PROVE  /\ callbacks[u][x] = Head(pipeline).write <=> u = user /\ x = id
           /\ callbacks[u][x] \in DOMAIN owner /\ callbacks[u][x] \in Writes
<1> DEFINE w == Head(pipeline).write
<1>1. x \in DOMAIN mutations[u] /\ mutations[u][x] = callbacks[u][x]
  BY DEF IInv, CallbacksBelong
<1>2. /\ 1 \in DOMAIN pipeline /\ Head(pipeline) = pipeline[1]
  BY OrderTypes, EmptySeq
<1>3. /\ id \in DOMAIN mutations[user] /\ mutations[user][id] = w /\ WrittenBy(w, user)
  BY <1>2, PipelineInOrder
<1> HIDE DEF w
<1>4. mutations[u][x] \in DOMAIN owner /\ mutations[u][x] \in Writes
  BY <1>1, StaysWithOwner DEF WrittenBy
<1>5. mutations[u][x] = w => u = user
  BY <1>1, <1>3, StaysWithOwner DEF WrittenBy
<1>6. u = user => (x < id => mutations[u][x] < w) /\ (id < x => w < mutations[u][x])
  BY <1>1, <1>3 DEF OrderInv, QueuesInOrder
<1>7. mutations[u][x] \in Nat /\ x \in Nat /\ (u = user => id \in Nat)
  BY <1>1, <1>3, <1>4, OrderTypes
<1>8. mutations[u][x] = w <=> u = user /\ x = id
  BY <1>3, <1>5, <1>6, <1>7
<1> QED
  BY <1>1, <1>4, <1>8 DEF w

\* The completion of the front is told its outcome, as its only one.
LEMMA Notified ==
    ASSUME IInv, OrderInv, pipeline # <<>>, owner' = owner, NEW outcome,
           NotifyUser(Head(pipeline).id, outcome)
    PROVE  /\ WaitingAreUntold'
           /\ \/ told' = told
              \/ /\ told[Head(pipeline).write] = <<>>
                 /\ told' = [told EXCEPT ![Head(pipeline).write] = <<outcome>>]
<1> DEFINE w == Head(pipeline).write
           id == Head(pipeline).id
           c == callbacks[user]
           left == RemoveMutationBatch(c, id)
<1>1. /\ user \in Users /\ Len(owner) \in Nat /\ DOMAIN owner = 1..Len(owner)
      /\ Writes \subseteq Nat
  BY OrderTypes
<1>2. DOMAIN callbacks = Users /\ DOMAIN told = Writes
  BY DEF IInv, TypeOK
<1>3. /\ told' = IF id \in DOMAIN c THEN [told EXCEPT ![c[id]] = Append(told[c[id]], outcome)] ELSE told
      /\ callbacks' = [callbacks EXCEPT ![user] = left]
  BY DEF NotifyUser
<1>4. DOMAIN left = DOMAIN c \ {id} /\ \A x \in DOMAIN left : left[x] = c[x]
  BY DEF RemoveMutationBatch, Restrict
<1>5. ASSUME NEW u \in Users, NEW x \in DOMAIN callbacks[u]
      PROVE  /\ callbacks[u][x] = w <=> u = user /\ x = id
             /\ callbacks[u][x] \in DOMAIN owner /\ callbacks[u][x] \in Writes
  BY WaitsForFront
<1>6. \A u \in Users : \A x \in DOMAIN callbacks[u] : told[callbacks[u][x]] = <<>>
  BY DEF OrderInv, WaitingAreUntold
<1> HIDE DEF left, w, id
<1>7. ASSUME NEW u \in Users, NEW x \in DOMAIN callbacks'[u]
      PROVE  /\ x \in DOMAIN callbacks[u] /\ callbacks'[u][x] = callbacks[u][x]
             /\ ~(u = user /\ x = id)
  <2>1. CASE u = user
    <3>1. callbacks'[u] = left
      BY <1>1, <1>2, <1>3, <2>1
    <3> QED
      BY <1>4, <1>7, <2>1, <3>1
  <2>2. CASE u # user
    <3>1. callbacks'[u] = callbacks[u]
      BY <1>2, <1>3, <2>2
    <3> QED
      BY <1>7, <2>2, <3>1
  <2> QED
    BY <2>1, <2>2
<1>8. \/ told' = told
      \/ /\ told[w] = <<>> /\ w \in DOMAIN owner /\ w \in Writes
         /\ told' = [told EXCEPT ![w] = <<outcome>>]
  <2>1. CASE id \in DOMAIN c
    <3>1. c[id] = w /\ w \in DOMAIN owner /\ w \in Writes /\ told[w] = <<>>
      BY <1>1, <1>5, <1>6, <2>1
    <3>2. Append(<<>>, outcome) = <<outcome>>
      BY AppendProperties, EmptySeq
    <3> HIDE DEF c
    <3>3. told' = [told EXCEPT ![w] = Append(told[w], outcome)]
      BY <1>3, <2>1, <3>1
    <3> QED
      BY <3>1, <3>2, <3>3
  <2>2. CASE id \notin DOMAIN c
    BY <1>3, <2>2
  <2> QED
    BY <2>1, <2>2
<1>9. \A v \in Writes : v # w => told'[v] = told[v]
  BY <1>2, <1>8
<1>10. WaitingAreUntold'
  <2>1. ASSUME NEW u \in Users, NEW x \in DOMAIN callbacks'[u]
        PROVE  told'[callbacks'[u][x]] = <<>>
    <3>1. /\ x \in DOMAIN callbacks[u] /\ callbacks'[u][x] = callbacks[u][x]
          /\ ~(u = user /\ x = id)
      BY <1>7
    <3>2. callbacks[u][x] # w /\ callbacks[u][x] \in Writes /\ told[callbacks[u][x]] = <<>>
      BY <1>5, <1>6, <3>1
    <3> QED
      BY <1>9, <3>1, <3>2
  <2>2. ASSUME NEW v \in Writes, v > Len(owner) PROVE told'[v] = <<>>
    <3>1. told[v] = <<>>
      BY <2>2 DEF OrderInv, WaitingAreUntold
    <3>2. told' = told \/ v # w
      BY <1>1, <1>8, <2>2
    <3> QED
      BY <1>9, <3>1, <3>2
  <2> QED
    BY <2>1, <2>2 DEF WaitingAreUntold
<1> QED
  BY <1>8, <1>10 DEF w

-----------------------------------------------------------------------------
(* Each action keeps the order and is a step of the outbox                 *)

\* Steps that only concern the stream and its token.
LEMMA QuietStep ==
    ASSUME OrderInv, OpenIsOfUser',
           UNCHANGED <<mutations, user, callbacks, pipeline, answers, applied, refused, owner, told>>
    PROVE  OrderInv' /\ IsStep
<1>1. PipelineIsOldest' /\ QueuesInOrder'
  BY DEF OrderInv, PipelineIsOldest, QueuesInOrder, IsHead, IsFilled
<1>2. /\ AppliedWrites' = AppliedWrites /\ SettledWrites' = SettledWrites
      /\ JudgedWrites' = JudgedWrites /\ \A w : EarlierOf(w)' = EarlierOf(w)
  BY DEF AppliedWrites, SettledWrites, Stays, JudgedWrites, EarlierOf
<1>3. JudgedInOrder' /\ SettledInOrder'
  BY <1>2 DEF OrderInv, JudgedInOrder, SettledInOrder
<1>4. AnswersAreTrue' /\ NewerWait'
  BY <1>2 DEF OrderInv, AnswersAreTrue, NewerWait
<1>5. WaitingAreUntold'
  BY DEF OrderInv, WaitingAreUntold
<1>6. IsStep
  BY OutboxRests
<1> QED
  BY <1>1, <1>3, <1>4, <1>5, <1>6 DEF OrderInv

LEMMA TokenStepsOrdered ==
    ASSUME IInv, OrderInv,
           \/ \E u \in Users : AuthStateChange(u)
           \/ Token \/ IgnoreToken \/ TokenFailed \/ ResumeStart \/ BackoffElapsed
           \/ OnHandshakeComplete \/ UNCHANGED vars
    PROVE  OrderInv' /\ IsStep
<1>1. stream \in Stream /\ (stream.state = "Open" => streamUser = user)
  BY OrderTypes DEF OrderInv, OpenIsOfUser
<1> DEFINE kept == UNCHANGED <<mutations, user, callbacks, pipeline, answers, applied, refused,
                               owner, told>>
<1>2. CASE \E u \in Users : AuthStateChange(u)
  <2>1. kept /\ UNCHANGED <<stream, streamUser>>
    BY <1>2 DEF AuthStateChange, client, channel
  <2> QED
    BY <1>1, <2>1, QuietStep DEF OpenIsOfUser
<1>3. CASE Token
  <2>1. PICK r \in stream.requests : GetToken(r)
    BY <1>3 DEF Token
  <2>2. kept /\ streamUser' = streamUser /\ stream' = [stream EXCEPT !.requests = stream.requests \ {r}]
    BY <2>1 DEF GetToken, channel
  <2>3. stream'.state = stream.state
    BY <1>1, <2>2 DEF Stream
  <2> QED
    BY <1>1, <2>2, <2>3, QuietStep DEF OpenIsOfUser
<1>4. CASE IgnoreToken
  <2>1. kept /\ UNCHANGED <<stream, streamUser>>
    BY <1>4 DEF IgnoreToken, client, channel
  <2> QED
    BY <1>1, <2>1, QuietStep DEF OpenIsOfUser
<1>5. CASE TokenFailed
  <2>1. kept /\ stream' = StartIfNeeded(Close(stream, "Error"), pipeline)
    BY <1>5 DEF TokenFailed, channel
  <2>2. Close(stream, "Error") \in Stream /\ Close(stream, "Error").state # "Open"
    BY <1>1, ClosedIsNotOpen
  <2>3. stream'.state # "Open"
    BY <2>1, <2>2, StartDoesNotOpen
  <2> QED
    BY <2>1, <2>3, QuietStep DEF OpenIsOfUser
<1>6. CASE ResumeStart
  <2>1. /\ kept /\ streamUser' = Head(tasks).user /\ Head(tasks).user # Nil
        /\ Run("token") /\ Head(tasks).closeCount = stream.closeCount
    BY <1>6 DEF ResumeStart
  <2>2. streamUser' = user
    BY <2>1, TokenArrives
  <2> QED
    BY <2>1, <2>2, QuietStep DEF OpenIsOfUser
<1>7. CASE BackoffElapsed
  <2> DEFINE s == [stream EXCEPT !.state = "Initial"]
  <2>1. kept /\ stream' = Start(s)
    BY <1>7 DEF BackoffElapsed, channel
  <2>2. s \in Stream /\ s.state = "Initial"
    BY <1>1 DEF Stream
  <2> HIDE DEF s
  <2>3. stream' = StartIfNeeded(s, <<s>>)
    <3>1. <<s>> # <<>> /\ ~IsStarted(s)
      BY <2>2, EmptySeq DEF IsStarted
    <3> QED
      BY <2>1, <3>1 DEF StartIfNeeded
  <2>4. stream'.state # "Open"
    BY <2>2, <2>3, StartDoesNotOpen
  <2> QED
    BY <2>1, <2>4, QuietStep DEF OpenIsOfUser
<1>8. CASE OnHandshakeComplete
  <2> DEFINE idle == stream.idleTimer /\ pipeline = <<>>
  <2>1. /\ kept /\ streamUser' = streamUser
        /\ stream' = [stream EXCEPT !.handshakeComplete = TRUE, !.idleTimer = idle]
    BY <1>8 DEF OnHandshakeComplete
  <2> HIDE DEF idle
  <2>2. stream'.state = stream.state
    BY <1>1, <2>1 DEF Stream
  <2> QED
    BY <1>1, <2>1, <2>2, QuietStep DEF OpenIsOfUser
<1>9. CASE UNCHANGED vars
  <2>1. kept /\ UNCHANGED <<stream, streamUser>>
    BY <1>9 DEF vars, client, channel
  <2> QED
    BY <1>1, <2>1, QuietStep DEF OpenIsOfUser
<1> QED
  BY <1>2, <1>3, <1>4, <1>5, <1>6, <1>7, <1>8, <1>9

\* A write joins the end of the user's queue, with the greatest id.
LEMMA WriteMutationsOrdered ==
    ASSUME IInv, OrderInv, WriteMutations
    PROVE  OrderInv' /\ IsStep
<1> DEFINE w == Len(owner) + 1
           q == AddMutationBatch(mutations[user], w)
           c == AddMutationCallback(callbacks[user], w)
<1>1. /\ mutations' = [mutations EXCEPT ![user] = q]
      /\ callbacks' = [callbacks EXCEPT ![user] = c]
      /\ owner' = Append(owner, user)
      /\ FillWritePipeline(q, pipeline, stream, wire)
      /\ user' = user /\ answers' = answers /\ streamUser' = streamUser
      /\ applied' = applied /\ refused' = refused /\ told' = told
      /\ Len(owner) < MaxWrites
  BY DEF WriteMutations
<1>2. /\ user \in Users /\ owner \in Seq(Users) /\ Len(owner) \in Nat
      /\ DOMAIN owner = 1..Len(owner) /\ DOMAIN mutations = Users
      /\ pipeline \in Seq(Batch) /\ Len(pipeline) <= MaxPendingWrites /\ stream \in Stream
      /\ \A u \in Users : IsQueue(mutations[u]) /\ DOMAIN mutations[u] \subseteq Nat
  BY OrderTypes
<1>3. DOMAIN callbacks = Users /\ nextBatchId \in Nat
  BY DEF IInv, TypeOK
<1>4. w \in Writes /\ w \in Nat
  BY <1>1, <1>2, WritesAssumption DEF Writes
<1>5. /\ DOMAIN q = DOMAIN mutations[user] \cup {nextBatchId}
      /\ q[nextBatchId] = w
      /\ \A id \in DOMAIN mutations[user] : id < nextBatchId /\ q[id] = mutations[user][id]
  <2>1. \A id \in DOMAIN mutations[user] : id < nextBatchId /\ id \in Nat
    BY <1>2 DEF IInv, IdsAreTaken
  <2> QED
    BY <1>3, <2>1 DEF AddMutationBatch
<1>6. /\ DOMAIN c \subseteq DOMAIN callbacks[user] \cup {nextBatchId}
      /\ \A x \in DOMAIN c : \/ c[x] = w
                             \/ x \in DOMAIN callbacks[user] /\ c[x] = callbacks[user][x]
  BY DEF AddMutationCallback
<1>7. /\ Len(owner') = w /\ DOMAIN owner' = 1..w /\ owner'[w] = user
      /\ \A v \in 1..Len(owner) : owner'[v] = owner[v] /\ v \in DOMAIN owner'
      /\ owner' \in Seq(Users)
  BY <1>1, <1>2, AppendProperties, LenProperties
<1> HIDE DEF w, c
<1>8. IsQueue(q)
  <2>1. IsFiniteSet(DOMAIN q)
    <3>1. IsFiniteSet(DOMAIN mutations[user])
      BY <1>2 DEF IsQueue
    <3> QED
      BY <1>5, <3>1, FS_AddElement
  <2>2. Stored(q)
    BY <1>2, <1>3, <1>4, <1>5 DEF IsQueue, Stored
  <2> QED
    BY <2>1, <2>2 DEF IsQueue
<1> HIDE DEF q
<1>9. mutations'[user] = q /\ \A u \in Users : u # user => mutations'[u] = mutations[u]
  BY <1>1, <1>2
<1>10. PipelineIsOldest'
  <2>1. IsHead(mutations[user], pipeline)
    BY DEF OrderInv, PipelineIsOldest
  <2> DEFINE old == mutations[user]
  <2>2. /\ IsHead(old, pipeline) /\ DOMAIN q = DOMAIN old \cup {nextBatchId}
        /\ \A id \in DOMAIN old : id < nextBatchId /\ q[id] = old[id]
    BY <1>5, <2>1
  <2> HIDE DEF old
  <2>3. IsHead(q, pipeline)
    BY <2>2, HeadOfLonger
  <2>4. pipeline' = pipeline \o NextBatches(q, pipeline)
    BY <1>1 DEF FillWritePipeline
  <2>5. IsHead(q, pipeline') /\ IsFilled(q, pipeline')
    BY <1>2, <1>8, <2>3, <2>4, HeadFilled
  <2> QED
    BY <1>1, <1>9, <2>5 DEF PipelineIsOldest, IsHead, IsFilled
<1>11. QueuesInOrder'
  <2>1. ASSUME NEW u \in Users, NEW x \in DOMAIN mutations'[u],
               NEW y \in DOMAIN mutations'[u], x < y
        PROVE  mutations'[u][x] < mutations'[u][y]
    <3>1. CASE u # user
      BY <1>9, <2>1, <3>1 DEF OrderInv, QueuesInOrder
    <3>2. CASE u = user
      <4>1. x \in DOMAIN q /\ y \in DOMAIN q /\ mutations'[u] = q
        BY <1>9, <2>1, <3>2
      <4>2. CASE y = nextBatchId
        <5>1. x \in DOMAIN mutations[user] /\ q[x] = mutations[user][x]
          BY <1>3, <1>5, <2>1, <4>1, <4>2
        <5>2. mutations[user][x] \in DOMAIN owner
          BY <1>2, <5>1, StaysWithOwner DEF WrittenBy
        <5> QED
          BY <1>2, <1>5, <4>1, <4>2, <5>1, <5>2 DEF w
      <4>3. CASE y # nextBatchId
        <5>1. y \in DOMAIN mutations[user] /\ q[y] = mutations[user][y]
          BY <1>5, <4>1, <4>3
        <5>2. x # nextBatchId
          <6>1. y < nextBatchId /\ y \in Nat
            BY <1>2, <1>5, <5>1
          <6> QED
            BY <1>3, <2>1, <6>1
        <5>3. x \in DOMAIN mutations[user] /\ q[x] = mutations[user][x]
          BY <1>5, <4>1, <5>2
        <5> QED
          BY <1>2, <2>1, <4>1, <5>1, <5>3 DEF OrderInv, QueuesInOrder
      <4> QED
        BY <4>2, <4>3
    <3> QED
      BY <3>1, <3>2
  <2> QED
    BY <2>1 DEF QueuesInOrder
<1>12. ASSUME NEW v \in Nat PROVE Stays(v)' <=> Stays(v) \/ v = w
  <2>1. ASSUME NEW u \in Users, NEW x \in DOMAIN mutations'[u], mutations'[u][x] = v
        PROVE  Stays(v) \/ v = w
    <3>1. CASE u # user
      BY <1>9, <2>1, <3>1 DEF Stays
    <3>2. CASE u = user
      BY <1>5, <1>9, <2>1, <3>2 DEF Stays
    <3> QED
      BY <3>1, <3>2
  <2>2. ASSUME NEW u \in Users, NEW x \in DOMAIN mutations[u], mutations[u][x] = v
        PROVE  Stays(v)'
    <3>1. x \in DOMAIN mutations'[u] /\ mutations'[u][x] = v
      BY <1>5, <1>9, <2>2
    <3> QED
      BY <3>1 DEF Stays
  <2>3. \E u \in Users : \E x \in DOMAIN mutations'[u] : mutations'[u][x] = w
    <3>1. nextBatchId \in DOMAIN mutations'[user] /\ mutations'[user][nextBatchId] = w
      BY <1>5, <1>9
    <3> QED
      BY <1>2, <3>1
  <2> QED
    BY <2>1, <2>2, <2>3 DEF Stays
<1>13. /\ SettledWrites' = SettledWrites /\ w \notin SettledWrites
       /\ SettledWrites \subseteq DOMAIN owner
  <2>1. \A v \in DOMAIN owner' : v \in Nat /\ (v \in DOMAIN owner \/ v = w)
    BY <1>2, <1>4, <1>7 DEF w
  <2>2. \A v \in DOMAIN owner : v \in Nat /\ v \in DOMAIN owner' /\ v # w
    BY <1>2, <1>7 DEF w
  <2> QED
    BY <1>12, <2>1, <2>2 DEF SettledWrites
<1>14. AppliedWrites' = AppliedWrites /\ JudgedWrites' = JudgedWrites
  BY <1>1 DEF AppliedWrites, JudgedWrites
<1>15. \A v \in DOMAIN owner : v \in DOMAIN owner' /\ EarlierOf(v)' = EarlierOf(v)
  BY <1>2, <1>7 DEF EarlierOf, w
<1>16. JudgedInOrder' /\ SettledInOrder'
  <2>1. JudgedInOrder'
    BY <1>14, <1>15 DEF OrderInv, JudgedInOrder
  <2>2. SettledInOrder'
    BY <1>13, <1>14, <1>15 DEF OrderInv, SettledInOrder
  <2> QED
    BY <2>1, <2>2
<1>17. AnswersAreTrue'
  BY <1>1, <1>14 DEF OrderInv, AnswersAreTrue
<1>18. NewerWait'
  <2>1. \A v \in DOMAIN owner' : v = w \/ (v \in DOMAIN owner /\ owner'[v] = owner[v])
    BY <1>2, <1>7 DEF w
  <2> QED
    BY <1>1, <1>13, <2>1 DEF OrderInv, NewerWait
<1>19. WaitingAreUntold'
  <2>1. told[w] = <<>>
    BY <1>2, <1>4 DEF OrderInv, WaitingAreUntold, w
  <2>2. ASSUME NEW u \in Users, NEW x \in DOMAIN callbacks'[u]
        PROVE  told'[callbacks'[u][x]] = <<>>
    <3>1. CASE u # user
      <4>1. callbacks'[u] = callbacks[u]
        BY <1>1, <1>3, <3>1
      <4> QED
        BY <1>1, <2>2, <4>1 DEF OrderInv, WaitingAreUntold
    <3>2. CASE u = user
      <4>1. callbacks'[u] = c
        BY <1>1, <1>2, <1>3, <3>2
      <4> QED
        BY <1>1, <1>2, <1>6, <2>1, <2>2, <4>1 DEF OrderInv, WaitingAreUntold
    <3> QED
      BY <3>1, <3>2
  <2>3. ASSUME NEW v \in Writes, v > Len(owner') PROVE told'[v] = <<>>
    <3>1. v > Len(owner)
      BY <1>2, <1>7, <2>3, OrderTypes DEF w
    <3> QED
      BY <1>1, <3>1 DEF OrderInv, WaitingAreUntold
  <2> QED
    BY <2>2, <2>3 DEF WaitingAreUntold
<1>20. OpenIsOfUser'
  BY <1>1, <1>2, FillingDoesNotOpen DEF OrderInv, OpenIsOfUser
<1>21. IsStep
  <2>1. Promise!Make(user)
    BY <1>1, <1>13, <1>14 DEF Promise!Make
  <2> QED
    BY <1>2, <2>1 DEF IsStep, Promise!Next
<1> QED
  BY <1>10, <1>11, <1>16, <1>17, <1>18, <1>19, <1>20, <1>21 DEF OrderInv

\* The stream is closed while the queues stay as they are.
LEMMA CutStep ==
    ASSUME IInv, OrderInv, Disconnect, PipelineIsOldest', WaitingAreUntold',
           stream'.state # "Open", UNCHANGED <<mutations, refused, owner>>,
           \/ told' = told
           \/ \E w \in AppliedWrites :
                 told[w] = <<>> /\ told' = [told EXCEPT ![w] = <<"ok">>]
    PROVE  OrderInv' /\ IsStep
<1>1. /\ AnswersAreTrue' /\ AppliedWrites \subseteq AppliedWrites'
      /\ JudgedInOrder' /\ SettledInOrder' /\ NewerWait' /\ SettledWrites' = SettledWrites
  BY Cut
<1>2. QueuesInOrder' /\ OpenIsOfUser'
  BY DEF OrderInv, QueuesInOrder, OpenIsOfUser
<1>3. owner \in Seq(Users)
  BY OrderTypes
<1>4. told' = told => IsStep
  BY <1>1, <1>3, OutboxJudges
<1>5. ASSUME NEW w \in AppliedWrites, told[w] = <<>>, told' = [told EXCEPT ![w] = <<"ok">>]
      PROVE  IsStep
  <2>1. Promise!Verdicts
    BY <1>1, <1>3, VerdictsGiven
  <2>2. Promise!TellOnly(w)
    BY <1>1, <1>5, <2>1 DEF Promise!TellOnly, Promise!Tell, Promise!MayTell
  <2>3. w \in DOMAIN owner
    BY <1>5 DEF OrderInv, JudgedInOrder, JudgedWrites
  <2> QED
    BY <2>2, <2>3 DEF IsStep, Promise!Next
<1>6. IsStep
  BY <1>4, <1>5
<1> QED
  BY <1>1, <1>2, <1>6 DEF OrderInv

LEMMA RetriedOrdered ==
    ASSUME IInv, OrderInv,
           \/ OnStreamFinish /\ Last(answers).verdict # "refused"
           \/ ConnectionLost \/ IdleTimeout
    PROVE  OrderInv' /\ IsStep
<1>1. PICK state \in {"Initial", "Error"} :
         /\ Disconnect /\ stream' = StartIfNeeded(Close(stream, state), pipeline)
         /\ UNCHANGED <<mutations, callbacks, pipeline, told, user, refused, owner>>
  <2>1. CASE OnStreamFinish /\ Last(answers).verdict # "refused"
    BY <2>1 DEF OnStreamFinish, CloseAndRetry
  <2>2. CASE ConnectionLost
    BY <2>2 DEF ConnectionLost, CloseAndRetry
  <2>3. CASE IdleTimeout
    BY <2>3 DEF IdleTimeout
  <2> QED
    BY <2>1, <2>2, <2>3
<1>2. PipelineIsOldest' /\ WaitingAreUntold'
  <2>1. PipelineIsOldest'
    BY <1>1 DEF OrderInv, PipelineIsOldest, IsHead, IsFilled
  <2>2. WaitingAreUntold'
    BY <1>1 DEF OrderInv, WaitingAreUntold
  <2> QED
    BY <2>1, <2>2
<1>3. stream'.state # "Open"
  <2> DEFINE c == Close(stream, state)
  <2>1. c \in Stream /\ c.state # "Open"
    BY OrderTypes, ClosedIsNotOpen
  <2>2. stream' = StartIfNeeded(c, pipeline)
    BY <1>1
  <2> HIDE DEF c
  <2> QED
    BY <2>1, <2>2, StartDoesNotOpen
<1> QED
  BY <1>1, <1>2, <1>3, CutStep

\* A pipeline filled from nothing is the head of the queue.
LEMMA FilledFromNothing ==
    ASSUME NEW q, IsQueue(q), NEW s \in Stream, s.state # "Open", NEW sent,
           FillWritePipeline(q, <<>>, s, sent)
    PROVE  IsHead(q, pipeline') /\ IsFilled(q, pipeline') /\ stream'.state # "Open"
<1>1. <<>> \in Seq(Batch) /\ Len(<<>>) = 0 /\ DOMAIN <<>> = {} /\ 0 <= MaxPendingWrites
  BY WritesAssumption
<1>2. IsHead(q, <<>>)
  BY <1>1 DEF IsHead
<1>3. pipeline' = <<>> \o NextBatches(q, <<>>)
  BY DEF FillWritePipeline
<1>4. IsHead(q, pipeline') /\ IsFilled(q, pipeline')
  BY <1>1, <1>2, <1>3, HeadFilled
<1>5. stream'.state # "Open"
  BY FillingDoesNotOpen
<1> QED
  BY <1>4, <1>5

LEMMA HandleCredentialChangeOrdered ==
    ASSUME IInv, OrderInv, HandleCredentialChange
    PROVE  OrderInv' /\ IsStep
<1> DEFINE q == mutations[user']
           c == Close(stream, "Initial")
<1>1. /\ Disconnect /\ FillWritePipeline(q, <<>>, c, <<>>)
      /\ UNCHANGED <<mutations, callbacks, refused, owner, told>>
      /\ Run("credential") /\ user' = Head(tasks).user
  BY DEF HandleCredentialChange
<1>2. user' \in Users
  <2>1. Head(tasks) = tasks[1] /\ 1 \in DOMAIN tasks /\ tasks[1].op = "credential"
    BY <1>1, TaskTaken
  <2> QED
    BY <1>1, <2>1, TasksType DEF IsCredential
<1>3. IsQueue(q) /\ c \in Stream /\ c.state # "Open"
  BY <1>2, OrderTypes, ClosedIsNotOpen
<1> HIDE DEF c
<1>4. IsHead(q, pipeline') /\ IsFilled(q, pipeline') /\ stream'.state # "Open"
  <2> HIDE DEF q
  <2> QED
    BY <1>1, <1>3, FilledFromNothing
<1>5. PipelineIsOldest'
  BY <1>1, <1>4 DEF PipelineIsOldest, IsHead, IsFilled
<1>6. WaitingAreUntold'
  BY <1>1 DEF OrderInv, WaitingAreUntold
<1> QED
  BY <1>1, <1>4, <1>5, <1>6, CutStep

\* A fresh process loads the head of Auth's user.
LEMMA Restarted ==
    ASSUME IInv, NEW stored, Restart(stored), IsQueue(stored[authUser])
    PROVE  /\ Disconnect /\ mutations' = stored /\ refused' = refused /\ owner' = owner
           /\ PipelineIsOldest' /\ stream'.state # "Open"
           /\ \A u \in Users : DOMAIN callbacks'[u] = {}
<1> DEFINE q == stored[authUser]
           s == [state |-> "Initial", handshakeComplete |-> FALSE, idleTimer |-> FALSE,
                 closeCount |-> stream.closeCount, requests |-> {}]
<1>1. /\ Disconnect /\ mutations' = stored /\ user' = authUser
      /\ refused' = refused /\ owner' = owner
      /\ callbacks' = [u \in Users |-> NoBatches]
      /\ FillWritePipeline(q, <<>>, s, <<>>)
  BY DEF Restart
<1>2. s \in Stream /\ s.state = "Initial"
  BY OrderTypes DEF Stream
<1> HIDE DEF s
<1>3. IsHead(q, pipeline') /\ IsFilled(q, pipeline') /\ stream'.state # "Open"
  <2>1. IsQueue(q)
    OBVIOUS
  <2> HIDE DEF q
  <2> QED
    BY <1>1, <1>2, <2>1, FilledFromNothing
<1>4. PipelineIsOldest'
  BY <1>1, <1>3 DEF PipelineIsOldest, IsHead, IsFilled
<1>5. \A u \in Users : DOMAIN callbacks'[u] = {}
  BY <1>1 DEF NoBatches
<1> QED
  BY <1>1, <1>3, <1>4, <1>5

\* What an answer says of the front.
LEMMA FrontJudged ==
    ASSUME IInv, OrderInv, answers # <<>>,
           \/ Head(answers).verdict = "applied"
           \/ Last(answers).verdict = "refused"
    PROVE  LET w == Head(pipeline).write
           IN /\ pipeline # <<>> /\ w \in JudgedWrites
              /\ w \in refused \/ (applied[user] # <<>> /\ w <= Last(applied[user]))
              /\ Head(answers).verdict = "applied" => w \in AppliedWrites
<1>1. /\ 1 \in DOMAIN answers /\ Head(answers) = answers[1] /\ Last(answers) = answers[Len(answers)]
      /\ 1 < Len(answers) \/ Len(answers) = 1
  BY OrderTypes, EmptySeq DEF Last
<1>2. 1 \in DOMAIN pipeline /\ pipeline[1].write = answers[1].write
  BY <1>1, OnTheWay
<1>3. pipeline # <<>> /\ Head(pipeline) = pipeline[1]
  BY <1>2, OrderTypes, EmptySeq
<1>4. \/ answers[1].verdict = "applied"
      \/ answers[1].verdict = "refused"
  BY <1>1 DEF OrderInv, AnswersAreTrue
<1>5. /\ answers[1].verdict = "refused" => answers[1].write \in refused
      /\ answers[1].verdict = "applied" =>
            /\ answers[1].write \in AppliedWrites
            /\ applied[user] # <<>> /\ answers[1].write <= Last(applied[user])
  BY <1>1 DEF OrderInv, AnswersAreTrue
<1> QED
  BY <1>1, <1>2, <1>3, <1>4, <1>5 DEF JudgedWrites

\* The front leaves the queue once it is judged.
LEMMA SettlingStep ==
    ASSUME IInv, OrderInv, pipeline # <<>>, UNCHANGED <<applied, refused, owner>>,
           mutations' = [mutations EXCEPT ![user] =
                             RemoveMutationBatch(mutations[user], Head(pipeline).id)],
           NEW w, w = Head(pipeline).write, w \in JudgedWrites,
           w \in refused \/ (applied[user] # <<>> /\ w <= Last(applied[user])),
           \/ told' = told
           \/ \E outcome \in {"ok", "failed"} :
                 /\ told[w] = <<>> /\ told' = [told EXCEPT ![w] = <<outcome>>]
                 /\ outcome = "ok" => w \in AppliedWrites
    PROVE  QueuesInOrder' /\ JudgedInOrder' /\ SettledInOrder' /\ NewerWait' /\ IsStep
<1>1. QueuesInOrder' /\ JudgedInOrder' /\ SettledInOrder' /\ NewerWait'
  BY FrontSettled
<1>2. /\ w \in DOMAIN owner /\ w \notin SettledWrites /\ EarlierOf(w) \subseteq SettledWrites
      /\ SettledWrites' = SettledWrites \cup {w}
  <2> DEFINE id == Head(pipeline).id
  <2>1. /\ id = Head(pipeline).id
        /\ mutations' = [mutations EXCEPT ![user] = RemoveMutationBatch(mutations[user], id)]
    OBVIOUS
  <2> HIDE DEF id
  <2> QED
    BY <2>1, FrontLeaves
<1>3. owner \in Seq(Users) /\ w \in JudgedWrites \ SettledWrites
  BY <1>2, OrderTypes
<1>4. IsStep
  BY <1>2, <1>3, OutboxSettles
<1> QED
  BY <1>1, <1>4

\* The pipeline is the head again when its front has left and it is filled.
LEMMA FilledAgain ==
    ASSUME IInv, OrderInv, pipeline # <<>>, NEW id, id = Head(pipeline).id,
           NEW q, q = RemoveMutationBatch(mutations[user], id), NEW s, NEW sent,
           FillWritePipeline(q, Tail(pipeline), s, sent),
           mutations' = [mutations EXCEPT ![user] = q], user' = user
    PROVE  PipelineIsOldest'
<1>1. /\ user \in Users /\ DOMAIN mutations = Users /\ IsQueue(mutations[user])
      /\ pipeline \in Seq(Batch) /\ Len(pipeline) \in Nat /\ Len(pipeline) <= MaxPendingWrites
      /\ IsHead(mutations[user], pipeline)
  BY OrderTypes DEF OrderInv, PipelineIsOldest
<1> DEFINE p == Tail(pipeline)
           old == mutations[user]
<1>2. p \in Seq(Batch) /\ Len(p) <= MaxPendingWrites
  <2>1. Tail(pipeline) \in Seq(Batch) /\ Len(Tail(pipeline)) = Len(pipeline) - 1
    BY <1>1, HeadTailProperties
  <2> QED
    BY <1>1, <2>1, WritesAssumption
<1>3. IsQueue(q)
  BY <1>1, BatchRemoved
<1>4. IsHead(q, p)
  <2>1. IsQueue(old) /\ IsHead(old, pipeline)
    BY <1>1
  <2>2. q = RemoveMutationBatch(old, Head(pipeline).id)
    OBVIOUS
  <2> HIDE DEF old
  <2> QED
    BY <1>1, <2>1, <2>2, HeadOfShorter
<1>5. pipeline' = p \o NextBatches(q, p)
  BY DEF FillWritePipeline
<1> HIDE DEF p
<1>6. IsHead(q, pipeline') /\ IsFilled(q, pipeline')
  BY <1>2, <1>3, <1>4, <1>5, HeadFilled
<1>7. mutations'[user'] = q
  BY <1>1
<1> QED
  BY <1>6, <1>7 DEF PipelineIsOldest, IsHead, IsFilled

LEMMA OnMutationResultOrdered ==
    ASSUME IInv, OrderInv, OnMutationResult
    PROVE  OrderInv' /\ IsStep
<1> DEFINE w == Head(pipeline).write
           id == Head(pipeline).id
           q == RemoveMutationBatch(mutations[user], id)
<1>1. /\ answers # <<>> /\ Head(answers).verdict = "applied" /\ answers' = Tail(answers)
      /\ NotifyUser(id, "ok") /\ mutations' = [mutations EXCEPT ![user] = q]
      /\ FillWritePipeline(q, Tail(pipeline), stream, wire)
      /\ user' = user /\ streamUser' = streamUser
      /\ applied' = applied /\ refused' = refused /\ owner' = owner
  BY DEF OnMutationResult
<1>2. /\ pipeline # <<>> /\ w \in JudgedWrites /\ w \in AppliedWrites
      /\ w \in refused \/ (applied[user] # <<>> /\ w <= Last(applied[user]))
  BY <1>1, FrontJudged
<1>3. PipelineIsOldest'
  <2>1. id = Head(pipeline).id /\ q = RemoveMutationBatch(mutations[user], id)
    OBVIOUS
  <2> HIDE DEF id, q
  <2> QED
    BY <1>1, <1>2, <2>1, FilledAgain
<1>4. WaitingAreUntold' /\ (told' = told \/ (told[w] = <<>> /\ told' = [told EXCEPT ![w] = <<"ok">>]))
  BY <1>1, <1>2, Notified
<1>5. QueuesInOrder' /\ JudgedInOrder' /\ SettledInOrder' /\ NewerWait' /\ IsStep
  <2>1. \/ told' = told
        \/ \E outcome \in {"ok", "failed"} :
              /\ told[w] = <<>> /\ told' = [told EXCEPT ![w] = <<outcome>>]
              /\ outcome = "ok" => w \in AppliedWrites
    BY <1>2, <1>4
  <2>2. w = Head(pipeline).write
    OBVIOUS
  <2>3. mutations' = [mutations EXCEPT ![user] =
                          RemoveMutationBatch(mutations[user], Head(pipeline).id)]
    BY <1>1
  <2> HIDE DEF w, id, q
  <2> QED
    BY <1>1, <1>2, <2>1, <2>2, <2>3, SettlingStep
<1>6. AnswersAreTrue'
  <2>1. /\ Len(answers) \in Nat /\ Len(answers') = Len(answers) - 1
        /\ DOMAIN answers' = 1..(Len(answers) - 1)
        /\ \A i \in 1..(Len(answers) - 1) :
              answers'[i] = answers[i + 1] /\ i + 1 \in DOMAIN answers
    BY <1>1, OrderTypes, HeadTailProperties, LenProperties
  <2>2. AppliedWrites' = AppliedWrites
    BY <1>1 DEF AppliedWrites
  <2>3. ASSUME NEW i \in DOMAIN answers'
        PROVE  /\ answers'[i] = answers[i + 1] /\ i + 1 \in DOMAIN answers
               /\ i < Len(answers') => i + 1 < Len(answers)
    BY <2>1
  <2> QED
    BY <1>1, <2>2, <2>3 DEF OrderInv, AnswersAreTrue
<1>7. OpenIsOfUser'
  BY <1>1, OrderTypes, FillingDoesNotOpen DEF OrderInv, OpenIsOfUser
<1> QED
  BY <1>3, <1>4, <1>5, <1>6, <1>7 DEF OrderInv

LEMMA RejectedOrdered ==
    ASSUME IInv, OrderInv, OnStreamFinish, Last(answers).verdict = "refused"
    PROVE  OrderInv' /\ IsStep
<1> DEFINE w == Head(pipeline).write
           id == Head(pipeline).id
           q == RemoveMutationBatch(mutations[user], id)
           c == Close(stream, "Initial")
<1>1. /\ Ended /\ answers # <<>> /\ Disconnect /\ NotifyUser(id, "failed")
      /\ mutations' = [mutations EXCEPT ![user] = q]
      /\ FillWritePipeline(q, Tail(pipeline), c, <<>>)
      /\ user' = user /\ refused' = refused /\ owner' = owner
  BY DEF OnStreamFinish, StreamFinishes, Ended, CloseAndReject
<1>2. /\ pipeline # <<>> /\ w \in JudgedWrites
      /\ w \in refused \/ (applied[user] # <<>> /\ w <= Last(applied[user]))
  BY <1>1, FrontJudged
<1>3. AnswersAreTrue' /\ applied' = applied
  BY <1>1, Cut
<1>4. PipelineIsOldest'
  <2>1. id = Head(pipeline).id /\ q = RemoveMutationBatch(mutations[user], id)
    OBVIOUS
  <2> HIDE DEF id, q, c
  <2> QED
    BY <1>1, <1>2, <2>1, FilledAgain
<1>5. WaitingAreUntold' /\ (told' = told \/ (told[w] = <<>> /\ told' = [told EXCEPT ![w] = <<"failed">>]))
  BY <1>1, <1>2, Notified
<1>6. QueuesInOrder' /\ JudgedInOrder' /\ SettledInOrder' /\ NewerWait' /\ IsStep
  <2>1. \/ told' = told
        \/ \E outcome \in {"ok", "failed"} :
              /\ told[w] = <<>> /\ told' = [told EXCEPT ![w] = <<outcome>>]
              /\ outcome = "ok" => w \in AppliedWrites
    BY <1>5
  <2>2. w = Head(pipeline).write
    OBVIOUS
  <2>3. mutations' = [mutations EXCEPT ![user] =
                          RemoveMutationBatch(mutations[user], Head(pipeline).id)]
    BY <1>1
  <2> HIDE DEF w, id, q
  <2> QED
    BY <1>1, <1>2, <1>3, <2>1, <2>2, <2>3, SettlingStep
<1>7. c \in Stream /\ c.state # "Open"
  BY OrderTypes, ClosedIsNotOpen
<1>8. OpenIsOfUser'
  <2> HIDE DEF c, q
  <2> QED
    BY <1>1, <1>7, FillingDoesNotOpen DEF OpenIsOfUser
<1> QED
  BY <1>3, <1>4, <1>5, <1>6, <1>8 DEF OrderInv

LEMMA KillsOrdered ==
    ASSUME IInv, OrderInv, Kill \/ KillInSuccess \/ KillInRejection
    PROVE  OrderInv' /\ IsStep
<1>1. /\ DOMAIN mutations = Users /\ user \in Users
      /\ \A u \in Users : IsQueue(mutations[u])
      /\ Len(owner) \in Nat /\ DOMAIN owner = 1..Len(owner)
  BY OrderTypes
<1>2. authUser \in Users /\ DOMAIN told = Writes
  BY DEF IInv, TypeOK
<1>3. (\A v \in Writes : v > Len(owner) => told'[v] = <<>>)
         /\ owner' = owner /\ (\A u \in Users : DOMAIN callbacks'[u] = {})
      => WaitingAreUntold'
  BY DEF WaitingAreUntold
<1>4. \A v \in Writes : v > Len(owner) => told[v] = <<>>
  BY DEF OrderInv, WaitingAreUntold
<1>5. CASE Kill
  <2>1. Restart(mutations) /\ told' = told
    BY <1>5 DEF Kill
  <2>2. /\ Disconnect /\ mutations' = mutations /\ refused' = refused /\ owner' = owner
        /\ PipelineIsOldest' /\ stream'.state # "Open" /\ \A u \in Users : DOMAIN callbacks'[u] = {}
    BY <1>1, <1>2, <2>1, Restarted
  <2>3. WaitingAreUntold'
    BY <1>3, <1>4, <2>1, <2>2
  <2> QED
    BY <2>1, <2>2, <2>3, CutStep
<1>6. CASE KillInSuccess
  <2> DEFINE w == Head(pipeline).write
             id == Head(pipeline).id
  <2>1. /\ answers # <<>> /\ Head(answers).verdict = "applied" /\ Restart(mutations)
        /\ id \in DOMAIN callbacks[user]
        /\ told' = [told EXCEPT ![callbacks[user][id]] = Append(told[callbacks[user][id]], "ok")]
    BY <1>6 DEF KillInSuccess
  <2>2. /\ Disconnect /\ mutations' = mutations /\ refused' = refused /\ owner' = owner
        /\ PipelineIsOldest' /\ stream'.state # "Open" /\ \A u \in Users : DOMAIN callbacks'[u] = {}
    BY <1>1, <1>2, <2>1, Restarted
  <2>3. pipeline # <<>> /\ w \in AppliedWrites
    BY <2>1, FrontJudged
  <2>4. id = Head(pipeline).id /\ w = Head(pipeline).write
    OBVIOUS
  <2> HIDE DEF w, id
  <2>5. callbacks[user][id] = w /\ w \in DOMAIN owner /\ told[w] = <<>>
    <3>1. user \in Users /\ id \in DOMAIN callbacks[user] /\ pipeline # <<>>
      BY <1>1, <2>1, <2>3
    <3>2. callbacks[user][id] = w /\ callbacks[user][id] \in DOMAIN owner
      BY <2>4, <3>1, WaitsForFront
    <3>3. told[callbacks[user][id]] = <<>>
      BY <3>1 DEF OrderInv, WaitingAreUntold
    <3> QED
      BY <3>2, <3>3
  <2>6. told' = [told EXCEPT ![w] = <<"ok">>]
    <3>1. Append(<<>>, "ok") = <<"ok">>
      BY AppendProperties, EmptySeq
    <3> QED
      BY <2>1, <2>5, <3>1
  <2>7. WaitingAreUntold'
    <3>1. \A v \in Writes : v > Len(owner) => v # w
      BY <1>1, <2>5
    <3>2. \A v \in Writes : v > Len(owner) => told'[v] = <<>>
      BY <1>2, <1>4, <2>6, <3>1
    <3> QED
      BY <1>3, <2>2, <3>2
  <2> QED
    BY <2>2, <2>3, <2>5, <2>6, <2>7, CutStep
<1>7. CASE KillInRejection
  <2> DEFINE w == Head(pipeline).write
             id == Head(pipeline).id
             q == RemoveMutationBatch(mutations[user], id)
             stored == [mutations EXCEPT ![user] = q]
  <2>1. /\ Ended /\ answers # <<>> /\ Last(answers).verdict = "refused"
        /\ Restart(stored) /\ told' = told
    BY <1>7 DEF KillInRejection, StreamFinishes, Ended
  <2>2. IsQueue(stored[authUser])
    <3>1. IsQueue(q)
      BY <1>1, BatchRemoved
    <3> HIDE DEF q
    <3> QED
      BY <1>1, <1>2, <3>1
  <2>3. stored = [mutations EXCEPT ![user] = RemoveMutationBatch(mutations[user], Head(pipeline).id)]
    OBVIOUS
  <2> HIDE DEF stored
  <2>4. /\ Disconnect /\ mutations' = stored /\ refused' = refused /\ owner' = owner
        /\ PipelineIsOldest' /\ stream'.state # "Open" /\ \A u \in Users : DOMAIN callbacks'[u] = {}
    BY <2>1, <2>2, Restarted
  <2>5. /\ pipeline # <<>> /\ w \in JudgedWrites
        /\ w \in refused \/ (applied[user] # <<>> /\ w <= Last(applied[user]))
    BY <2>1, FrontJudged
  <2>6. AnswersAreTrue' /\ applied' = applied
    BY <2>1, <2>4, Cut
  <2>7. QueuesInOrder' /\ JudgedInOrder' /\ SettledInOrder' /\ NewerWait' /\ IsStep
    <3>1. w = Head(pipeline).write
      OBVIOUS
    <3> HIDE DEF w, id, q
    <3> QED
      BY <2>1, <2>3, <2>4, <2>5, <2>6, <3>1, SettlingStep
  <2>8. WaitingAreUntold'
    BY <1>3, <1>4, <2>1, <2>4
  <2>9. OpenIsOfUser'
    BY <2>4 DEF OpenIsOfUser
  <2> QED
    BY <2>4, <2>6, <2>7, <2>8, <2>9 DEF OrderInv
<1> QED
  BY <1>5, <1>6, <1>7

LEMMA AppendFirst ==
    ASSUME NEW S, NEW a \in Seq(S), NEW b \in Seq(S), b # <<>>
    PROVE  Append(a, Head(b)) = a \o SubSeq(b, 1, 1)
<1> DEFINE one == SubSeq(b, 1, 1)
           h == Head(b)
<1>1. h = b[1] /\ h \in S
  BY HeadTailProperties
<1>2. \A i \in 1..1 : b[i] \in S
  BY <1>1
<1>3. one \in Seq(S) /\ Len(one) = 1 /\ one[1] = h
  <2>1. /\ one \in Seq(S) /\ Len(one) = IF 1 <= 1 THEN 1 - 1 + 1 ELSE 0
        /\ \A i \in 1..(1 - 1 + 1) : one[i] = b[1 + i - 1]
    BY <1>2, SubSeqProperties
  <2> HIDE DEF one, h
  <2> QED
    BY <1>1, <2>1
<1> HIDE DEF one, h
<1>4. /\ a \o one \in Seq(S) /\ Len(a \o one) = Len(a) + 1 /\ Len(a) \in Nat
      /\ \A i \in 1..(Len(a) + 1) : (a \o one)[i] = IF i <= Len(a) THEN a[i] ELSE one[i - Len(a)]
  <2>1. /\ a \o one \in Seq(S) /\ Len(a \o one) = Len(a) + Len(one)
        /\ \A i \in 1..(Len(a) + Len(one)) :
              (a \o one)[i] = IF i <= Len(a) THEN a[i] ELSE one[i - Len(a)]
    BY <1>3, ConcatProperties
  <2> QED
    BY <1>3, <2>1, LenProperties
<1>5. /\ Append(a, h) \in Seq(S) /\ Len(Append(a, h)) = Len(a) + 1
      /\ \A i \in 1..Len(a) : Append(a, h)[i] = a[i]
      /\ Append(a, h)[Len(a) + 1] = h
  BY <1>1, AppendProperties
<1>6. ASSUME NEW i \in 1..(Len(a) + 1) PROVE Append(a, h)[i] = (a \o one)[i]
  <2>1. CASE i <= Len(a)
    BY <1>4, <1>5, <2>1
  <2>2. CASE ~(i <= Len(a))
    <3>1. i = Len(a) + 1 /\ i - Len(a) = 1
      BY <1>4, <2>2
    <3> QED
      BY <1>3, <1>4, <1>5, <2>2, <3>1
  <2> QED
    BY <2>1, <2>2
<1>7. Append(a, h) = a \o one
  <2> DEFINE s == Append(a, h)
             t == a \o one
  <2>1. s \in Seq(S) /\ t \in Seq(S) /\ Len(s) = Len(t) /\ \A i \in 1..Len(s) : s[i] = t[i]
    BY <1>4, <1>5, <1>6
  <2> HIDE DEF s, t
  <2>2. s = t
    BY <2>1, SeqEqual
  <2> QED
    BY <2>2 DEF s, t
<1> QED
  BY <1>7 DEF one, h

\* The server takes the first write of the wire, and its answer joins the others.
LEMMA TakeWriteOrdered ==
    ASSUME IInv, OrderInv, NEW verdict \in {"applied", "refused", "aborted"}, TakeWrite(verdict),
           refused \subseteq refused', AppliedWrites \subseteq AppliedWrites',
           JudgedInOrder', SettledInOrder', NewerWait',
           verdict = "refused" => Head(wire) \in refused',
           verdict # "applied" => applied' = applied,
           verdict = "applied" =>
              /\ Head(wire) \in AppliedWrites'
              /\ applied'[user] # <<>> /\ Last(applied'[user]) = Head(wire)
    PROVE  OrderInv' /\ IsStep
<1> DEFINE a == [write |-> Head(wire), verdict |-> verdict]
<1>1. /\ wire # <<>> /\ ~Ended /\ answers' = Append(answers, a)
      /\ mutations' = mutations /\ user' = user /\ callbacks' = callbacks
      /\ pipeline' = pipeline /\ stream' = stream /\ streamUser' = streamUser
      /\ owner' = owner /\ told' = told
  BY DEF TakeWrite, client
<1>2. /\ answers \in Seq(Answer) /\ Len(answers) \in Nat /\ DOMAIN answers = 1..Len(answers)
      /\ 1 \in DOMAIN wire /\ Head(wire) = wire[1] /\ Writes \subseteq Nat
  BY <1>1, OrderTypes, EmptySeq
<1>3. wire[1] \in Writes /\ \A j \in DOMAIN answers : answers[j].write < wire[1]
  BY <1>2, WireInOrder
<1>4. a \in Answer /\ a.write = Head(wire) /\ a.verdict = verdict
  BY <1>2, <1>3 DEF Answer
<1> HIDE DEF a
<1>5. /\ Len(answers') = Len(answers) + 1 /\ DOMAIN answers' = 1..(Len(answers) + 1)
      /\ \A i \in DOMAIN answers : answers'[i] = answers[i]
      /\ answers'[Len(answers) + 1] = a
  BY <1>1, <1>2, <1>4, AppendProperties, LenProperties
\* The answers that wait are of writes applied, for the stream has not ended.
<1>6. ASSUME NEW i \in DOMAIN answers
      PROVE  /\ answers[i].verdict = "applied" /\ answers[i].write \in AppliedWrites
             /\ applied[user] # <<>> /\ answers[i].write <= Last(applied[user])
             /\ answers[i].write < Head(wire) /\ answers[i].write \in Nat /\ Head(wire) \in Nat
  <2>1. answers # <<>> /\ Last(answers) = answers[Len(answers)]
    BY <1>2 DEF Last
  <2>2. i < Len(answers) \/ i = Len(answers)
    BY <1>2
  <2>3. answers[i].verdict = "applied"
    BY <1>1, <2>1, <2>2 DEF Ended, OrderInv, AnswersAreTrue
  <2>4. answers[i].write \in Writes
    <3>1. answers[i] \in Answer
      BY <1>2, ElementOfSeq
    <3> QED
      BY <3>1 DEF Answer
  <2> QED
    BY <1>2, <1>3, <2>3, <2>4 DEF OrderInv, AnswersAreTrue
<1>7. AnswersAreTrue'
  <2>1. ASSUME NEW i \in DOMAIN answers', i # Len(answers) + 1
        PROVE  /\ answers'[i].verdict = "applied" /\ answers'[i].write \in AppliedWrites'
               /\ applied'[user] # <<>> /\ answers'[i].write <= Last(applied'[user])
    <3>1. i \in DOMAIN answers
      BY <1>2, <1>5, <2>1
    <3>2. CASE verdict = "applied"
      <4>1. answers[i].write <= Last(applied'[user])
        BY <1>6, <3>1, <3>2
      <4> QED
        BY <1>5, <1>6, <3>1, <3>2, <4>1
    <3>3. CASE verdict # "applied"
      BY <1>5, <1>6, <3>1, <3>3
    <3> QED
      BY <3>2, <3>3
  <2>2. Head(wire) \in Nat
    BY <1>2, <1>3
  <2>3. verdict = "applied" => Head(wire) <= Last(applied'[user])
    BY <2>2
  <2>4. ASSUME NEW i \in DOMAIN answers'
        PROVE  /\ i < Len(answers') => answers'[i].verdict = "applied"
               /\ answers'[i].verdict = "refused" => answers'[i].write \in refused'
               /\ answers'[i].verdict = "applied" =>
                     /\ answers'[i].write \in AppliedWrites'
                     /\ applied'[user] # <<>> /\ answers'[i].write <= Last(applied'[user])
    <3>1. CASE i = Len(answers) + 1
      BY <1>2, <1>4, <1>5, <2>3, <3>1
    <3>2. CASE i # Len(answers) + 1
      BY <2>1, <3>2
    <3> QED
      BY <3>1, <3>2
  <2> QED
    BY <1>1, <2>4 DEF AnswersAreTrue
<1>8. PipelineIsOldest' /\ QueuesInOrder' /\ WaitingAreUntold' /\ OpenIsOfUser'
  <2>1. PipelineIsOldest' /\ QueuesInOrder'
    BY <1>1 DEF OrderInv, PipelineIsOldest, QueuesInOrder, IsHead, IsFilled
  <2>2. WaitingAreUntold' /\ OpenIsOfUser'
    BY <1>1 DEF OrderInv, WaitingAreUntold, OpenIsOfUser
  <2> QED
    BY <2>1, <2>2
<1>9. SettledWrites' = SettledWrites
  BY <1>1 DEF SettledWrites, Stays
<1>10. IsStep
  BY <1>1, <1>9, OrderTypes, OutboxJudges
<1> QED
  BY <1>7, <1>8, <1>10 DEF OrderInv

LEMMA ServerOrdered ==
    ASSUME IInv, OrderInv, Server \/ ServerAborts
    PROVE  OrderInv' /\ IsStep
<1>1. /\ wire \in Seq(Writes) /\ Len(wire) \in Nat /\ DOMAIN wire = 1..Len(wire)
      /\ applied \in [Users -> Seq(Writes)]
  BY OrderTypes
<1>2. ASSUME wire # <<>>
      PROVE  /\ 1 \in 0..Len(wire) /\ Head(wire) = wire[1] /\ {wire[i] : i \in 1..1} = {Head(wire)}
             /\ streamUser = user /\ user \in Users
  <2>1. 1 \in 0..Len(wire) /\ Head(wire) = wire[1]
    BY <1>1, <1>2, EmptySeq
  <2>2. {wire[i] : i \in 1..1} = {wire[1]}
    OBVIOUS
  <2>3. streamUser = user /\ user \in Users
    BY <1>2, OnTheWay, OrderTypes DEF CanSend, OrderInv, OpenIsOfUser
  <2> QED
    BY <2>1, <2>2, <2>3
<1>3. CASE ServerApplies
  <2>1. /\ TakeWrite("applied") /\ wire # <<>> /\ ~Ended
        /\ applied' = [applied EXCEPT ![streamUser] = Append(applied[streamUser], Head(wire))]
        /\ refused' = refused /\ mutations' = mutations /\ owner' = owner
    BY <1>3 DEF ServerApplies, TakeWrite
  <2>2. \A u \in Users : Append(applied[u], Head(wire)) = applied[u] \o SubSeq(wire, 1, 1)
    BY <1>1, <2>1, AppendFirst
  <2>3. applied' = [u \in Users |->
                       IF u = streamUser THEN applied[u] \o SubSeq(wire, 1, 1) ELSE applied[u]]
    BY <1>1, <2>1, <2>2
  <2>4. /\ AppliedWrites' = AppliedWrites \cup {wire[i] : i \in 1..1}
        /\ \A u \in Users : \/ applied'[u] = applied[u]
                            \/ /\ u = user /\ 1 > 0
                               /\ applied'[u] # <<>> /\ Last(applied'[u]) = wire[1]
    BY <1>2, <2>1, <2>3, Taken
  <2>5. JudgedWrites' = JudgedWrites \cup {wire[i] : i \in 1..1}
    BY <2>1, <2>4 DEF JudgedWrites
  <2>6. JudgedInOrder' /\ SettledInOrder' /\ NewerWait'
    BY <1>2, <2>1, <2>4, <2>5, TakenInOrder
  <2>7. applied'[user] # <<>> /\ Last(applied'[user]) = Head(wire)
    <3> DEFINE before == applied[user]
               h == Head(wire)
    <3>1. before \in Seq(Writes) /\ h \in Writes
      BY <1>1, <1>2, <2>1, HeadTailProperties
    <3>2. applied'[user] = Append(before, h)
      BY <1>1, <1>2, <2>1
    <3> HIDE DEF before, h
    <3>3. /\ Append(before, h) \in Seq(Writes) /\ Len(Append(before, h)) = Len(before) + 1
          /\ Append(before, h)[Len(before) + 1] = h /\ Len(before) \in Nat
      BY <3>1, AppendProperties, LenProperties
    <3> DEFINE after == Append(before, h)
    <3> HIDE DEF after
    <3>4. after # <<>> /\ Last(after) = h
      BY <3>3, EmptySeq DEF after, Last
    <3> QED
      BY <3>2, <3>4 DEF after, h
  <2>8. Head(wire) \in AppliedWrites' /\ AppliedWrites \subseteq AppliedWrites'
    BY <1>2, <2>1, <2>4
  <2> QED
    BY <2>1, <2>6, <2>7, <2>8, TakeWriteOrdered
<1>4. CASE ServerRefuses
  <2>1. /\ TakeWrite("refused") /\ wire # <<>> /\ ~Ended /\ applied' = applied
        /\ refused' = refused \cup {Head(wire)} /\ mutations' = mutations /\ owner' = owner
    BY <1>4 DEF ServerRefuses, TakeWrite
  <2>2. AppliedWrites' = AppliedWrites
    BY <2>1 DEF AppliedWrites
  <2>3. JudgedWrites' = JudgedWrites \cup {wire[i] : i \in 1..1}
    BY <1>2, <2>1, <2>2 DEF JudgedWrites
  <2>4. refused \subseteq refused' /\ \A u \in Users : applied'[u] = applied[u]
    BY <2>1
  <2>5. JudgedInOrder' /\ SettledInOrder' /\ NewerWait'
    BY <1>2, <2>1, <2>3, <2>4, TakenInOrder
  <2> QED
    BY <2>1, <2>2, <2>4, <2>5, TakeWriteOrdered
<1>5. CASE ServerAborts
  <2>1. /\ TakeWrite("aborted") /\ applied' = applied /\ refused' = refused
        /\ mutations' = mutations /\ owner' = owner
    BY <1>5 DEF ServerAborts, TakeWrite
  <2>2. /\ AppliedWrites' = AppliedWrites /\ SettledWrites' = SettledWrites
        /\ JudgedWrites' = JudgedWrites /\ \A w : EarlierOf(w)' = EarlierOf(w)
    BY <2>1 DEF AppliedWrites, SettledWrites, Stays, JudgedWrites, EarlierOf
  <2>3. JudgedInOrder' /\ SettledInOrder' /\ NewerWait'
    BY <2>1, <2>2 DEF OrderInv, JudgedInOrder, SettledInOrder, NewerWait
  <2> QED
    BY <2>1, <2>2, <2>3, TakeWriteOrdered
<1> QED
  BY <1>3, <1>4, <1>5 DEF Server

-----------------------------------------------------------------------------
(* The theorems                                                            *)

LEMMA InitOrdered == ASSUME Init PROVE OrderInv /\ Promise!Init
<1>1. /\ mutations = [u \in Users |-> NoBatches] /\ callbacks = [u \in Users |-> NoBatches]
      /\ user \in Users /\ pipeline = <<>> /\ answers = <<>> /\ owner = <<>>
      /\ stream.state = "Initial" /\ applied = [u \in Users |-> <<>>] /\ refused = {}
      /\ told = [w \in Writes |-> <<>>] /\ DOMAIN <<>> = {}
  BY DEF Init
<1>2. \A u \in Users : DOMAIN mutations[u] = {} /\ DOMAIN callbacks[u] = {} /\ applied[u] = <<>>
  BY <1>1 DEF NoBatches
<1>3. AppliedWrites = {} /\ SettledWrites = {} /\ JudgedWrites = {}
  BY <1>1, <1>2 DEF AppliedWrites, SettledWrites, JudgedWrites
<1>4. PipelineIsOldest /\ QueuesInOrder
  BY <1>1, <1>2 DEF PipelineIsOldest, QueuesInOrder, IsHead, IsFilled
<1>5. JudgedInOrder /\ SettledInOrder /\ AnswersAreTrue /\ NewerWait
  BY <1>1, <1>2, <1>3 DEF JudgedInOrder, SettledInOrder, AnswersAreTrue, NewerWait
<1>6. WaitingAreUntold /\ OpenIsOfUser
  BY <1>1, <1>2 DEF WaitingAreUntold, OpenIsOfUser
<1>7. Promise!Init
  BY <1>1, <1>3 DEF Promise!Init
<1> QED
  BY <1>4, <1>5, <1>6, <1>7 DEF OrderInv

LEMMA NextOrdered == ASSUME IInv, OrderInv, [Next]_vars PROVE OrderInv' /\ IsStep
<1>1. CASE UNCHANGED vars
  BY <1>1, TokenStepsOrdered
<1>2. CASE Next
  <2>1. CASE \/ \E u \in Users : AuthStateChange(u)
             \/ Token \/ IgnoreToken \/ TokenFailed \/ ResumeStart \/ BackoffElapsed
             \/ OnHandshakeComplete
    BY <2>1, TokenStepsOrdered
  <2>2. CASE WriteMutations
    BY <2>2, WriteMutationsOrdered
  <2>3. CASE HandleCredentialChange
    BY <2>3, HandleCredentialChangeOrdered
  <2>4. CASE OnMutationResult
    BY <2>4, OnMutationResultOrdered
  <2>5. CASE OnStreamFinish \/ ConnectionLost \/ IdleTimeout
    BY <2>5, RejectedOrdered, RetriedOrdered
  <2>6. CASE Server \/ ServerAborts
    BY <2>6, ServerOrdered
  <2>7. CASE Kill \/ KillInSuccess \/ KillInRejection
    BY <2>7, KillsOrdered
  <2> QED
    BY <1>2, <2>1, <2>2, <2>3, <2>4, <2>5, <2>6, <2>7 DEF Next, Tasks
<1> QED
  BY <1>1, <1>2

\* The order of writes survives everything: the queues, the pipeline, the answers
\* and what the server has judged agree on it in every state that is reached.
THEOREM OrderInvariance == Spec => []OrderInv
<1>1. Init => OrderInv
  BY InitOrdered
<1>2. IInv /\ OrderInv /\ [Next]_vars => OrderInv'
  BY NextOrdered
<1> QED
  BY <1>1, <1>2, Invariance, PTL DEF Spec

\* write_pipeline_ is always what RemoteStore would load if it started afresh: the
\* oldest batches of SyncEngine's user, in order, as many as kMaxPendingWrites.
THEOREM PipelineIsHead == Spec => []PipelineIsQueueHead
<1>1. IInv /\ OrderInv => PipelineIsQueueHead
  <2> SUFFICES ASSUME IInv, OrderInv PROVE PipelineIsQueueHead
    OBVIOUS
  <2> DEFINE q == mutations[user]
  <2>1. IsQueue(q) /\ pipeline \in Seq(Batch) /\ Len(pipeline) <= MaxPendingWrites
    BY OrderTypes
  <2>2. IsHead(q, pipeline) /\ IsFilled(q, pipeline)
    BY DEF OrderInv, PipelineIsOldest
  <2> HIDE DEF q
  <2>3. pipeline = NextBatches(q, <<>>)
    BY <2>1, <2>2, HeadIsNext
  <2> QED
    BY <2>3 DEF PipelineIsQueueHead, q
<1> QED
  BY <1>1, Invariance, OrderInvariance, PTL

\* Writes are sent again when a stream breaks or the process is killed, and the
\* server may apply one twice; still, once a user's queue is empty, the last write
\* applied is the newest the server did not refuse.
THEOREM NewestWins == Spec => []LastWriteWins
<1>1. IInv /\ OrderInv => LastWriteWins
  <2> SUFFICES ASSUME IInv, OrderInv, NEW u \in Users, mutations[u] = NoBatches,
                      applied[u] # <<>>, NEW w \in DOMAIN owner,
                      owner[w] = u, w > Last(applied[u])
               PROVE  w \in refused
    BY DEF LastWriteWins
  <2>1. w \in refused \/ w \notin SettledWrites
    BY DEF OrderInv, NewerWait
  <2>2. DOMAIN mutations[u] = {}
    BY DEF NoBatches
  <2>3. ~Stays(w)
    BY <2>2, StaysWithOwner
  <2>4. w \in SettledWrites
    BY <2>3 DEF SettledWrites
  <2> QED
    BY <2>1, <2>4
<1> QED
  BY <1>1, Invariance, OrderInvariance, PTL

\* The write path implements Outbox: writes are judged and leave the queues in the
\* order their user made them, and each completion is told at most once, of a
\* success only when the server applied the write.
THEOREM WritePathIsOutbox == Spec => ImplementsOutbox
<1>1. Init => Promise!Init
  BY InitOrdered
<1>2. IInv /\ OrderInv /\ [Next]_vars => [Promise!Next]_(Promise!vars)
  BY NextOrdered DEF IsStep
<1> QED
  BY <1>1, <1>2, Invariance, OrderInvariance, PTL DEF Spec, ImplementsOutbox, Promise!Spec

\* Nothing the write path waits for can be missing: while the queue of SyncEngine's
\* user holds a write, a token, a task, a timer, an answer or the end of the stream
\* is still to come, or the server has something to take.
THEOREM WritesKeepMoving == Spec => []WaitingWritesMove
<1>1. IInv /\ OrderInv => WaitingWritesMove
  <2> SUFFICES ASSUME IInv, OrderInv, NEW id \in DOMAIN mutations[user] PROVE StepIsDue
    BY DEF WaitingWritesMove
  <2>1. pipeline # <<>>
    <3>1. \/ Len(pipeline) = MaxPendingWrites
          \/ \E i \in DOMAIN pipeline : pipeline[i].id = id
      BY DEF OrderInv, PipelineIsOldest, IsFilled
    <3>2. pipeline = <<>> => Len(pipeline) = 0 /\ DOMAIN pipeline = {}
      BY EmptySeq
    <3>3. MaxPendingWrites # 0
      BY WritesAssumption
    <3> QED
      BY <3>1, <3>2, <3>3
  <2>2. stream.state \in {"Starting", "Backoff", "Open"}
    BY <2>1 DEF IInv, PipelineIsServed, IsStarted
  <2>3. CASE stream.state = "Starting"
    <3>1. stream.requests # {} \/ \E i \in DOMAIN tasks : TRUE
      BY <2>3 DEF IInv, PipelineIsServed
    <3>2. tasks = <<>> => DOMAIN tasks = {}
      BY TasksType, EmptySeq
    <3> QED
      BY <3>1, <3>2 DEF StepIsDue
  <2>4. CASE stream.state = "Open" /\ stream.handshakeComplete
    <3>1. answers # <<>> \/ wire # <<>>
      <4> DEFINE ws == [i \in DOMAIN answers |-> answers[i].write]
      <4>1. Mutations(pipeline) = ws \o wire /\ Mutations(pipeline) # <<>>
        BY <2>1, <2>4, OrderTypes, MutationsTail DEF IInv, AnswersMatchPipeline, CanSend
      <4>2. answers = <<>> => ws = <<>>
        BY EmptySeq
      <4> HIDE DEF ws
      <4>3. <<>> \o <<>> = <<>>
        BY ConcatEmptySeq, EmptySeq
      <4> QED
        BY <4>1, <4>2, <4>3
    <3>2. CASE answers = <<>>
      BY <3>1, <3>2 DEF StepIsDue, Ended
    <3>3. CASE answers # <<>>
      <4>1. 1 \in DOMAIN answers /\ Head(answers) = answers[1] /\ Last(answers) = answers[Len(answers)]
        BY <3>3, OrderTypes, EmptySeq DEF Last
      <4>2. Head(answers).verdict # "applied" => Len(answers) = 1
        <5>1. 1 < Len(answers) \/ Len(answers) = 1
          BY <4>1, OrderTypes
        <5>2. 1 < Len(answers) => answers[1].verdict = "applied"
          BY <4>1 DEF OrderInv, AnswersAreTrue
        <5> QED
          BY <4>1, <5>1, <5>2
      <4> QED
        BY <3>3, <4>1, <4>2 DEF StepIsDue, StreamFinishes, Ended
    <3> QED
      BY <3>2, <3>3
  <2> QED
    BY <2>2, <2>3, <2>4 DEF StepIsDue
<1> QED
  BY <1>1, Invariance, OrderInvariance, PTL

=============================================================================
