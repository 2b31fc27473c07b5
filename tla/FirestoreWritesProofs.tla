------------------------ MODULE FirestoreWritesProofs ------------------------
(***************************************************************************)
(* Proofs about the write path (module FirestoreWrites), for any users,    *)
(* any number of writes and disruptions and any size of the pipeline.      *)
(***************************************************************************)
EXTENDS FirestoreWrites, FiniteSetTheorems, SequenceTheorems, TLAPS

-----------------------------------------------------------------------------
(* Finite sets of ids                                                      *)

Below(S, id) == {earlier \in S : earlier < id}

LEMMA BelowGrows ==
    ASSUME NEW S \in SUBSET Nat, IsFiniteSet(S), NEW x \in S, NEW y \in S, x < y
    PROVE  /\ Cardinality(Below(S, x)) \in Nat
           /\ Cardinality(Below(S, y)) \in Nat
           /\ Cardinality(Below(S, x)) < Cardinality(Below(S, y))
<1>1. IsFiniteSet(Below(S, x)) /\ IsFiniteSet(Below(S, y))
  BY FS_Subset DEF Below
<1>2. x \notin Below(S, x) /\ Below(S, x) \cup {x} \subseteq Below(S, y)
  <2>1. \A e \in S : e \in Int
    OBVIOUS
  <2>2. \A e : e \in Below(S, x) => e \in Below(S, y)
    BY <2>1 DEF Below
  <2>3. x \in Below(S, y) /\ x \notin Below(S, x)
    BY <2>1 DEF Below
  <2> QED
    BY <2>2, <2>3
<1>3. Cardinality(Below(S, x) \cup {x}) = Cardinality(Below(S, x)) + 1
  BY <1>1, <1>2, FS_AddElement
<1>4. Cardinality(Below(S, x) \cup {x}) <= Cardinality(Below(S, y))
  BY <1>1, <1>2, FS_Subset
<1> QED
  BY <1>1, <1>3, <1>4, FS_CardinalityType

\* A set of natural numbers that is not empty has a least one.
LEMMA Least ==
    ASSUME NEW S \in SUBSET Nat, S # {}
    PROVE  \E x \in S : \A y \in S : x <= y
<1>1. PICK x \in S : \A y \in S : ~ (<<y, x>> \in OpToRel(<, Nat))
  <2> HIDE DEF OpToRel
  <2> QED
    BY NatLessThanWellFounded, WFMin
<1>2. \A y \in S : ~ (y < x)
  BY <1>1 DEF OpToRel
<1> QED
  BY <1>2

\* A finite one has a greatest.
LEMMA Greatest ==
    ASSUME NEW S \in SUBSET Nat, IsFiniteSet(S), S # {}
    PROVE  \E x \in S : \A y \in S : y <= x
<1> DEFINE Left(x) == Cardinality(S) - Cardinality(Below(S, x))
           T == {Left(x) : x \in S}
<1>1. Cardinality(S) \in Nat
  BY FS_CardinalityType
<1>2. ASSUME NEW x \in S
      PROVE  Left(x) \in Nat /\ Cardinality(Below(S, x)) \in Nat
  <2>1. IsFiniteSet(Below(S, x)) /\ Cardinality(Below(S, x)) <= Cardinality(S)
    BY FS_Subset DEF Below
  <2> QED
    BY <1>1, <2>1, FS_CardinalityType
<1>3. PICK x \in S : \A y \in S : Left(x) <= Left(y)
  <2>1. T \in SUBSET Nat /\ T # {}
    BY <1>2
  <2>2. PICK t \in T : \A s \in T : t <= s
    <3> HIDE DEF T
    <3> QED
      BY <2>1, Least
  <2> QED
    BY <2>2
<1>4. ASSUME NEW y \in S, x < y PROVE FALSE
  BY <1>1, <1>2, <1>3, <1>4, BelowGrows
<1> QED
  BY <1>4

LEMMA MaxIsGreatest ==
    ASSUME NEW S \in SUBSET Nat, IsFiniteSet(S), S # {}
    PROVE  Max(S) \in S /\ \A y \in S : y <= Max(S)
<1>1. \E x \in S : \A y \in S : x >= y
  BY Greatest
<1> QED
  BY <1>1 DEF Max

\* The n-th id of a queue is one of its ids, with n - 1 ids below.
LEMMA NthIdIn ==
    ASSUME NEW S \in SUBSET Nat, IsFiniteSet(S), NEW n \in 1..Cardinality(S)
    PROVE  NthId(S, n) \in S /\ Cardinality(Below(S, NthId(S, n))) = n - 1
<1> DEFINE T == {id \in S : Cardinality(Below(S, id)) >= n - 1}
<1>0. Cardinality(S) \in Nat
  BY FS_CardinalityType
<1>1. \A id \in S : IsFiniteSet(Below(S, id)) /\ Cardinality(Below(S, id)) \in Nat
  BY FS_Subset, FS_CardinalityType DEF Below
<1>2. T # {}
  <2>1. S # {}
    BY <1>0, FS_EmptySet
  <2>2. PICK x \in S : \A y \in S : y <= x
    BY <2>1, Greatest
  <2>3. S \ {x} = Below(S, x)
    <3>1. \A e : e \in S => e \in Int
      OBVIOUS
    <3>2. \A e : e \in S /\ e # x <=> e \in S /\ e < x
      BY <2>2, <3>1
    <3>3. \A e : e \in Below(S, x) <=> e \in S /\ e # x
      BY <3>2 DEF Below
    <3> QED
      BY <3>3
  <2>4. Cardinality(Below(S, x)) = Cardinality(S) - 1
    BY <2>3, FS_RemoveElement
  <2> QED
    BY <1>0, <2>4
<1>3. PICK m \in T : \A id \in T : m <= id
  <2>1. T \in SUBSET Nat
    OBVIOUS
  <2> HIDE DEF T
  <2> QED
    BY <1>2, <2>1, Least
<1>4. ASSUME Cardinality(Below(S, m)) > n - 1 PROVE FALSE
  <2>1. Below(S, m) # {} /\ Below(S, m) \in SUBSET Nat
    <3>1. m \in S /\ n \in Int
      BY <1>0
    <3>2. Cardinality(Below(S, m)) # 0
      BY <1>1, <1>4, <3>1
    <3> QED
      BY <3>2, FS_EmptySet DEF Below
  <2>2. PICK p \in Below(S, m) : \A y \in Below(S, m) : y <= p
    BY <1>1, <2>1, Greatest
  <2>3. p \in S /\ p < m /\ Below(S, m) \ {p} = Below(S, p)
    <3>1. p \in S /\ p < m /\ m \in S
      BY <2>2 DEF Below
    <3>2. \A e : e \in S => e \in Int
      OBVIOUS
    <3>3. \A e : e \in S /\ e < m => e <= p
      BY <2>2 DEF Below
    <3>4. \A e : e \in S /\ e < m /\ e # p <=> e \in S /\ e < p
      BY <3>1, <3>2, <3>3
    <3>5. \A e : e \in Below(S, m) \ {p} <=> e \in Below(S, p)
      BY <3>4 DEF Below
    <3> QED
      BY <3>1, <3>5
  <2>4. Cardinality(Below(S, p)) = Cardinality(Below(S, m)) - 1
    BY <1>1, <2>2, <2>3, FS_RemoveElement
  <2>5. p \in T
    BY <1>0, <1>1, <1>4, <2>3, <2>4
  <2> QED
    BY <1>3, <2>3, <2>5
<1>5. m \in S /\ Cardinality(Below(S, m)) = n - 1
  BY <1>0, <1>1, <1>3, <1>4
<1> QED
  BY <1>5 DEF NthId, Below

-----------------------------------------------------------------------------
(* The queue and the pipeline                                              *)

IsQueue(q) == Stored(q) /\ IsFiniteSet(DOMAIN q)

LEMMA MinOfTwo ==
    ASSUME NEW a \in Int, NEW b \in Int
    PROVE  Min({a, b}) \in {a, b} /\ Min({a, b}) <= a /\ Min({a, b}) <= b
<1>1. \E x \in {a, b} : \A y \in {a, b} : x =< y
  <2>1. CASE a <= b
    BY <2>1
  <2>2. CASE b <= a
    BY <2>2
  <2> QED
    BY <2>1, <2>2
<1> QED
  BY <1>1 DEF Min

\* What FillWritePipeline adds are batches of the queue, no more than there is
\* room for.
LEMMA NextBatchesType ==
    ASSUME NEW q, IsQueue(q), NEW p \in Seq(Batch), Len(p) <= MaxPendingWrites
    PROVE  LET added == NextBatches(q, p)
           IN /\ added \in Seq(Batch)
              /\ Len(p) + Len(added) <= MaxPendingWrites
              /\ \A n \in DOMAIN added :
                    added[n].id \in DOMAIN q /\ added[n].write = q[added[n].id]
              /\ p = <<>> /\ DOMAIN q # {} => added # <<>>
<1> DEFINE later == {id \in DOMAIN q : p = <<>> \/ id > Last(p).id}
           count == Min({MaxPendingWrites - Len(p), Cardinality(later)})
           added == [n \in 1..count |-> [id |-> NthId(later, n), write |-> q[NthId(later, n)]]]
<1>1. later \in SUBSET Nat /\ IsFiniteSet(later) /\ later \subseteq DOMAIN q
  BY FS_Subset DEF IsQueue, Stored
<1>2. Cardinality(later) \in Nat
  BY <1>1, FS_CardinalityType
<1>3. /\ count \in Nat /\ count <= Cardinality(later) /\ Len(p) + count <= MaxPendingWrites
      /\ count \in {MaxPendingWrites - Len(p), Cardinality(later)}
  <2>1. MaxPendingWrites - Len(p) \in Nat /\ Len(p) \in Nat
    BY WritesAssumption
  <2>2. /\ count \in {MaxPendingWrites - Len(p), Cardinality(later)}
        /\ count <= MaxPendingWrites - Len(p) /\ count <= Cardinality(later)
    <3> DEFINE a == MaxPendingWrites - Len(p)
               b == Cardinality(later)
    <3>1. a \in Int /\ b \in Int
      BY <1>2, <2>1
    <3> HIDE DEF a, b
    <3>2. Min({a, b}) \in {a, b} /\ Min({a, b}) <= a /\ Min({a, b}) <= b
      BY <3>1, MinOfTwo
    <3> QED
      BY <3>2 DEF a, b
  <2> QED
    BY <1>2, <2>1, <2>2, WritesAssumption
<1>4. \A n \in 1..count : NthId(later, n) \in later
  <2> HIDE DEF later, count
  <2> QED
    BY <1>1, <1>2, <1>3, NthIdIn
<1>5. \A n \in 1..count : NthId(later, n) \in DOMAIN q /\ NthId(later, n) \in Nat
                            /\ q[NthId(later, n)] \in Writes
  <2> HIDE DEF later, count
  <2> QED
    BY <1>1, <1>4 DEF IsQueue, Stored
<1>6. added \in Seq(Batch) /\ Len(added) = count /\ DOMAIN added = 1..count
  <2> HIDE DEF later, count
  <2>1. added \in [1..count -> Batch]
    BY <1>5 DEF Batch
  <2> QED
    BY <1>3, <2>1, LenProperties, SeqDef
<1>7. NextBatches(q, p) = added
  BY DEF NextBatches
<1>8. ASSUME p = <<>>, DOMAIN q # {} PROVE added # <<>>
  <2>1. later # {} /\ Len(p) = 0
    BY <1>8
  <2>2. Cardinality(later) # 0
    BY <1>1, <2>1, FS_EmptySet
  <2>4. count # 0
    <3> HIDE DEF later, count
    <3> QED
      BY <1>3, <2>1, <2>2, WritesAssumption
  <2> QED
    <3> HIDE DEF later, count, added
    <3> QED
      BY <1>6, <2>4
<1> HIDE DEF added
<1>9. \A n \in DOMAIN added : added[n].id \in DOMAIN q /\ added[n].write = q[added[n].id]
  <2> USE DEF added
  <2> HIDE DEF later, count
  <2> QED
    BY <1>5
<1> HIDE DEF later, count
<1> QED
  BY <1>3, <1>6, <1>7, <1>9, <1>8

LEMMA MutationsType ==
    ASSUME NEW p \in Seq(Batch)
    PROVE  /\ Mutations(p) \in Seq(Writes) /\ Len(Mutations(p)) = Len(p)
           /\ \A i \in 1..Len(p) : Mutations(p)[i] = p[i].write
<1>1. p \in [1..Len(p) -> Batch] /\ Len(p) \in Nat /\ DOMAIN p = 1..Len(p)
  BY LenProperties
<1>2. Mutations(p) \in [1..Len(p) -> Writes]
  BY <1>1 DEF Mutations, Batch
<1> QED
  BY <1>1, <1>2, SeqDef, LenProperties DEF Mutations

LEMMA MutationsConcat ==
    ASSUME NEW p \in Seq(Batch), NEW more \in Seq(Batch)
    PROVE  Mutations(p \o more) = Mutations(p) \o Mutations(more)
<1>1. /\ p \o more \in Seq(Batch) /\ Len(p \o more) = Len(p) + Len(more)
      /\ \A i \in 1..(Len(p) + Len(more)) :
            (p \o more)[i] = IF i <= Len(p) THEN p[i] ELSE more[i - Len(p)]
  BY ConcatProperties
<1>2. /\ Mutations(p) \in Seq(Writes) /\ Len(Mutations(p)) = Len(p)
      /\ \A i \in 1..Len(p) : Mutations(p)[i] = p[i].write
  BY MutationsType
<1>3. /\ Mutations(more) \in Seq(Writes) /\ Len(Mutations(more)) = Len(more)
      /\ \A i \in 1..Len(more) : Mutations(more)[i] = more[i].write
  BY MutationsType
<1>4. /\ Mutations(p \o more) \in Seq(Writes)
      /\ Len(Mutations(p \o more)) = Len(p) + Len(more)
      /\ \A i \in 1..(Len(p) + Len(more)) : Mutations(p \o more)[i] = (p \o more)[i].write
  BY <1>1, MutationsType
<1>5. /\ Mutations(p) \o Mutations(more) \in Seq(Writes)
      /\ Len(Mutations(p) \o Mutations(more)) = Len(p) + Len(more)
      /\ \A i \in 1..(Len(p) + Len(more)) : (Mutations(p) \o Mutations(more))[i] =
            IF i <= Len(p) THEN Mutations(p)[i] ELSE Mutations(more)[i - Len(p)]
  <2> DEFINE a == Mutations(p)
             b == Mutations(more)
  <2> HIDE DEF a, b
  <2>1. a \in Seq(Writes) /\ b \in Seq(Writes) /\ Len(a) = Len(p) /\ Len(b) = Len(more)
    BY <1>2, <1>3 DEF a, b
  <2>2. /\ a \o b \in Seq(Writes) /\ Len(a \o b) = Len(a) + Len(b)
        /\ \A i \in 1..(Len(a) + Len(b)) :
              (a \o b)[i] = IF i <= Len(a) THEN a[i] ELSE b[i - Len(a)]
    BY <2>1, ConcatProperties
  <2> QED
    BY <2>1, <2>2 DEF a, b
<1>6. Len(p) \in Nat /\ Len(more) \in Nat
  BY LenProperties
<1>7. ASSUME NEW i \in 1..(Len(p) + Len(more))
      PROVE  Mutations(p \o more)[i] = (Mutations(p) \o Mutations(more))[i]
  <2>1. CASE i <= Len(p)
    <3>1. i \in 1..Len(p)
      BY <1>6, <2>1
    <3> QED
      BY <1>1, <1>2, <1>4, <1>5, <2>1, <3>1
  <2>2. CASE ~(i <= Len(p))
    <3>1. i - Len(p) \in 1..Len(more)
      BY <1>6, <2>2
    <3> QED
      BY <1>1, <1>3, <1>4, <1>5, <2>2, <3>1
  <2> QED
    BY <2>1, <2>2
<1> QED
  BY <1>4, <1>5, <1>7, SeqEqual

LEMMA MutationsTail ==
    ASSUME NEW p \in Seq(Batch), p # <<>>
    PROVE  /\ Mutations(Tail(p)) = Tail(Mutations(p))
           /\ Head(Mutations(p)) = Head(p).write
           /\ Mutations(p) # <<>>
<1>1. /\ Tail(p) \in Seq(Batch) /\ Len(Tail(p)) = Len(p) - 1 /\ Len(p) \in Nat \ {0}
      /\ Head(p) = p[1] /\ \A i \in 1..(Len(p) - 1) : Tail(p)[i] = p[i + 1]
  BY HeadTailProperties, LenProperties, EmptySeq
<1>2. /\ Mutations(p) \in Seq(Writes) /\ Len(Mutations(p)) = Len(p)
      /\ \A i \in 1..Len(p) : Mutations(p)[i] = p[i].write
  BY MutationsType
<1>3. /\ Mutations(Tail(p)) \in Seq(Writes) /\ Len(Mutations(Tail(p))) = Len(p) - 1
      /\ \A i \in 1..(Len(p) - 1) : Mutations(Tail(p))[i] = Tail(p)[i].write
  BY <1>1, MutationsType
<1>4. Mutations(p) # <<>>
  BY <1>1, <1>2
<1>5. /\ Tail(Mutations(p)) \in Seq(Writes) /\ Len(Tail(Mutations(p))) = Len(p) - 1
      /\ Head(Mutations(p)) = Mutations(p)[1]
      /\ \A i \in 1..(Len(p) - 1) : Tail(Mutations(p))[i] = Mutations(p)[i + 1]
  BY <1>2, <1>4, HeadTailProperties
<1>6. ASSUME NEW i \in 1..(Len(p) - 1) PROVE Mutations(Tail(p))[i] = Tail(Mutations(p))[i]
  <2>1. i + 1 \in 1..Len(p)
    BY <1>1
  <2> QED
    BY <1>1, <1>2, <1>3, <1>5, <2>1
<1>7. Mutations(Tail(p)) = Tail(Mutations(p))
  BY <1>3, <1>5, <1>6, SeqEqual
<1> QED
  BY <1>1, <1>2, <1>4, <1>5, <1>7
\* What is sent and answered is the pipeline (AnswersMatchPipeline).
Match(p, s, ans, sent) ==
    IF CanSend(s)
    THEN Mutations(p) = [i \in DOMAIN ans |-> ans[i].write] \o sent
    ELSE sent = <<>> /\ ans = <<>>

\* The timer of a stream s with the pipeline p.
Timed(p, s) ==
    /\ p # <<>> => ~s.idleTimer
    /\ s.handshakeComplete => s.state = "Open"
    /\ s.idleTimer => CanSend(s)

NewRequest(s) == [closeCount |-> s.closeCount, counter |-> tokenCounter]

LEMMA SameInterval ==
    ASSUME NEW a \in Nat, NEW b \in Nat, 1..a = 1..b
    PROVE  a = b
<1>1. CASE a < b
  BY <1>1
<1>2. CASE b < a
  BY <1>2
<1> QED
  BY <1>1, <1>2

LEMMA AnswersType ==
    ASSUME NEW ans \in Seq(Answer)
    PROVE  /\ [i \in DOMAIN ans |-> ans[i].write] \in Seq(Writes)
           /\ Len([i \in DOMAIN ans |-> ans[i].write]) = Len(ans)
<1>1. ans \in [1..Len(ans) -> Answer] /\ Len(ans) \in Nat /\ DOMAIN ans = 1..Len(ans)
  BY LenProperties
<1> DEFINE ws == [i \in DOMAIN ans |-> ans[i].write]
<1>2. ws \in [1..Len(ans) -> Writes]
  BY <1>1 DEF Answer
<1> HIDE DEF ws
<1>3. ws \in Seq(Writes)
  BY <1>1, <1>2, SeqDef
<1>4. Len(ws) = Len(ans)
  <2>1. DOMAIN ws = 1..Len(ans) /\ DOMAIN ws = 1..Len(ws) /\ Len(ws) \in Nat
    BY <1>1, <1>2, <1>3, LenProperties
  <2> QED
    BY <1>1, <2>1, SameInterval
<1> QED
  BY <1>3, <1>4 DEF ws

StreamAfter(p, added, s) ==
    StartIfNeeded(IF p = <<>> THEN MarkIdle(s)
                  ELSE IF CanSend(s) /\ added # <<>> THEN [s EXCEPT !.idleTimer = FALSE] ELSE s, p)

\* What FillWritePipeline leaves of the stream: it goes on, or starts with a
\* request for a token.
LEMMA StreamFilled ==
    ASSUME NEW p, NEW added, NEW s \in Stream, NEW t, tokenCounter \in Nat,
           Timed(<<>>, s),
           s.state = "Open" /\ p = <<>> => s.handshakeComplete,
           p # <<>> /\ s.idleTimer => added # <<>>,
           t = StreamAfter(p, added, s)
    PROVE  /\ t \in Stream /\ t.closeCount = s.closeCount
           /\ CanSend(t) <=> CanSend(s)
           /\ Timed(p, t)
           /\ p # <<>> => IsStarted(t)
           /\ IsStarted(s) => t.state = s.state /\ t.requests = s.requests
           /\ ~IsStarted(s) => \/ t.requests = s.requests /\ t.state # "Starting"
                               \/ /\ t.requests = s.requests \cup {NewRequest(s)}
                                  /\ t.state = "Starting"
<1>1. CASE p = <<>>
  BY <1>1 DEF StreamAfter, StartIfNeeded, MarkIdle, Stream, CanSend, Timed, IsStarted
<1>2. CASE p # <<>> /\ IsStarted(s)
  BY <1>2 DEF StreamAfter, StartIfNeeded, Stream, CanSend, Timed, IsStarted
<1>3. CASE p # <<>> /\ ~IsStarted(s)
  <2>1. ~CanSend(s)
    BY <1>3 DEF CanSend, IsStarted
  <2>2. t = Start(s)
    BY <1>3, <2>1 DEF StreamAfter, StartIfNeeded
  <2>3. NewRequest(s) \in TokenRequest
    BY DEF NewRequest, TokenRequest, Stream
  <2>4. CASE s.state = "Error"
    BY <1>3, <2>1, <2>2, <2>4 DEF Start, Stream, CanSend, Timed, IsStarted
  <2>5. CASE s.state # "Error"
    <3> DEFINE r == s.requests \cup {NewRequest(s)}
    <3>1. t = [s EXCEPT !.state = "Starting", !.requests = r]
      BY <2>2, <2>5 DEF Start, NewRequest
    <3>2. r \in SUBSET TokenRequest
      BY <2>3 DEF Stream
    <3> HIDE DEF r
    <3>3. /\ t \in Stream /\ t.state = "Starting" /\ t.requests = r
          /\ t.closeCount = s.closeCount /\ t.idleTimer = s.idleTimer
          /\ t.handshakeComplete = s.handshakeComplete
      BY <3>1, <3>2 DEF Stream
    <3>4. ~s.handshakeComplete /\ ~s.idleTimer
      BY <1>3, <2>1 DEF Timed, IsStarted
    <3> QED
      BY <1>3, <2>1, <3>3, <3>4 DEF r, CanSend, Timed, IsStarted
  <2> QED
    BY <2>4, <2>5
<1> QED
  BY <1>1, <1>2, <1>3

\* FillWritePipeline from the queue q and the pipeline p, with ans the answers that
\* have not been read.
LEMMA Filled ==
    ASSUME NEW q, IsQueue(q), NEW p \in Seq(Batch), Len(p) <= MaxPendingWrites,
           NEW s \in Stream, NEW ans \in Seq(Answer), NEW sent \in Seq(Writes),
           tokenCounter \in Nat,
           Match(p, s, ans, sent), Timed(p, s),
           s.state = "Open" /\ p = <<>> /\ DOMAIN q = {} => s.handshakeComplete,
           FillWritePipeline(q, p, s, sent)
    PROVE  /\ pipeline' \in Seq(Batch) /\ Len(pipeline') <= MaxPendingWrites
           /\ wire' \in Seq(Writes)
           /\ Match(pipeline', stream', ans, wire')
           /\ \A i \in DOMAIN pipeline' :
                 \/ i \in DOMAIN p /\ pipeline'[i] = p[i]
                 \/ \E id \in DOMAIN q : pipeline'[i].write = q[id]
           /\ stream' \in Stream /\ stream'.closeCount = s.closeCount
           /\ Timed(pipeline', stream')
           /\ pipeline' # <<>> => IsStarted(stream')
           /\ IsStarted(s) => stream'.state = s.state /\ stream'.requests = s.requests
           /\ ~IsStarted(s) => \/ stream'.requests = s.requests /\ stream'.state # "Starting"
                               \/ /\ stream'.requests = s.requests \cup {NewRequest(s)}
                                  /\ stream'.state = "Starting"
<1> DEFINE added == NextBatches(q, p)
           sends == CanSend(s) /\ added # <<>>
           all == p \o added
<1>1. /\ added \in Seq(Batch) /\ Len(p) + Len(added) <= MaxPendingWrites
      /\ \A n \in DOMAIN added : added[n].id \in DOMAIN q /\ added[n].write = q[added[n].id]
      /\ p = <<>> /\ DOMAIN q # {} => added # <<>>
  BY NextBatchesType
<1>2. /\ pipeline' = all
      /\ wire' = IF sends THEN sent \o Mutations(added) ELSE sent
      /\ stream' = StreamAfter(all, added, s)
  BY DEF FillWritePipeline, StreamAfter
<1> HIDE DEF added
<1>3. /\ all \in Seq(Batch) /\ Len(all) = Len(p) + Len(added)
      /\ \A i \in 1..(Len(p) + Len(added)) :
            all[i] = IF i <= Len(p) THEN p[i] ELSE added[i - Len(p)]
      /\ all = <<>> <=> p = <<>> /\ added = <<>>
      /\ added = <<>> => all = p
  BY <1>1, ConcatProperties, ConcatEqualIffEmpty, ConcatEmptySeq
<1>4. Mutations(added) \in Seq(Writes) /\ Mutations(p) \in Seq(Writes)
  BY <1>1, MutationsType
<1>5. Mutations(all) = Mutations(p) \o Mutations(added)
  BY <1>1, MutationsConcat
<1> HIDE DEF all
<1>6. ASSUME NEW i \in DOMAIN pipeline'
      PROVE  \/ i \in DOMAIN p /\ pipeline'[i] = p[i]
             \/ \E id \in DOMAIN q : pipeline'[i].write = q[id]
  <2>1. /\ Len(p) \in Nat /\ DOMAIN p = 1..Len(p) /\ Len(added) \in Nat
        /\ DOMAIN added = 1..Len(added) /\ i \in 1..(Len(p) + Len(added))
    BY <1>1, <1>2, <1>3, LenProperties
  <2>2. CASE i <= Len(p)
    BY <1>2, <1>3, <2>1, <2>2
  <2>3. CASE ~(i <= Len(p))
    <3>1. i - Len(p) \in DOMAIN added
      BY <2>1, <2>3
    <3> QED
      BY <1>1, <1>2, <1>3, <2>1, <2>3, <3>1
  <2> QED
    BY <2>2, <2>3
<1>7. /\ stream' \in Stream /\ stream'.closeCount = s.closeCount
      /\ CanSend(stream') <=> CanSend(s)
      /\ Timed(all, stream')
      /\ all # <<>> => IsStarted(stream')
      /\ IsStarted(s) => stream'.state = s.state /\ stream'.requests = s.requests
      /\ ~IsStarted(s) => \/ stream'.requests = s.requests /\ stream'.state # "Starting"
                          \/ /\ stream'.requests = s.requests \cup {NewRequest(s)}
                             /\ stream'.state = "Starting"
  <2>1. all # <<>> /\ s.idleTimer => added # <<>>
    BY <1>3 DEF Timed
  <2>2. s.state = "Open" /\ all = <<>> => s.handshakeComplete
    BY <1>1, <1>3
  <2>3. Timed(<<>>, s)
    BY DEF Timed
  <2> QED
    BY <1>2, <2>1, <2>2, <2>3, StreamFilled
<1>8. wire' \in Seq(Writes) /\ Match(all, stream', ans, wire')
  <2>1. CASE sends
    <3>1. [i \in DOMAIN ans |-> ans[i].write] \in Seq(Writes)
      BY AnswersType
    <3>2. Mutations(p) = [i \in DOMAIN ans |-> ans[i].write] \o sent
      BY <2>1 DEF Match
    <3>3. Mutations(all) = [i \in DOMAIN ans |-> ans[i].write] \o (sent \o Mutations(added))
      <4> DEFINE ws == [i \in DOMAIN ans |-> ans[i].write]
                 more == Mutations(added)
      <4> HIDE DEF ws, more
      <4>1. ws \in Seq(Writes) /\ more \in Seq(Writes)
        BY <1>4, <3>1 DEF ws, more
      <4>2. (ws \o sent) \o more = ws \o (sent \o more)
        BY <4>1, ConcatAssociative
      <4>3. Mutations(all) = (ws \o sent) \o more
        BY <1>5, <3>2 DEF ws, more
      <4> QED
        BY <4>2, <4>3 DEF ws, more
    <3>4. wire' = sent \o Mutations(added) /\ wire' \in Seq(Writes)
      BY <1>2, <1>4, <2>1, ConcatProperties
    <3> QED
      BY <1>7, <2>1, <3>3, <3>4 DEF Match
  <2>2. CASE ~sends /\ CanSend(s)
    BY <1>2, <1>3, <1>7, <2>2 DEF Match
  <2>3. CASE ~CanSend(s)
    BY <1>2, <1>7, <2>3 DEF Match
  <2> QED
    BY <2>1, <2>2, <2>3
<1> QED
  BY <1>1, <1>2, <1>3, <1>6, <1>7, <1>8

-----------------------------------------------------------------------------
(* What every step relies on                                               *)

LEMMA QueuesFinite ==
    ASSUME IInv
    PROVE  \A u \in Users : IsQueue(mutations[u])
<1> SUFFICES ASSUME NEW u \in Users PROVE IsQueue(mutations[u])
  OBVIOUS
<1>1. Stored(mutations[u]) /\ nextBatchId \in Nat
  BY DEF IInv, TypeOK
<1>2. \A id \in DOMAIN mutations[u] : id <= nextBatchId
  BY <1>1 DEF IInv, IdsAreTaken, Stored
<1>3. IsFiniteSet(DOMAIN mutations[u])
  BY <1>1, <1>2, FS_BoundedSetOfNaturals DEF Stored
<1> QED
  BY <1>1, <1>3 DEF IsQueue

LEMMA MatchesNow == ASSUME IInv PROVE Match(pipeline, stream, answers, wire)
  BY DEF IInv, AnswersMatchPipeline, Match

LEMMA TimedNow == ASSUME IInv PROVE Timed(pipeline, stream)
  BY DEF IInv, PipelineIsServed, TimerIsIdle, Timed

\* What is on the wire is of the user: it is in the pipeline.
LEMMA WireWritten ==
    ASSUME IInv
    PROVE  \A i \in DOMAIN wire : WrittenBy(wire[i], user)
<1> SUFFICES ASSUME NEW i \in DOMAIN wire PROVE WrittenBy(wire[i], user)
  OBVIOUS
<1> DEFINE ws == [j \in DOMAIN answers |-> answers[j].write]
<1>1. wire \in Seq(Writes) /\ pipeline \in Seq(Batch) /\ ws \in Seq(Writes)
  BY AnswersType DEF IInv, TypeOK
<1>2. wire # <<>> /\ i \in 1..Len(wire)
  BY <1>1, LenProperties
<1>3. Mutations(pipeline) = ws \o wire
  BY <1>2, MatchesNow DEF Match
<1> HIDE DEF ws
<1>4. Len(ws) \in Nat /\ Len(wire) \in Nat
  BY <1>1, LenProperties
<1>5. /\ Len(Mutations(pipeline)) = Len(ws) + Len(wire)
      /\ Mutations(pipeline)[Len(ws) + i] = wire[i]
  <2>1. Len(ws) + i \in 1..(Len(ws) + Len(wire)) /\ ~(Len(ws) + i <= Len(ws))
        /\ (Len(ws) + i) - Len(ws) = i
    BY <1>2, <1>4
  <2> QED
    BY <1>1, <1>3, <2>1, ConcatProperties
<1>6. Len(ws) + i \in 1..Len(pipeline) /\ DOMAIN pipeline = 1..Len(pipeline)
  BY <1>1, <1>2, <1>4, <1>5, MutationsType, LenProperties
<1>7. wire[i] = pipeline[Len(ws) + i].write
  BY <1>1, <1>5, <1>6, MutationsType
<1> QED
  BY <1>6, <1>7 DEF IInv, OwnersKnown

\* The server may have taken a part of the wire, as the user's.
LEMMA Disconnected ==
    ASSUME IInv, Disconnect
    PROVE  /\ answers' = <<>> /\ streamUser' = Nil
           /\ applied' \in [Users -> Seq(Writes)]
           /\ \A u \in Users : \A i \in DOMAIN applied'[u] : WrittenBy(applied'[u][i], u)
<1>1. PICK n \in 0..(IF Ended THEN 0 ELSE Len(wire)) :
         applied' = [u \in Users |->
             IF u = streamUser THEN applied[u] \o SubSeq(wire, 1, n) ELSE applied[u]]
  BY DEF Disconnect
<1>2. wire \in Seq(Writes) /\ Len(wire) \in Nat /\ n \in 0..Len(wire)
      /\ DOMAIN wire = 1..Len(wire)
  <2>1. wire \in Seq(Writes)
    BY DEF IInv, TypeOK
  <2>2. Len(wire) \in Nat /\ DOMAIN wire = 1..Len(wire)
    BY <2>1, LenProperties
  <2> QED
    BY <1>1, <2>1, <2>2
<1>3. /\ SubSeq(wire, 1, n) \in Seq(Writes) /\ Len(SubSeq(wire, 1, n)) = n
      /\ \A i \in 1..n : SubSeq(wire, 1, n)[i] = wire[i]
  <2>1. \A i \in 1..n : wire[i] \in Writes
    BY <1>2, ElementOfSeq
  <2> DEFINE taken == SubSeq(wire, 1, n)
  <2>2. /\ taken \in Seq(Writes) /\ Len(taken) = IF 1 <= n THEN n - 1 + 1 ELSE 0
        /\ \A i \in 1..(n - 1 + 1) : taken[i] = wire[1 + i - 1]
    BY <1>2, <2>1, SubSeqProperties
  <2> HIDE DEF taken
  <2>3. Len(taken) = n /\ \A i \in 1..n : taken[i] = wire[i]
    BY <1>2, <2>2
  <2> QED
    BY <2>2, <2>3 DEF taken
<1>4. ASSUME NEW u \in Users
      PROVE  /\ applied'[u] \in Seq(Writes)
             /\ \A i \in DOMAIN applied'[u] : WrittenBy(applied'[u][i], u)
  <2> DEFINE taken == SubSeq(wire, 1, n)
  <2> HIDE DEF taken
  <2>1. applied[u] \in Seq(Writes)
    BY DEF IInv, TypeOK
  <2>2. \A i \in DOMAIN applied[u] : WrittenBy(applied[u][i], u)
    BY DEF IInv, OwnersKnown
  <2>3. CASE u # streamUser
    BY <1>1, <2>1, <2>2, <2>3
  <2>4. CASE u = streamUser
    <3>1. u = user
      BY <2>4, WritesAssumption DEF IInv, StreamOfUser
    <3>2. taken \in Seq(Writes) /\ Len(taken) = n /\ \A i \in 1..n : WrittenBy(taken[i], u)
      BY <1>2, <1>3, <3>1, WireWritten DEF taken
    <3>3. applied'[u] = applied[u] \o taken
      BY <1>1, <2>4 DEF taken
    <3>4. /\ applied'[u] \in Seq(Writes)
          /\ Len(applied'[u]) = Len(applied[u]) + n
          /\ \A i \in 1..(Len(applied[u]) + n) : applied'[u][i] =
                IF i <= Len(applied[u]) THEN applied[u][i] ELSE taken[i - Len(applied[u])]
      <4> DEFINE before == applied[u]
      <4> HIDE DEF before
      <4>1. before \in Seq(Writes)
        BY <2>1 DEF before
      <4>2. /\ before \o taken \in Seq(Writes) /\ Len(before \o taken) = Len(before) + n
            /\ \A i \in 1..(Len(before) + n) : (before \o taken)[i] =
                  IF i <= Len(before) THEN before[i] ELSE taken[i - Len(before)]
        BY <3>2, <4>1, ConcatProperties
      <4> QED
        BY <3>3, <4>2 DEF before
    <3>5. ASSUME NEW i \in DOMAIN applied'[u] PROVE WrittenBy(applied'[u][i], u)
      <4>1. /\ i \in 1..(Len(applied[u]) + n) /\ Len(applied[u]) \in Nat
            /\ DOMAIN applied[u] = 1..Len(applied[u])
        BY <2>1, <3>4, LenProperties
      <4>2. CASE i <= Len(applied[u])
        BY <2>2, <3>4, <4>1, <4>2
      <4>3. CASE ~(i <= Len(applied[u]))
        <5>1. i - Len(applied[u]) \in 1..n
          BY <1>2, <4>1, <4>3
        <5> QED
          BY <3>2, <3>4, <4>1, <4>3, <5>1
      <4> QED
        BY <4>2, <4>3
    <3> QED
      BY <3>4, <3>5
  <2> QED
    BY <2>3, <2>4
<1>5. applied' \in [Users -> Seq(Writes)]
  BY <1>1, <1>4
<1> QED
  BY <1>4, <1>5 DEF Disconnect

LEMMA Closed ==
    ASSUME NEW s \in Stream, NEW state \in {"Initial", "Error"}, Timed(<<>>, s), NEW c,
           c = Close(s, state)
    PROVE  /\ c \in Stream /\ ~IsStarted(c) /\ c.requests = s.requests
           /\ ~c.idleTimer /\ ~c.handshakeComplete
           /\ c.closeCount = IF IsStarted(s) THEN s.closeCount + 1 ELSE s.closeCount
<1>1. CASE IsStarted(s)
  <2> DEFINE n == s.closeCount + 1
  <2>1. n \in Nat
    BY DEF Stream
  <2>2. c = [s EXCEPT !.state = state, !.handshakeComplete = FALSE, !.idleTimer = FALSE,
                      !.closeCount = n]
    BY <1>1 DEF Close
  <2> HIDE DEF n
  <2>3. /\ c \in Stream /\ c.state = state /\ c.requests = s.requests
        /\ ~c.idleTimer /\ ~c.handshakeComplete /\ c.closeCount = n
    BY <2>1, <2>2 DEF Stream
  <2> QED
    BY <1>1, <2>3 DEF n, IsStarted
<1>2. CASE ~IsStarted(s)
  BY <1>2 DEF Close, Stream, IsStarted, Timed, CanSend
<1> QED
  BY <1>1, <1>2

\* The tasks that remain of those before.
TasksLeft == tasks' \in {tasks, Tail(tasks)} /\ (tasks = <<>> => tasks' = tasks)

LEMMA TasksKept ==
    ASSUME IInv, TasksLeft
    PROVE  /\ tasks' \in Seq(Task)
           /\ \A i \in DOMAIN tasks' : \E j \in DOMAIN tasks : tasks'[i] = tasks[j]
<1>1. tasks \in Seq(Task)
  BY DEF IInv, TypeOK
<1>2. CASE tasks' = tasks
  BY <1>1, <1>2
<1>3. CASE tasks # <<>> /\ tasks' = Tail(tasks)
  BY <1>1, <1>3, HeadTailProperties, LenProperties
<1> QED
  BY <1>2, <1>3 DEF TasksLeft

\* What a step that closes the stream and may start it again leaves of tokens: none
\* that was asked for before is the stream's.
LEMMA TokensOfClosed ==
    ASSUME IInv, TasksLeft, NEW state \in {"Initial", "Error"}, NEW c,
           c = Close(stream, state),
           stream'.closeCount = c.closeCount,
           \/ stream'.requests = c.requests /\ stream'.state # "Starting"
           \/ /\ stream'.requests = c.requests \cup {NewRequest(c)}
              /\ stream'.state = "Starting"
    PROVE  /\ OneToken' /\ TokenIsOfUser'
           /\ stream'.state = "Starting" => \E r \in stream'.requests : IsAsked(r)'
<1>1. /\ stream \in Stream /\ stream.closeCount \in Nat
      /\ c.requests = stream.requests
      /\ c.closeCount = IF IsStarted(stream) THEN stream.closeCount + 1 ELSE stream.closeCount
  <2>1. stream \in Stream /\ Timed(<<>>, stream)
    BY DEF IInv, TypeOK, TimerIsIdle, Timed
  <2> QED
    BY <2>1, Closed DEF Stream
<1>2. ASSUME NEW r \in stream.requests PROVE r.closeCount < c.closeCount
  <2>1. r.closeCount \in Nat
    BY <1>1 DEF Stream, TokenRequest
  <2> QED
    BY <1>1, <2>1 DEF IInv, OneToken, IsAsked, IsStarted
<1>3. ASSUME NEW i \in DOMAIN tasks', tasks'[i].op = "token"
      PROVE  tasks'[i].closeCount < c.closeCount
  <2>1. PICK j \in DOMAIN tasks : tasks'[i] = tasks[j]
    BY TasksKept
  <2>2. tasks[j] \in Task /\ tasks[j].op = "token"
    BY <1>3, <2>1, LenProperties, ElementOfSeq DEF IInv, TypeOK
  <2>3. tasks[j].closeCount \in Nat
    BY <2>2 DEF Task
  <2> QED
    BY <1>1, <2>1, <2>2, <2>3 DEF IInv, OneToken, IsToken, IsStarted
<1>4. c.closeCount \in Nat
  BY <1>1
<1>5. \A i \in DOMAIN tasks' : ~IsToken(i)'
  <2>1. SUFFICES ASSUME NEW i \in DOMAIN tasks', tasks'[i].op = "token",
                        tasks'[i].closeCount = c.closeCount
                 PROVE  FALSE
    BY DEF IsToken
  <2> QED
    BY <1>3, <1>4, <2>1
<1>6. ASSUME NEW i \in DOMAIN tasks', tasks'[i].op = "token"
      PROVE  tasks'[i].closeCount <= stream'.closeCount
  <2>1. PICK j \in DOMAIN tasks : tasks'[i] = tasks[j]
    BY TasksKept
  <2>2. tasks[j] \in Task
    BY <2>1, LenProperties, ElementOfSeq DEF IInv, TypeOK
  <2>3. tasks'[i].closeCount \in Nat
    BY <1>6, <2>1, <2>2 DEF Task
  <2> QED
    BY <1>3, <1>4, <1>6, <2>3
<1>7. ASSUME NEW r \in stream'.requests
      PROVE  r.closeCount <= stream'.closeCount
             /\ (IsAsked(r)' => stream'.state = "Starting" /\ r = NewRequest(c))
  <2>1. CASE r \in stream.requests
    <3>1. r.closeCount \in Nat /\ r.closeCount < c.closeCount
      BY <1>1, <1>2, <2>1 DEF Stream, TokenRequest
    <3> QED
      BY <1>4, <3>1 DEF IsAsked
  <2>2. CASE r \notin stream.requests
    <3>1. r = NewRequest(c) /\ stream'.state = "Starting"
      BY <1>1, <2>2
    <3> QED
      BY <1>4, <3>1 DEF NewRequest
  <2> QED
    BY <2>1, <2>2
<1>8. stream'.state = "Starting" => \E r \in stream'.requests : IsAsked(r)'
  <2>1. SUFFICES ASSUME stream'.state = "Starting"
                 PROVE  \E r \in stream'.requests : IsAsked(r)'
    OBVIOUS
  <2>2. NewRequest(c) \in stream'.requests
    BY <2>1
  <2>3. NewRequest(c).closeCount = stream'.closeCount
    BY DEF NewRequest
  <2> QED
    BY <2>2, <2>3 DEF IsAsked
<1> QED
  BY <1>5, <1>6, <1>7, <1>8 DEF OneToken, TokenIsOfUser

\* A step that leaves the pipeline p, the stream t, the answers ans and sent on the
\* wire, as FillWritePipeline does, keeps what is said of them.
LEMMA StreamInv ==
    ASSUME Match(pipeline', stream', answers', wire'), Timed(pipeline', stream'),
           pipeline' # <<>> => IsStarted(stream'),
           stream'.state = "Starting" =>
              \/ \E r \in stream'.requests : IsAsked(r)'
              \/ \E i \in DOMAIN tasks' : IsToken(i)'
    PROVE  AnswersMatchPipeline' /\ PipelineIsServed' /\ TimerIsIdle'
<1>1. AnswersMatchPipeline'
  BY DEF AnswersMatchPipeline, Match, Mutations, CanSend
<1>2. PipelineIsServed'
  BY DEF PipelineIsServed, Timed, IsStarted, IsAsked, IsToken
<1>3. TimerIsIdle'
  BY DEF TimerIsIdle, Timed, CanSend
<1> QED
  BY <1>1, <1>2, <1>3

\* FillWritePipeline as it is called, with the stream open or closed before.
LEMMA FilledInv ==
    ASSUME IInv, NEW q, IsQueue(q), NEW p \in Seq(Batch), Len(p) <= MaxPendingWrites,
           NEW c \in Stream, NEW sent \in Seq(Writes), answers' \in Seq(Answer),
           Match(p, c, answers', sent), Timed(p, c),
           c.state = "Open" /\ p = <<>> /\ DOMAIN q = {} => c.handshakeComplete,
           FillWritePipeline(q, p, c, sent),
           \/ c = stream /\ tasks' = tasks /\ user' = user
           \/ c = Close(stream, "Initial") /\ TasksLeft
    PROVE  /\ pipeline' \in Seq(Batch) /\ Len(pipeline') <= MaxPendingWrites
           /\ \A i \in DOMAIN pipeline' :
                 \/ i \in DOMAIN p /\ pipeline'[i] = p[i]
                 \/ \E id \in DOMAIN q : pipeline'[i].write = q[id]
           /\ wire' \in Seq(Writes) /\ stream' \in Stream
           /\ AnswersMatchPipeline' /\ PipelineIsServed' /\ TimerIsIdle'
           /\ OneToken' /\ TokenIsOfUser'
<1>0. tokenCounter \in Nat /\ stream \in Stream /\ Timed(<<>>, stream)
  BY DEF IInv, TypeOK, TimerIsIdle, Timed
<1>1. /\ pipeline' \in Seq(Batch) /\ Len(pipeline') <= MaxPendingWrites
      /\ wire' \in Seq(Writes)
      /\ Match(pipeline', stream', answers', wire')
      /\ \A i \in DOMAIN pipeline' :
            \/ i \in DOMAIN p /\ pipeline'[i] = p[i]
            \/ \E id \in DOMAIN q : pipeline'[i].write = q[id]
      /\ stream' \in Stream /\ stream'.closeCount = c.closeCount
      /\ Timed(pipeline', stream')
      /\ pipeline' # <<>> => IsStarted(stream')
      /\ IsStarted(c) => stream'.state = c.state /\ stream'.requests = c.requests
      /\ ~IsStarted(c) => \/ stream'.requests = c.requests /\ stream'.state # "Starting"
                          \/ /\ stream'.requests = c.requests \cup {NewRequest(c)}
                             /\ stream'.state = "Starting"
  BY <1>0, Filled
<1>2. /\ OneToken' /\ TokenIsOfUser'
      /\ stream'.state = "Starting" =>
            \/ \E r \in stream'.requests : IsAsked(r)'
            \/ \E i \in DOMAIN tasks' : IsToken(i)'
  <2>1. CASE c = stream /\ tasks' = tasks /\ user' = user /\ IsStarted(stream)
    <3>1. stream'.closeCount = stream.closeCount /\ stream'.state = stream.state
          /\ stream'.requests = stream.requests
      BY <1>1, <2>1
    <3>2. OneToken'
      BY <2>1, <3>1 DEF IInv, OneToken, IsAsked, IsToken
    <3>3. TokenIsOfUser'
      BY <2>1, <3>1 DEF IInv, TokenIsOfUser, IsToken, IsCredential
    <3>4. stream.state = "Starting" =>
            \/ \E r \in stream.requests : IsAsked(r)
            \/ \E i \in DOMAIN tasks : IsToken(i)
      BY DEF IInv, PipelineIsServed, IsAsked, IsToken
    <3> QED
      BY <2>1, <3>1, <3>2, <3>3, <3>4 DEF IsAsked, IsToken
  <2>2. CASE c = Close(stream, "Initial") /\ TasksLeft
    <3>1. ~IsStarted(c)
      BY <1>0, <2>2, Closed
    <3> QED
      BY <1>1, <2>2, <3>1, TokensOfClosed
  <2>3. CASE c = stream /\ tasks' = tasks /\ user' = user /\ ~IsStarted(stream)
    <3>1. c = Close(stream, "Initial") /\ TasksLeft
      BY <2>3 DEF Close, TasksLeft
    <3> QED
      BY <1>1, <2>3, <3>1, TokensOfClosed
  <2> QED
    BY <2>1, <2>2, <2>3
<1> QED
  BY <1>1, <1>2, StreamInv

\* The stream is closed, and started again for the pipeline that waits.
LEMMA RestartedInv ==
    ASSUME IInv, TasksLeft, NEW state \in {"Initial", "Error"},
           stream' = StartIfNeeded(Close(stream, state), pipeline),
           pipeline' = pipeline, wire' = <<>>, answers' = <<>>
    PROVE  /\ stream' \in Stream
           /\ AnswersMatchPipeline' /\ PipelineIsServed' /\ TimerIsIdle'
           /\ OneToken' /\ TokenIsOfUser'
<1> DEFINE c == Close(stream, state)
<1>0. tokenCounter \in Nat /\ stream \in Stream /\ Timed(<<>>, stream)
  BY DEF IInv, TypeOK, TimerIsIdle, Timed
<1>1. c \in Stream /\ ~IsStarted(c) /\ ~c.idleTimer /\ ~c.handshakeComplete
  BY <1>0, Closed
<1>2. stream' = StartIfNeeded(c, pipeline)
  OBVIOUS
<1> HIDE DEF c
<1>3. stream' = StreamAfter(pipeline, <<>>, c)
  BY <1>1, <1>2 DEF StreamAfter, MarkIdle, IsStarted
<1>4. Timed(<<>>, c) /\ c.state # "Open" /\ ~CanSend(c)
  BY <1>1 DEF Timed, IsStarted, CanSend
<1>5. /\ stream' \in Stream /\ stream'.closeCount = c.closeCount
      /\ ~CanSend(stream')
      /\ Timed(pipeline, stream')
      /\ pipeline # <<>> => IsStarted(stream')
      /\ \/ stream'.requests = c.requests /\ stream'.state # "Starting"
         \/ /\ stream'.requests = c.requests \cup {NewRequest(c)}
            /\ stream'.state = "Starting"
  BY <1>0, <1>1, <1>3, <1>4, StreamFilled
<1>6. c = Close(stream, state)
  BY DEF c
<1>7. /\ OneToken' /\ TokenIsOfUser'
      /\ stream'.state = "Starting" => \E r \in stream'.requests : IsAsked(r)'
  BY <1>5, <1>6, TokensOfClosed
<1>8. Match(pipeline', stream', answers', wire')
  BY <1>5 DEF Match
<1> QED
  BY <1>5, <1>7, <1>8, StreamInv

LEMMA TasksType ==
    ASSUME IInv
    PROVE  /\ tasks \in Seq(Task) /\ Len(tasks) \in Nat /\ DOMAIN tasks = 1..Len(tasks)
           /\ \A i \in DOMAIN tasks :
                 /\ tasks[i] \in Task
                 /\ IsCredential(i) => tasks[i].user \in Users
                 /\ ~IsCredential(i) =>
                       /\ tasks[i].op = "token" /\ tasks[i].user \in Users \cup {Nil}
                       /\ tasks[i].closeCount \in Nat
<1>1. tasks \in Seq(Task)
  BY DEF IInv, TypeOK
<1>2. \A i \in DOMAIN tasks : tasks[i] \in Task
  BY <1>1, LenProperties, ElementOfSeq
<1> QED
  BY <1>1, <1>2, LenProperties DEF Task, IsCredential

\* The places of the tasks when the first has run.
LEMMA TaskTaken ==
    ASSUME IInv, NEW op, Run(op)
    PROVE  /\ tasks # <<>> /\ Head(tasks) = tasks[1] /\ 1 \in DOMAIN tasks
           /\ tasks[1].op = op /\ tasks' = Tail(tasks)
           /\ tasks' \in Seq(Task) /\ TasksLeft
           /\ \A i \in DOMAIN tasks' : i + 1 \in DOMAIN tasks /\ tasks'[i] = tasks[i + 1]
           /\ \A j \in DOMAIN tasks : j # 1 => j - 1 \in DOMAIN tasks' /\ tasks'[j - 1] = tasks[j]
<1>1. tasks # <<>> /\ tasks' = Tail(tasks) /\ Head(tasks).op = op
  BY DEF Run
<1>2. /\ tasks' \in Seq(Task) /\ Len(tasks') = Len(tasks) - 1
      /\ \A i \in 1..Len(tasks') : tasks'[i] = tasks[i + 1]
      /\ DOMAIN tasks' = 1..Len(tasks')
  BY <1>1, TasksType, HeadTailProperties, LenProperties
<1>3. Len(tasks) \in Nat \ {0} /\ DOMAIN tasks = 1..Len(tasks) /\ Head(tasks) = tasks[1]
  BY <1>1, TasksType
<1>4. \A i \in DOMAIN tasks' : i + 1 \in DOMAIN tasks /\ tasks'[i] = tasks[i + 1]
  BY <1>2, <1>3
<1>5. \A j \in DOMAIN tasks : j # 1 => j - 1 \in DOMAIN tasks' /\ tasks'[j - 1] = tasks[j]
  <2>1. SUFFICES ASSUME NEW j \in DOMAIN tasks, j # 1
                 PROVE  j - 1 \in DOMAIN tasks' /\ tasks'[j - 1] = tasks[j]
    OBVIOUS
  <2>2. j - 1 \in 1..Len(tasks') /\ (j - 1) + 1 = j
    BY <1>2, <1>3, <2>1
  <2> QED
    BY <1>2, <2>2
<1>6. tasks[1].op = op /\ 1 \in DOMAIN tasks
  <2>1. tasks[1].op = op
    BY <1>1, <1>3
  <2>2. 1 \in 1..Len(tasks)
    BY <1>3
  <2> QED
    BY <1>3, <2>1, <2>2
<1>7. TasksLeft
  BY <1>1 DEF TasksLeft
<1> QED
  BY <1>1, <1>2, <1>3, <1>4, <1>5, <1>6, <1>7

LEMMA TaskAppended ==
    ASSUME IInv, NEW task \in Task, tasks' = Append(tasks, task)
    PROVE  /\ tasks' \in Seq(Task) /\ DOMAIN tasks' = 1..(Len(tasks) + 1)
           /\ tasks'[Len(tasks) + 1] = task
           /\ \A i \in DOMAIN tasks : i \in DOMAIN tasks' /\ tasks'[i] = tasks[i]
           /\ \A i \in DOMAIN tasks' : i \in DOMAIN tasks \/ i = Len(tasks) + 1
<1>1. /\ tasks' \in Seq(Task) /\ Len(tasks') = Len(tasks) + 1
      /\ \A i \in 1..Len(tasks) : tasks'[i] = tasks[i]
      /\ tasks'[Len(tasks) + 1] = task
  BY TasksType, AppendProperties
<1>2. DOMAIN tasks' = 1..(Len(tasks) + 1) /\ DOMAIN tasks = 1..Len(tasks) /\ Len(tasks) \in Nat
  BY <1>1, TasksType, LenProperties
<1> QED
  BY <1>1, <1>2

LEMMA UserAfterTask ==
    ASSUME IInv, authUser' = authUser,
           \/ Run("credential") /\ user' = Head(tasks).user
           \/ Run("token") /\ user' = user
    PROVE  UserIsComing'
<1>1. PICK op : /\ Run(op)
               /\ \/ op = "credential" /\ user' = Head(tasks).user
                  \/ op = "token" /\ user' = user
  OBVIOUS
<1>2. /\ Head(tasks) = tasks[1] /\ 1 \in DOMAIN tasks /\ tasks[1].op = op
      /\ \A i \in DOMAIN tasks' : i + 1 \in DOMAIN tasks /\ tasks'[i] = tasks[i + 1]
      /\ \A j \in DOMAIN tasks : j # 1 => j - 1 \in DOMAIN tasks' /\ tasks'[j - 1] = tasks[j]
      /\ DOMAIN tasks \subseteq Int /\ DOMAIN tasks' \subseteq Int
      /\ \A j \in DOMAIN tasks : j >= 1
  BY <1>1, TaskTaken, TasksType, LenProperties
<1>3. ASSUME \A i \in DOMAIN tasks' : ~IsCredential(i)' PROVE authUser = user'
  <2>1. \A j \in DOMAIN tasks : j # 1 => ~IsCredential(j)
    BY <1>2, <1>3 DEF IsCredential
  <2>2. CASE op = "credential"
    <3>1. IsCredential(1) /\ \A j \in DOMAIN tasks : IsCredential(j) => j <= 1
      BY <1>2, <2>1, <2>2 DEF IsCredential
    <3> QED
      BY <1>1, <1>2, <2>2, <3>1 DEF IInv, UserIsComing
  <2>3. CASE op = "token"
    <3>1. \A j \in DOMAIN tasks : ~IsCredential(j)
      BY <1>2, <2>1, <2>3 DEF IsCredential
    <3> QED
      BY <1>1, <2>3, <3>1 DEF IInv, UserIsComing
  <2> QED
    BY <1>1, <2>2, <2>3
<1>4. ASSUME NEW i \in DOMAIN tasks', IsCredential(i)',
             \A j \in DOMAIN tasks' : IsCredential(j)' => j <= i
      PROVE  tasks'[i].user = authUser
  <2>1. i + 1 \in DOMAIN tasks /\ tasks'[i] = tasks[i + 1] /\ IsCredential(i + 1)
    BY <1>2, <1>4 DEF IsCredential
  <2>2. ASSUME NEW j \in DOMAIN tasks, IsCredential(j) PROVE j <= i + 1
    <3>1. CASE j = 1
      BY <1>2, <2>1, <3>1
    <3>2. CASE j # 1
      <4>1. j - 1 \in DOMAIN tasks' /\ IsCredential(j - 1)'
        BY <1>2, <2>2, <3>2 DEF IsCredential
      <4>2. j - 1 <= i
        BY <1>4, <4>1
      <4> QED
        BY <1>2, <4>2
    <3> QED
      BY <3>1, <3>2
  <2> QED
    BY <2>1, <2>2 DEF IInv, UserIsComing
<1> QED
  BY <1>3, <1>4 DEF UserIsComing

\* A batch leaves the queue, or joins it under the next id.
LEMMA BatchRemoved ==
    ASSUME NEW q, IsQueue(q), NEW id
    PROVE  /\ IsQueue(RemoveMutationBatch(q, id))
           /\ DOMAIN RemoveMutationBatch(q, id) = DOMAIN q \ {id}
           /\ \A x \in DOMAIN q \ {id} : RemoveMutationBatch(q, id)[x] = q[x]
<1>1. IsFiniteSet(DOMAIN q \ {id})
  BY FS_Subset DEF IsQueue
<1> QED
  BY <1>1 DEF RemoveMutationBatch, Restrict, IsQueue, Stored

LEMMA BatchAdded ==
    ASSUME IInv, NEW w \in Writes
    PROVE  LET q == AddMutationBatch(mutations[user], w)
           IN /\ IsQueue(q)
              /\ DOMAIN q = DOMAIN mutations[user] \cup {nextBatchId}
              /\ q[nextBatchId] = w
              /\ \A id \in DOMAIN mutations[user] : q[id] = mutations[user][id]
<1>1. nextBatchId \in Nat /\ user \in Users /\ IsQueue(mutations[user])
  BY QueuesFinite DEF IInv, TypeOK
<1>2. nextBatchId \notin DOMAIN mutations[user]
  BY <1>1 DEF IInv, IdsAreTaken
<1>3. IsFiniteSet(DOMAIN mutations[user] \cup {nextBatchId})
  BY <1>1, FS_AddElement DEF IsQueue
<1> QED
  BY <1>1, <1>2, <1>3 DEF AddMutationBatch, IsQueue, Stored

\* Ids that start over stay above the stored ones, and never overtake the writes.
LEMMA NextIdLoaded ==
    ASSUME IInv, NEW stored,
           \A u \in Users : DOMAIN stored[u] \subseteq DOMAIN mutations[u]
    PROVE  /\ LoadNextBatchId(stored) \in 1..(Len(owner) + 1)
           /\ \A u \in Users : \A id \in DOMAIN stored[u] : id < LoadNextBatchId(stored)
<1> DEFINE ids == {0} \cup UNION {DOMAIN stored[u] : u \in Users}
<1>1. nextBatchId \in 1..(Len(owner) + 1) /\ Len(owner) \in Nat
  BY LenProperties DEF IInv, IdsAreTaken, TypeOK
<1>2. ASSUME NEW u \in Users, NEW id \in DOMAIN stored[u] PROVE id \in 0..(nextBatchId - 1)
  <2>1. id \in DOMAIN mutations[u] /\ id \in Nat
    BY <1>2 DEF IInv, TypeOK, Stored
  <2>2. id < nextBatchId
    BY <2>1 DEF IInv, IdsAreTaken
  <2> QED
    BY <1>1, <2>1, <2>2
<1>3. ids \subseteq 0..(nextBatchId - 1)
  BY <1>1, <1>2
<1>4. IsFiniteSet(0..(nextBatchId - 1))
  BY <1>1, FS_Interval
<1>5. ids # {} /\ IsFiniteSet(ids) /\ ids \in SUBSET Nat
  <2>1. IsFiniteSet(ids)
    BY <1>3, <1>4, FS_Subset
  <2> QED
    BY <1>3, <2>1
<1>6. \A u \in Users : \A id \in DOMAIN stored[u] : id \in ids
  OBVIOUS
<1>7. LoadNextBatchId(stored) = 1 + Max(ids)
  BY DEF LoadNextBatchId
<1> HIDE DEF ids
<1>8. Max(ids) \in ids /\ \A id \in ids : id <= Max(ids)
  BY <1>5, MaxIsGreatest
<1>9. Max(ids) \in 0..(nextBatchId - 1)
  BY <1>3, <1>8
<1> QED
  BY <1>1, <1>2, <1>6, <1>7, <1>8, <1>9

\* Who made a write stays known.
LEMMA OwnerKept ==
    ASSUME IInv, owner' = owner \/ owner' = Append(owner, user), NEW w, NEW u, WrittenBy(w, u)
    PROVE  WrittenBy(w, u)'
<1>1. owner \in Seq(Users) /\ user \in Users /\ Len(owner) \in Nat /\ DOMAIN owner = 1..Len(owner)
  BY LenProperties DEF IInv, TypeOK
<1>2. CASE owner' = owner
  BY <1>2 DEF WrittenBy
<1>3. CASE owner' = Append(owner, user)
  <2>1. /\ Len(owner') = Len(owner) + 1 /\ owner' \in Seq(Users)
        /\ \A i \in 1..Len(owner) : owner'[i] = owner[i]
    BY <1>1, <1>3, AppendProperties
  <2>2. DOMAIN owner' = 1..(Len(owner) + 1)
    BY <2>1, LenProperties
  <2> QED
    BY <1>1, <2>1, <2>2 DEF WrittenBy
<1> QED
  BY <1>2, <1>3

-----------------------------------------------------------------------------
(* The steps                                                               *)

LEMMA InitInv == Init => IInv
<1> SUFFICES ASSUME Init PROVE IInv
  OBVIOUS
<1>1. DOMAIN NoBatches = {} /\ Stored(NoBatches)
  BY DEF NoBatches, Stored
<1>2. TypeOK
  <2>1. /\ tasks \in Seq(Task) /\ pipeline \in Seq(Batch) /\ wire \in Seq(Writes)
        /\ answers \in Seq(Answer) /\ owner \in Seq(Users) /\ Len(pipeline) = 0
    BY EmptySeq DEF Init
  <2>2. applied \in [Users -> Seq(Writes)] /\ told \in [Writes -> Seq({"ok", "failed"})]
    BY EmptySeq DEF Init
  <2>3. stream \in Stream
    BY DEF Init, Stream
  <2> QED
    BY <1>1, <2>1, <2>2, <2>3, WritesAssumption DEF Init, TypeOK
<1>3. Len(owner) = 0 /\ DOMAIN pipeline = {} /\ DOMAIN tasks = {} /\ \A u \in Users : DOMAIN applied[u] = {}
  BY DEF Init
<1>4. IdsAreTaken /\ CallbacksBelong /\ OwnersKnown
  BY <1>1, <1>3 DEF Init, IdsAreTaken, CallbacksBelong, OwnersKnown
<1>5. AnswersMatchPipeline /\ PipelineIsServed /\ TimerIsIdle
  BY DEF Init, AnswersMatchPipeline, PipelineIsServed, TimerIsIdle, CanSend
<1>6. OneToken /\ UserIsComing /\ TokenIsOfUser /\ StreamOfUser
  BY <1>3 DEF Init, OneToken, UserIsComing, TokenIsOfUser, StreamOfUser
<1> QED
  BY <1>2, <1>4, <1>5, <1>6 DEF IInv

LEMMA ConcatTail ==
    ASSUME NEW S, NEW a \in Seq(S), NEW b \in Seq(S), a # <<>>
    PROVE  /\ a \o b # <<>> /\ a \o b \in Seq(S)
           /\ Tail(a \o b) = Tail(a) \o b
           /\ Head(a \o b) = Head(a)
<1>1. Len(a) \in Nat \ {0} /\ Len(b) \in Nat
  BY LenProperties, EmptySeq
<1>2. /\ a \o b \in Seq(S) /\ Len(a \o b) = Len(a) + Len(b)
      /\ \A i \in 1..(Len(a) + Len(b)) : (a \o b)[i] = IF i <= Len(a) THEN a[i] ELSE b[i - Len(a)]
  BY ConcatProperties
<1>3. /\ Tail(a) \in Seq(S) /\ Len(Tail(a)) = Len(a) - 1 /\ Head(a) = a[1]
      /\ \A i \in 1..(Len(a) - 1) : Tail(a)[i] = a[i + 1]
  BY HeadTailProperties
<1>4. /\ Tail(a) \o b \in Seq(S) /\ Len(Tail(a) \o b) = Len(a) - 1 + Len(b)
      /\ \A i \in 1..(Len(a) - 1 + Len(b)) :
            (Tail(a) \o b)[i] = IF i <= Len(a) - 1 THEN Tail(a)[i] ELSE b[i - (Len(a) - 1)]
  <2> DEFINE t == Tail(a)
  <2> HIDE DEF t
  <2>1. t \in Seq(S) /\ Len(t) = Len(a) - 1
    BY <1>3 DEF t
  <2>2. /\ t \o b \in Seq(S) /\ Len(t \o b) = Len(t) + Len(b)
        /\ \A i \in 1..(Len(t) + Len(b)) : (t \o b)[i] = IF i <= Len(t) THEN t[i] ELSE b[i - Len(t)]
    BY <2>1, ConcatProperties
  <2> QED
    BY <2>1, <2>2 DEF t
<1> DEFINE all == a \o b
           rest == Tail(a) \o b
<1> HIDE DEF all, rest
<1>5. all \in Seq(S) /\ Len(all) = Len(a) + Len(b) /\ all # <<>>
  BY <1>1, <1>2 DEF all
<1>6. /\ Tail(all) \in Seq(S) /\ Len(Tail(all)) = Len(a) + Len(b) - 1 /\ Head(all) = all[1]
      /\ \A i \in 1..(Len(a) + Len(b) - 1) : Tail(all)[i] = all[i + 1]
  BY <1>5, HeadTailProperties
<1>7. ASSUME NEW i \in 1..(Len(a) + Len(b) - 1) PROVE Tail(all)[i] = rest[i]
  <2>1. i + 1 \in 1..(Len(a) + Len(b)) /\ (i + 1) - Len(a) = i - (Len(a) - 1)
    BY <1>1
  <2>2. all[i + 1] = IF i + 1 <= Len(a) THEN a[i + 1] ELSE b[(i + 1) - Len(a)]
    BY <1>2, <2>1 DEF all
  <2>3. rest[i] = IF i <= Len(a) - 1 THEN Tail(a)[i] ELSE b[i - (Len(a) - 1)]
    BY <1>1, <1>4 DEF rest
  <2>4. CASE i <= Len(a) - 1
    BY <1>1, <1>3, <1>6, <2>2, <2>3, <2>4
  <2>5. CASE ~(i <= Len(a) - 1)
    BY <1>1, <1>6, <2>1, <2>2, <2>3, <2>5
  <2> QED
    BY <2>4, <2>5
<1>8. Tail(all) = rest
  <2>1. rest \in Seq(S) /\ Len(rest) = Len(a) + Len(b) - 1
    BY <1>1, <1>4 DEF rest
  <2> QED
    BY <1>6, <1>7, <2>1, SeqEqual
<1>9. Head(all) = Head(a)
  BY <1>1, <1>2, <1>3, <1>6 DEF all
<1> QED
  BY <1>5, <1>8, <1>9 DEF all, rest

WritesOf(ans) == [i \in DOMAIN ans |-> ans[i].write]

LEMMA WritesOfType ==
    ASSUME NEW ans \in Seq(Answer)
    PROVE  /\ WritesOf(ans) \in Seq(Writes) /\ Len(WritesOf(ans)) = Len(ans)
           /\ \A i \in 1..Len(ans) : WritesOf(ans)[i] = ans[i].write
  BY AnswersType, LenProperties DEF WritesOf

LEMMA WritesOfTail ==
    ASSUME NEW ans \in Seq(Answer), ans # <<>>
    PROVE  WritesOf(ans) # <<>> /\ WritesOf(Tail(ans)) = Tail(WritesOf(ans))
<1>1. /\ Tail(ans) \in Seq(Answer) /\ Len(Tail(ans)) = Len(ans) - 1 /\ Len(ans) \in Nat \ {0}
      /\ \A i \in 1..(Len(ans) - 1) : Tail(ans)[i] = ans[i + 1]
  BY HeadTailProperties, LenProperties, EmptySeq
<1>2. /\ WritesOf(ans) \in Seq(Writes) /\ Len(WritesOf(ans)) = Len(ans)
      /\ \A i \in 1..Len(ans) : WritesOf(ans)[i] = ans[i].write
  BY WritesOfType
<1>3. /\ WritesOf(Tail(ans)) \in Seq(Writes) /\ Len(WritesOf(Tail(ans))) = Len(ans) - 1
      /\ \A i \in 1..(Len(ans) - 1) : WritesOf(Tail(ans))[i] = Tail(ans)[i].write
  BY <1>1, WritesOfType
<1>4. WritesOf(ans) # <<>>
  BY <1>1, <1>2
<1>5. /\ Tail(WritesOf(ans)) \in Seq(Writes) /\ Len(Tail(WritesOf(ans))) = Len(ans) - 1
      /\ \A i \in 1..(Len(ans) - 1) : Tail(WritesOf(ans))[i] = WritesOf(ans)[i + 1]
  BY <1>2, <1>4, HeadTailProperties
<1>6. ASSUME NEW i \in 1..(Len(ans) - 1) PROVE WritesOf(Tail(ans))[i] = Tail(WritesOf(ans))[i]
  <2>1. i + 1 \in 1..Len(ans)
    <3>1. Len(ans) \in Nat
      BY <1>1
    <3> QED
      BY <3>1
  <2> QED
    BY <1>1, <1>2, <1>3, <1>5, <2>1
<1> QED
  BY <1>3, <1>4, <1>5, <1>6, SeqEqual

LEMMA WritesOfAppend ==
    ASSUME NEW ans \in Seq(Answer), NEW a \in Answer
    PROVE  WritesOf(Append(ans, a)) = Append(WritesOf(ans), a.write)
<1>0. Len(ans) \in Nat
  BY LenProperties
<1>1. /\ Append(ans, a) \in Seq(Answer) /\ Len(Append(ans, a)) = Len(ans) + 1
      /\ \A i \in 1..Len(ans) : Append(ans, a)[i] = ans[i]
      /\ Append(ans, a)[Len(ans) + 1] = a
  BY AppendProperties
<1>2. /\ WritesOf(ans) \in Seq(Writes) /\ Len(WritesOf(ans)) = Len(ans)
      /\ \A i \in 1..Len(ans) : WritesOf(ans)[i] = ans[i].write
  BY WritesOfType
<1>3. a.write \in Writes
  BY DEF Answer
<1> DEFINE more == Append(ans, a)
           all == Append(WritesOf(ans), a.write)
<1> HIDE DEF more, all
<1>4. /\ WritesOf(more) \in Seq(Writes) /\ Len(WritesOf(more)) = Len(ans) + 1
      /\ \A i \in 1..(Len(ans) + 1) : WritesOf(more)[i] = more[i].write
  <2>1. more \in Seq(Answer) /\ Len(more) = Len(ans) + 1
    BY <1>1 DEF more
  <2> QED
    BY <2>1, WritesOfType
<1>5. /\ all \in Seq(Writes) /\ Len(all) = Len(ans) + 1
      /\ \A i \in 1..Len(ans) : all[i] = WritesOf(ans)[i]
      /\ all[Len(ans) + 1] = a.write
  <2> DEFINE ws == WritesOf(ans)
             w == a.write
  <2> HIDE DEF ws, w
  <2>1. ws \in Seq(Writes) /\ Len(ws) = Len(ans) /\ w \in Writes
    BY <1>2, <1>3 DEF ws, w
  <2>2. /\ Append(ws, w) \in Seq(Writes) /\ Len(Append(ws, w)) = Len(ws) + 1
        /\ \A i \in 1..Len(ws) : Append(ws, w)[i] = ws[i]
        /\ Append(ws, w)[Len(ws) + 1] = w
    BY <2>1, AppendProperties
  <2> QED
    BY <2>1, <2>2 DEF ws, w, all
<1>6. ASSUME NEW i \in 1..(Len(ans) + 1) PROVE WritesOf(more)[i] = all[i]
  <2>1. CASE i = Len(ans) + 1
    BY <1>1, <1>4, <1>5, <2>1 DEF more
  <2>2. CASE i # Len(ans) + 1
    <3>1. i \in 1..Len(ans)
      BY <1>0, <2>2
    <3> QED
      BY <1>1, <1>2, <1>4, <1>5, <3>1 DEF more
  <2> QED
    BY <2>1, <2>2
<1>7. WritesOf(more) = all
  BY <1>4, <1>5, <1>6, SeqEqual
<1> QED
  BY <1>7 DEF more, all

\* An answer is for the front of the pipeline, which is not empty.
LEMMA AnswerTaken ==
    ASSUME IInv, answers # <<>>
    PROVE  /\ CanSend(stream) /\ pipeline # <<>>
           /\ Tail(pipeline) \in Seq(Batch) /\ Len(Tail(pipeline)) <= MaxPendingWrites
           /\ Tail(answers) \in Seq(Answer)
           /\ Match(Tail(pipeline), stream, Tail(answers), wire)
           /\ \A i \in DOMAIN Tail(pipeline) : WrittenBy(Tail(pipeline)[i].write, user)
<1>1. CanSend(stream) /\ Mutations(pipeline) = WritesOf(answers) \o wire
  BY MatchesNow DEF Match, WritesOf
<1>2. answers \in Seq(Answer) /\ wire \in Seq(Writes) /\ pipeline \in Seq(Batch)
      /\ Len(pipeline) <= MaxPendingWrites
  BY DEF IInv, TypeOK
<1>3. /\ WritesOf(answers) \in Seq(Writes) /\ WritesOf(answers) # <<>>
      /\ WritesOf(Tail(answers)) = Tail(WritesOf(answers))
  BY <1>2, WritesOfType, WritesOfTail
<1> DEFINE ws == WritesOf(answers)
<1> HIDE DEF ws
<1>4. ws \o wire # <<>> /\ Tail(ws \o wire) = Tail(ws) \o wire
  BY <1>2, <1>3, ConcatTail DEF ws
<1>5. pipeline # <<>>
  <2>1. Len(Mutations(pipeline)) = Len(pipeline) /\ Mutations(pipeline) \in Seq(Writes)
    BY <1>2, MutationsType
  <2>2. Mutations(pipeline) # <<>>
    BY <1>1, <1>4 DEF ws
  <2>3. Len(Mutations(pipeline)) # 0
    BY <2>1, <2>2, EmptySeq
  <2> QED
    BY <2>1, <2>3
<1>6. Mutations(Tail(pipeline)) = WritesOf(Tail(answers)) \o wire
  BY <1>1, <1>2, <1>3, <1>4, <1>5, MutationsTail DEF ws
<1>7. /\ Tail(pipeline) \in Seq(Batch) /\ Len(Tail(pipeline)) = Len(pipeline) - 1
      /\ Len(pipeline) \in Nat /\ DOMAIN pipeline = 1..Len(pipeline)
      /\ DOMAIN Tail(pipeline) = 1..Len(Tail(pipeline))
      /\ \A i \in 1..(Len(pipeline) - 1) : Tail(pipeline)[i] = pipeline[i + 1]
  BY <1>2, <1>5, HeadTailProperties, LenProperties
<1>8. ASSUME NEW i \in DOMAIN Tail(pipeline) PROVE WrittenBy(Tail(pipeline)[i].write, user)
  <2>1. i + 1 \in DOMAIN pipeline /\ Tail(pipeline)[i] = pipeline[i + 1]
    BY <1>7
  <2> QED
    BY <2>1 DEF IInv, OwnersKnown
<1>9. Tail(answers) \in Seq(Answer)
  BY <1>2, HeadTailProperties
<1>10. Len(Tail(pipeline)) <= MaxPendingWrites
  BY <1>2, <1>7, WritesAssumption
<1> QED
  BY <1>1, <1>5, <1>6, <1>7, <1>8, <1>9, <1>10 DEF Match, WritesOf

\* The completion of a batch is told, and the batch leaves the queue.
LEMMA Settled ==
    ASSUME IInv, NEW outcome \in {"ok", "failed"}, NEW id, NotifyUser(id, outcome),
           mutations' = [mutations EXCEPT ![user] = RemoveMutationBatch(mutations[user], id)],
           nextBatchId' = nextBatchId, owner' = owner
    PROVE  /\ told' \in [Writes -> Seq({"ok", "failed"})]
           /\ DOMAIN mutations' = Users /\ \A u \in Users : Stored(mutations'[u])
           /\ DOMAIN callbacks' = Users /\ \A u \in Users : Stored(callbacks'[u])
           /\ CallbacksBelong' /\ IdsAreTaken'
           /\ \A u \in Users : \A x \in DOMAIN mutations'[u] :
                 x \in DOMAIN mutations[u] /\ mutations'[u][x] = mutations[u][x]
<1>1. /\ DOMAIN mutations = Users /\ DOMAIN callbacks = Users /\ user \in Users
      /\ \A u \in Users : Stored(mutations[u]) /\ Stored(callbacks[u])
      /\ told \in [Writes -> Seq({"ok", "failed"})]
  BY DEF IInv, TypeOK
<1>2. /\ callbacks' = [callbacks EXCEPT ![user] = RemoveMutationBatch(callbacks[user], id)]
      /\ told' = IF id \in DOMAIN callbacks[user]
                 THEN [told EXCEPT ![callbacks[user][id]] = Append(told[callbacks[user][id]], outcome)]
                 ELSE told
  BY DEF NotifyUser
<1>3. told' \in [Writes -> Seq({"ok", "failed"})]
  <2>1. CASE id \in DOMAIN callbacks[user]
    <3> DEFINE w == callbacks[user][id]
    <3>1. w \in Writes
      BY <1>1, <2>1 DEF Stored
    <3> HIDE DEF w
    <3>2. Append(told[w], outcome) \in Seq({"ok", "failed"})
      BY <1>1, <3>1, AppendProperties
    <3>3. told' = [told EXCEPT ![w] = Append(told[w], outcome)]
      BY <1>2, <2>1 DEF w
    <3> QED
      BY <1>1, <3>1, <3>2, <3>3
  <2> QED
    BY <1>1, <1>2, <2>1
<1>4. ASSUME NEW u \in Users
      PROVE  /\ DOMAIN mutations'[u] = IF u = user THEN DOMAIN mutations[u] \ {id} ELSE DOMAIN mutations[u]
             /\ \A x \in DOMAIN mutations'[u] : mutations'[u][x] = mutations[u][x]
             /\ DOMAIN callbacks'[u] = IF u = user THEN DOMAIN callbacks[u] \ {id} ELSE DOMAIN callbacks[u]
             /\ \A x \in DOMAIN callbacks'[u] : callbacks'[u][x] = callbacks[u][x]
  BY <1>1, <1>2 DEF RemoveMutationBatch, Restrict
<1>5. DOMAIN mutations' = Users /\ DOMAIN callbacks' = Users
  BY <1>1, <1>2
<1>6. \A u \in Users : Stored(mutations'[u]) /\ Stored(callbacks'[u])
  <2>1. ASSUME NEW u \in Users
        PROVE  /\ DOMAIN mutations'[u] \subseteq DOMAIN mutations[u]
               /\ DOMAIN callbacks'[u] \subseteq DOMAIN callbacks[u]
    BY <1>4
  <2> QED
    BY <1>1, <1>4, <2>1 DEF Stored
<1>7. CallbacksBelong'
  <2>1. SUFFICES ASSUME NEW u \in Users, NEW x \in DOMAIN callbacks'[u]
                 PROVE  x \in DOMAIN mutations'[u] /\ mutations'[u][x] = callbacks'[u][x]
    BY DEF CallbacksBelong
  <2>2. x \in DOMAIN callbacks[u] /\ callbacks'[u][x] = callbacks[u][x]
        /\ (u = user => x # id)
    <3>1. DOMAIN callbacks'[u] \subseteq DOMAIN callbacks[u]
          /\ (u = user => id \notin DOMAIN callbacks'[u])
      BY <1>4
    <3>2. callbacks'[u][x] = callbacks[u][x]
      BY <1>4, <2>1
    <3> QED
      BY <2>1, <3>1, <3>2
  <2>3. x \in DOMAIN mutations[u] /\ mutations[u][x] = callbacks[u][x]
    BY <2>2 DEF IInv, CallbacksBelong
  <2>4. x \in DOMAIN mutations'[u]
    BY <1>4, <2>2, <2>3
  <2>5. mutations'[u][x] = mutations[u][x]
    BY <1>4, <2>4
  <2> QED
    BY <2>2, <2>3, <2>4, <2>5
<1>8. IdsAreTaken'
  BY <1>4 DEF IInv, IdsAreTaken
<1> QED
  BY <1>3, <1>4, <1>5, <1>6, <1>7, <1>8

LEMMA WriteMutationsInv ==
    ASSUME IInv, WriteMutations
    PROVE  IInv'
<1> DEFINE w == Len(owner) + 1
           q == AddMutationBatch(mutations[user], w)
<1>1. /\ w \in Writes /\ user \in Users /\ nextBatchId \in 1..w
      /\ owner \in Seq(Users) /\ DOMAIN owner = 1..Len(owner) /\ Len(owner) \in Nat
  <2>1. owner \in Seq(Users) /\ Len(owner) \in Nat /\ DOMAIN owner = 1..Len(owner)
    BY LenProperties DEF IInv, TypeOK
  <2>2. w \in Writes
    BY <2>1, WritesAssumption DEF WriteMutations, Writes
  <2> QED
    BY <2>1, <2>2 DEF IInv, TypeOK, IdsAreTaken
<1>2. /\ mutations' = [mutations EXCEPT ![user] = q]
      /\ nextBatchId' = nextBatchId + 1
      /\ callbacks' = [callbacks EXCEPT ![user] = AddMutationCallback(callbacks[user], w)]
      /\ owner' = Append(owner, user)
      /\ FillWritePipeline(q, pipeline, stream, wire)
      /\ authUser' = authUser /\ tokenCounter' = tokenCounter /\ tasks' = tasks
      /\ user' = user /\ answers' = answers /\ streamUser' = streamUser
      /\ applied' = applied /\ refused' = refused /\ told' = told /\ disruptions' = disruptions
  BY DEF WriteMutations, provider
<1>3. /\ IsQueue(q) /\ DOMAIN q = DOMAIN mutations[user] \cup {nextBatchId}
      /\ q[nextBatchId] = w
      /\ \A id \in DOMAIN mutations[user] : q[id] = mutations[user][id]
  BY <1>1, BatchAdded
<1> HIDE DEF q
<1>4. /\ pipeline' \in Seq(Batch) /\ Len(pipeline') <= MaxPendingWrites
      /\ \A i \in DOMAIN pipeline' :
            \/ i \in DOMAIN pipeline /\ pipeline'[i] = pipeline[i]
            \/ \E id \in DOMAIN q : pipeline'[i].write = q[id]
      /\ wire' \in Seq(Writes) /\ stream' \in Stream
      /\ AnswersMatchPipeline' /\ PipelineIsServed' /\ TimerIsIdle'
      /\ OneToken' /\ TokenIsOfUser'
  <2>1. /\ pipeline \in Seq(Batch) /\ Len(pipeline) <= MaxPendingWrites /\ stream \in Stream
        /\ wire \in Seq(Writes) /\ answers' \in Seq(Answer)
    BY <1>2 DEF IInv, TypeOK
  <2>2. Match(pipeline, stream, answers', wire) /\ Timed(pipeline, stream)
    BY <1>2, MatchesNow, TimedNow
  <2>3. DOMAIN q # {}
    BY <1>3
  <2> QED
    BY <1>2, <1>3, <2>1, <2>2, <2>3, FilledInv
<1>5. /\ DOMAIN mutations = Users /\ DOMAIN callbacks = Users
      /\ \A u \in Users : Stored(mutations[u]) /\ Stored(callbacks[u])
      /\ \A u \in Users : \A id \in DOMAIN mutations[u] : id < nextBatchId
  BY DEF IInv, TypeOK, IdsAreTaken
<1>6. /\ DOMAIN mutations' = Users /\ mutations'[user] = q
      /\ \A u \in Users : u # user => mutations'[u] = mutations[u]
      /\ DOMAIN callbacks' = Users
      /\ callbacks'[user] = AddMutationCallback(callbacks[user], w)
      /\ \A u \in Users : u # user => callbacks'[u] = callbacks[u]
  BY <1>1, <1>2, <1>5
<1>7. /\ DOMAIN callbacks'[user] = DOMAIN callbacks[user] \cup {nextBatchId}
      /\ callbacks'[user][nextBatchId] = w
      /\ \A id \in DOMAIN callbacks[user] : callbacks'[user][id] = callbacks[user][id]
  <2>1. nextBatchId \notin DOMAIN callbacks[user]
    <3>1. nextBatchId \notin DOMAIN mutations[user]
      BY <1>1, <1>5
    <3> QED
      BY <1>1, <3>1 DEF IInv, CallbacksBelong
  <2> QED
    BY <1>6, <2>1 DEF AddMutationCallback
<1>8. \A u \in Users : Stored(mutations'[u]) /\ Stored(callbacks'[u])
  <2>1. Stored(mutations'[user])
    BY <1>3, <1>6 DEF IsQueue
  <2>2. Stored(callbacks'[user])
    BY <1>1, <1>5, <1>7 DEF Stored
  <2> QED
    BY <1>5, <1>6, <2>1, <2>2
<1>9. /\ owner' \in Seq(Users) /\ Len(owner') = Len(owner) + 1
      /\ DOMAIN owner' = 1..(Len(owner) + 1) /\ owner'[Len(owner) + 1] = user
  <2>1. owner' \in Seq(Users) /\ Len(owner') = Len(owner) + 1 /\ owner'[Len(owner) + 1] = user
    BY <1>1, <1>2, AppendProperties
  <2> QED
    BY <2>1, LenProperties
<1>10. TypeOK'
  <2>1. nextBatchId' \in Nat
    BY <1>1, <1>2
  <2> QED
    BY <1>2, <1>4, <1>6, <1>8, <1>9, <2>1 DEF IInv, TypeOK
<1>11. IdsAreTaken'
  <2>1. nextBatchId' \in 1..(Len(owner') + 1)
    BY <1>1, <1>2, <1>9
  <2>2. ASSUME NEW u \in Users, NEW id \in DOMAIN mutations'[u] PROVE id < nextBatchId'
    <3>1. id \in DOMAIN mutations[u] \/ id = nextBatchId
      BY <1>3, <1>6, <2>2
    <3>2. id \in DOMAIN mutations[u] => id < nextBatchId /\ id \in Nat
      BY <1>5 DEF Stored
    <3> QED
      BY <1>1, <1>2, <3>1, <3>2
  <2> QED
    BY <2>1, <2>2 DEF IdsAreTaken
<1>12. CallbacksBelong'
  <2>1. SUFFICES ASSUME NEW u \in Users, NEW id \in DOMAIN callbacks'[u]
                 PROVE  id \in DOMAIN mutations'[u] /\ mutations'[u][id] = callbacks'[u][id]
    BY DEF CallbacksBelong
  <2>2. CASE u = user /\ id = nextBatchId
    BY <1>3, <1>6, <1>7, <2>2
  <2>3. CASE u = user /\ id # nextBatchId
    BY <1>3, <1>6, <1>7, <2>1, <2>3 DEF IInv, CallbacksBelong
  <2>4. CASE u # user
    BY <1>6, <2>1, <2>4 DEF IInv, CallbacksBelong
  <2> QED
    BY <2>2, <2>3, <2>4
<1>13. OwnersKnown'
  <2>1. \A x, u : WrittenBy(x, u) => x \in DOMAIN owner' /\ owner'[x] = u
    BY <1>2, OwnerKept DEF WrittenBy
  <2>2. w \in DOMAIN owner' /\ owner'[w] = user
    BY <1>1, <1>9
  <2>3. ASSUME NEW u \in Users, NEW id \in DOMAIN mutations'[u]
        PROVE  mutations'[u][id] \in DOMAIN owner' /\ owner'[mutations'[u][id]] = u
    <3>1. CASE u = user /\ id = nextBatchId
      BY <1>3, <1>6, <2>2, <3>1
    <3>2. CASE u = user /\ id # nextBatchId
      BY <1>3, <1>6, <2>1, <2>3, <3>2 DEF IInv, OwnersKnown
    <3>3. CASE u # user
      BY <1>6, <2>1, <2>3, <3>3 DEF IInv, OwnersKnown
    <3> QED
      BY <3>1, <3>2, <3>3
  <2>4. ASSUME NEW i \in DOMAIN pipeline'
        PROVE  pipeline'[i].write \in DOMAIN owner' /\ owner'[pipeline'[i].write] = user'
    <3>1. CASE i \in DOMAIN pipeline /\ pipeline'[i] = pipeline[i]
      BY <1>2, <2>1, <3>1 DEF IInv, OwnersKnown
    <3>2. CASE \E id \in DOMAIN q : pipeline'[i].write = q[id]
      BY <1>1, <1>2, <1>6, <2>3, <3>2
    <3> QED
      BY <1>4, <3>1, <3>2
  <2>5. ASSUME NEW u \in Users, NEW i \in DOMAIN applied'[u]
        PROVE  applied'[u][i] \in DOMAIN owner' /\ owner'[applied'[u][i]] = u
    BY <1>2, <2>1, <2>5 DEF IInv, OwnersKnown
  <2> QED
    BY <2>3, <2>4, <2>5 DEF OwnersKnown, WrittenBy
<1>14. UserIsComing' /\ StreamOfUser'
  BY <1>2 DEF IInv, UserIsComing, StreamOfUser, IsCredential
<1> QED
  BY <1>4, <1>10, <1>11, <1>12, <1>13, <1>14 DEF IInv

LEMMA OnMutationResultInv ==
    ASSUME IInv, OnMutationResult
    PROVE  IInv'
<1> DEFINE id == Head(pipeline).id
           q == RemoveMutationBatch(mutations[user], id)
<1>1. /\ answers # <<>> /\ answers' = Tail(answers)
      /\ NotifyUser(id, "ok")
      /\ mutations' = [mutations EXCEPT ![user] = q]
      /\ FillWritePipeline(q, Tail(pipeline), stream, wire)
      /\ authUser' = authUser /\ tokenCounter' = tokenCounter /\ tasks' = tasks
      /\ user' = user /\ nextBatchId' = nextBatchId /\ streamUser' = streamUser
      /\ applied' = applied /\ refused' = refused /\ owner' = owner /\ disruptions' = disruptions
  BY DEF OnMutationResult, provider
<1>2. /\ user \in Users /\ DOMAIN mutations = Users /\ IsQueue(mutations[user])
      /\ stream \in Stream /\ wire \in Seq(Writes)
  BY QueuesFinite DEF IInv, TypeOK
<1>3. /\ IsQueue(q) /\ DOMAIN q \subseteq DOMAIN mutations[user]
      /\ \A x \in DOMAIN q : q[x] = mutations[user][x]
  <2> HIDE DEF id
  <2>1. /\ IsQueue(q) /\ DOMAIN q = DOMAIN mutations[user] \ {id}
        /\ \A x \in DOMAIN mutations[user] \ {id} : q[x] = mutations[user][x]
    BY <1>2, BatchRemoved
  <2> HIDE DEF q
  <2> QED
    BY <2>1
<1>4. /\ told' \in [Writes -> Seq({"ok", "failed"})]
      /\ DOMAIN mutations' = Users /\ \A u \in Users : Stored(mutations'[u])
      /\ DOMAIN callbacks' = Users /\ \A u \in Users : Stored(callbacks'[u])
      /\ CallbacksBelong' /\ IdsAreTaken'
      /\ \A u \in Users : \A x \in DOMAIN mutations'[u] :
            x \in DOMAIN mutations[u] /\ mutations'[u][x] = mutations[u][x]
  BY <1>1, Settled
<1> HIDE DEF q
<1>5. /\ CanSend(stream) /\ pipeline # <<>>
      /\ Tail(pipeline) \in Seq(Batch) /\ Len(Tail(pipeline)) <= MaxPendingWrites
      /\ Tail(answers) \in Seq(Answer)
      /\ Match(Tail(pipeline), stream, Tail(answers), wire)
      /\ \A i \in DOMAIN Tail(pipeline) : WrittenBy(Tail(pipeline)[i].write, user)
  BY <1>1, AnswerTaken
<1> DEFINE p == Tail(pipeline)
<1> HIDE DEF p
<1>6. /\ pipeline' \in Seq(Batch) /\ Len(pipeline') <= MaxPendingWrites
      /\ \A i \in DOMAIN pipeline' :
            \/ i \in DOMAIN p /\ pipeline'[i] = p[i]
            \/ \E x \in DOMAIN q : pipeline'[i].write = q[x]
      /\ wire' \in Seq(Writes) /\ stream' \in Stream
      /\ AnswersMatchPipeline' /\ PipelineIsServed' /\ TimerIsIdle'
      /\ OneToken' /\ TokenIsOfUser'
  <2>1. Timed(p, stream)
    BY <1>5, TimedNow DEF Timed
  <2>2. stream.handshakeComplete
    BY <1>5 DEF CanSend
  <2>3. /\ p \in Seq(Batch) /\ Len(p) <= MaxPendingWrites /\ answers' \in Seq(Answer)
        /\ Match(p, stream, answers', wire) /\ FillWritePipeline(q, p, stream, wire)
    BY <1>1, <1>5 DEF p
  <2> QED
    BY <1>1, <1>2, <1>3, <2>1, <2>2, <2>3, FilledInv
<1>7. TypeOK'
  BY <1>1, <1>4, <1>5, <1>6 DEF IInv, TypeOK
<1>8. OwnersKnown'
  <2>1. ASSUME NEW u \in Users, NEW x \in DOMAIN mutations'[u]
        PROVE  mutations'[u][x] \in DOMAIN owner /\ owner[mutations'[u][x]] = u
    BY <1>4, <2>1 DEF IInv, OwnersKnown, WrittenBy
  <2>2. ASSUME NEW i \in DOMAIN pipeline'
        PROVE  pipeline'[i].write \in DOMAIN owner /\ owner[pipeline'[i].write] = user
    <3>1. CASE i \in DOMAIN p /\ pipeline'[i] = p[i]
      BY <1>5, <3>1 DEF p, WrittenBy
    <3>2. CASE \E x \in DOMAIN q : pipeline'[i].write = q[x]
      BY <1>2, <1>3, <3>2 DEF IInv, OwnersKnown, WrittenBy
    <3> QED
      BY <1>6, <3>1, <3>2
  <2> QED
    BY <1>1, <2>1, <2>2 DEF IInv, OwnersKnown, WrittenBy
<1>9. UserIsComing' /\ StreamOfUser'
  BY <1>1 DEF IInv, UserIsComing, StreamOfUser, IsCredential
<1> QED
  BY <1>4, <1>6, <1>7, <1>8, <1>9 DEF IInv

\* What OnStreamFinish, ConnectionLost and IdleTimeout leave alone.
LEMMA ClosedInv ==
    ASSUME IInv, NEW state \in {"Initial", "Error"}, Disconnect, wire' = <<>>,
           stream' = StartIfNeeded(Close(stream, state), pipeline),
           UNCHANGED <<mutations, callbacks, pipeline, told, provider, tasks, user,
                       nextBatchId, refused, owner>>,
           disruptions' \in 0..MaxDisruptions
    PROVE  IInv'
<1>1. /\ mutations' = mutations /\ callbacks' = callbacks /\ pipeline' = pipeline
      /\ told' = told /\ authUser' = authUser /\ tokenCounter' = tokenCounter
      /\ tasks' = tasks /\ user' = user /\ nextBatchId' = nextBatchId
      /\ refused' = refused /\ owner' = owner
  BY DEF provider
<1>2. /\ answers' = <<>> /\ streamUser' = Nil
      /\ applied' \in [Users -> Seq(Writes)]
      /\ \A u \in Users : \A i \in DOMAIN applied'[u] : WrittenBy(applied'[u][i], u)
  BY Disconnected
<1>3. /\ stream' \in Stream
      /\ AnswersMatchPipeline' /\ PipelineIsServed' /\ TimerIsIdle'
      /\ OneToken' /\ TokenIsOfUser'
  <2>1. TasksLeft
    BY <1>1 DEF TasksLeft
  <2> QED
    BY <1>1, <1>2, <2>1, RestartedInv
<1>4. TypeOK'
  <2>1. wire' \in Seq(Writes) /\ answers' \in Seq(Answer)
    BY <1>2, EmptySeq
  <2> QED
    BY <1>1, <1>2, <1>3, <2>1 DEF IInv, TypeOK
<1>5. IdsAreTaken' /\ CallbacksBelong'
  BY <1>1 DEF IInv, IdsAreTaken, CallbacksBelong
<1>6. OwnersKnown'
  BY <1>1, <1>2 DEF IInv, OwnersKnown, WrittenBy
<1>7. UserIsComing' /\ StreamOfUser'
  BY <1>1, <1>2 DEF IInv, UserIsComing, StreamOfUser, IsCredential
<1> QED
  BY <1>3, <1>4, <1>5, <1>6, <1>7 DEF IInv

LEMMA CloseAndRejectInv ==
    ASSUME IInv, answers # <<>>, CloseAndReject,
           UNCHANGED <<provider, tasks, user, nextBatchId, refused, owner, disruptions>>
    PROVE  IInv'
<1> DEFINE id == Head(pipeline).id
           q == RemoveMutationBatch(mutations[user], id)
           p == Tail(pipeline)
           c == Close(stream, "Initial")
<1>1. /\ NotifyUser(id, "failed") /\ Disconnect
      /\ mutations' = [mutations EXCEPT ![user] = q]
      /\ FillWritePipeline(q, p, c, <<>>)
      /\ authUser' = authUser /\ tokenCounter' = tokenCounter /\ tasks' = tasks
      /\ user' = user /\ nextBatchId' = nextBatchId
      /\ refused' = refused /\ owner' = owner /\ disruptions' = disruptions
  BY DEF CloseAndReject, provider
<1>2. /\ user \in Users /\ DOMAIN mutations = Users /\ IsQueue(mutations[user])
      /\ stream \in Stream /\ Timed(<<>>, stream)
  BY QueuesFinite DEF IInv, TypeOK, TimerIsIdle, Timed
<1>3. /\ IsQueue(q) /\ DOMAIN q \subseteq DOMAIN mutations[user]
      /\ \A x \in DOMAIN q : q[x] = mutations[user][x]
  <2> HIDE DEF id
  <2>1. /\ IsQueue(q) /\ DOMAIN q = DOMAIN mutations[user] \ {id}
        /\ \A x \in DOMAIN mutations[user] \ {id} : q[x] = mutations[user][x]
    BY <1>2, BatchRemoved
  <2> HIDE DEF q
  <2> QED
    BY <2>1
<1>4. /\ told' \in [Writes -> Seq({"ok", "failed"})]
      /\ DOMAIN mutations' = Users /\ \A u \in Users : Stored(mutations'[u])
      /\ DOMAIN callbacks' = Users /\ \A u \in Users : Stored(callbacks'[u])
      /\ CallbacksBelong' /\ IdsAreTaken'
      /\ \A u \in Users : \A x \in DOMAIN mutations'[u] :
            x \in DOMAIN mutations[u] /\ mutations'[u][x] = mutations[u][x]
  BY <1>1, Settled
<1>5. /\ answers' = <<>> /\ streamUser' = Nil
      /\ applied' \in [Users -> Seq(Writes)]
      /\ \A u \in Users : \A i \in DOMAIN applied'[u] : WrittenBy(applied'[u][i], u)
  BY <1>1, Disconnected
<1>6. /\ p \in Seq(Batch) /\ Len(p) <= MaxPendingWrites
      /\ \A i \in DOMAIN p : WrittenBy(p[i].write, user)
  BY AnswerTaken
<1>7. c \in Stream /\ ~IsStarted(c) /\ ~c.idleTimer /\ ~c.handshakeComplete
  BY <1>2, Closed
<1>8. c = Close(stream, "Initial") /\ TasksLeft
  BY <1>1 DEF TasksLeft
<1> HIDE DEF q, p, c
<1>9. /\ pipeline' \in Seq(Batch) /\ Len(pipeline') <= MaxPendingWrites
      /\ \A i \in DOMAIN pipeline' :
            \/ i \in DOMAIN p /\ pipeline'[i] = p[i]
            \/ \E x \in DOMAIN q : pipeline'[i].write = q[x]
      /\ wire' \in Seq(Writes) /\ stream' \in Stream
      /\ AnswersMatchPipeline' /\ PipelineIsServed' /\ TimerIsIdle'
      /\ OneToken' /\ TokenIsOfUser'
  <2>1. Timed(p, c) /\ c.state # "Open"
    BY <1>7 DEF Timed, IsStarted
  <2>2. Match(p, c, answers', <<>>)
    BY <1>5, <2>1 DEF Match, CanSend
  <2>3. answers' \in Seq(Answer) /\ <<>> \in Seq(Writes)
    BY <1>5, EmptySeq
  <2> QED
    BY <1>1, <1>3, <1>6, <1>7, <1>8, <2>1, <2>2, <2>3, FilledInv
<1>10. TypeOK'
  <2>1. answers' \in Seq(Answer)
    BY <1>5, EmptySeq
  <2> QED
    BY <1>1, <1>4, <1>5, <1>9, <2>1 DEF IInv, TypeOK
<1>11. OwnersKnown'
  <2>1. ASSUME NEW u \in Users, NEW x \in DOMAIN mutations'[u]
        PROVE  mutations'[u][x] \in DOMAIN owner /\ owner[mutations'[u][x]] = u
    BY <1>4, <2>1 DEF IInv, OwnersKnown, WrittenBy
  <2>2. ASSUME NEW i \in DOMAIN pipeline'
        PROVE  pipeline'[i].write \in DOMAIN owner /\ owner[pipeline'[i].write] = user
    <3>1. CASE i \in DOMAIN p /\ pipeline'[i] = p[i]
      BY <1>6, <3>1 DEF WrittenBy
    <3>2. CASE \E x \in DOMAIN q : pipeline'[i].write = q[x]
      BY <1>2, <1>3, <3>2 DEF IInv, OwnersKnown, WrittenBy
    <3> QED
      BY <1>9, <3>1, <3>2
  <2> QED
    BY <1>1, <1>5, <2>1, <2>2 DEF OwnersKnown, WrittenBy
<1>12. UserIsComing' /\ StreamOfUser'
  BY <1>1, <1>5 DEF IInv, UserIsComing, StreamOfUser, IsCredential
<1> QED
  BY <1>4, <1>9, <1>10, <1>11, <1>12 DEF IInv

LEMMA StreamEndsInv ==
    ASSUME IInv, OnStreamFinish \/ ConnectionLost \/ IdleTimeout
    PROVE  IInv'
<1>1. disruptions \in 0..MaxDisruptions /\ (Disrupt => disruptions' \in 0..MaxDisruptions)
  BY WritesAssumption DEF IInv, TypeOK, Disrupt
<1>2. CASE OnStreamFinish /\ Last(answers).verdict = "refused"
  BY <1>2, CloseAndRejectInv DEF OnStreamFinish, StreamFinishes, Ended
<1>3. CASE OnStreamFinish /\ Last(answers).verdict # "refused"
  BY <1>1, <1>3, ClosedInv DEF OnStreamFinish, CloseAndRetry
<1>4. CASE ConnectionLost
  BY <1>1, <1>4, ClosedInv DEF ConnectionLost, CloseAndRetry
<1>5. CASE IdleTimeout
  BY <1>1, <1>5, ClosedInv DEF IdleTimeout
<1> QED
  BY <1>2, <1>3, <1>4, <1>5

\* A step that leaves the queues, the pipeline and the histories alone keeps what
\* is said of them.
LEMMA QueuesKept ==
    ASSUME IInv,
           UNCHANGED <<mutations, user, nextBatchId, callbacks, pipeline, applied, owner>>
    PROVE  IdsAreTaken' /\ CallbacksBelong' /\ OwnersKnown'
  BY DEF IInv, IdsAreTaken, CallbacksBelong, OwnersKnown, WrittenBy

LEMMA HandleCredentialChangeInv ==
    ASSUME IInv, HandleCredentialChange
    PROVE  IInv'
<1> DEFINE q == mutations[user']
           c == Close(stream, "Initial")
<1>1. /\ Run("credential") /\ user' = Head(tasks).user
      /\ nextBatchId' = IF user' = user THEN nextBatchId ELSE LoadNextBatchId(mutations)
      /\ Disconnect /\ FillWritePipeline(q, <<>>, c, <<>>)
      /\ mutations' = mutations /\ authUser' = authUser /\ tokenCounter' = tokenCounter
      /\ callbacks' = callbacks /\ refused' = refused /\ owner' = owner
      /\ told' = told /\ disruptions' = disruptions
  BY DEF HandleCredentialChange, provider
<1>2. /\ tasks' \in Seq(Task) /\ TasksLeft /\ user' \in Users
  <2>1. /\ Head(tasks) = tasks[1] /\ 1 \in DOMAIN tasks /\ tasks[1].op = "credential"
        /\ tasks' \in Seq(Task) /\ TasksLeft
    BY <1>1, TaskTaken
  <2>2. tasks[1].user \in Users
    BY <2>1, TasksType DEF IsCredential
  <2> QED
    BY <1>1, <2>1, <2>2
<1>3. IsQueue(q) /\ stream \in Stream /\ Timed(<<>>, stream)
  BY <1>2, QueuesFinite DEF IInv, TypeOK, TimerIsIdle, Timed
<1>4. /\ answers' = <<>> /\ streamUser' = Nil
      /\ applied' \in [Users -> Seq(Writes)]
      /\ \A u \in Users : \A i \in DOMAIN applied'[u] : WrittenBy(applied'[u][i], u)
  BY <1>1, Disconnected
<1>5. c \in Stream /\ ~IsStarted(c) /\ ~c.idleTimer /\ ~c.handshakeComplete
  BY <1>3, Closed
<1>6. c = Close(stream, "Initial")
  OBVIOUS
<1> HIDE DEF q, c
<1>7. /\ pipeline' \in Seq(Batch) /\ Len(pipeline') <= MaxPendingWrites
      /\ \A i \in DOMAIN pipeline' : \E x \in DOMAIN q : pipeline'[i].write = q[x]
      /\ wire' \in Seq(Writes) /\ stream' \in Stream
      /\ AnswersMatchPipeline' /\ PipelineIsServed' /\ TimerIsIdle'
      /\ OneToken' /\ TokenIsOfUser'
  <2> DEFINE p == <<>>
  <2>0. p = <<>> /\ DOMAIN p = {}
    OBVIOUS
  <2>1. p \in Seq(Batch) /\ Len(p) <= MaxPendingWrites
    BY EmptySeq, WritesAssumption
  <2> HIDE DEF p
  <2>2. Timed(p, c) /\ c.state # "Open"
    BY <1>5 DEF Timed, IsStarted
  <2>3. Match(p, c, answers', <<>>)
    BY <1>4, <2>2 DEF Match, CanSend
  <2>4. answers' \in Seq(Answer) /\ <<>> \in Seq(Writes)
    BY <1>4, EmptySeq
  <2>5. FillWritePipeline(q, p, c, <<>>)
    BY <1>1, <2>0
  <2>6. /\ pipeline' \in Seq(Batch) /\ Len(pipeline') <= MaxPendingWrites
        /\ \A i \in DOMAIN pipeline' :
              \/ i \in DOMAIN p /\ pipeline'[i] = p[i]
              \/ \E x \in DOMAIN q : pipeline'[i].write = q[x]
        /\ wire' \in Seq(Writes) /\ stream' \in Stream
        /\ AnswersMatchPipeline' /\ PipelineIsServed' /\ TimerIsIdle'
        /\ OneToken' /\ TokenIsOfUser'
    BY <1>2, <1>3, <1>5, <1>6, <2>1, <2>2, <2>3, <2>4, <2>5, FilledInv
  <2> QED
    BY <2>0, <2>6
<1>8. IdsAreTaken'
  <2>1. \A u \in Users : DOMAIN mutations[u] \subseteq DOMAIN mutations[u]
    OBVIOUS
  <2>2. /\ LoadNextBatchId(mutations) \in 1..(Len(owner) + 1)
        /\ \A u \in Users : \A x \in DOMAIN mutations[u] : x < LoadNextBatchId(mutations)
    BY <2>1, NextIdLoaded
  <2> QED
    BY <1>1, <2>2 DEF IInv, IdsAreTaken
<1>9. TypeOK'
  <2>1. answers' \in Seq(Answer)
    BY <1>4, EmptySeq
  <2>2. nextBatchId' \in Nat
    <3>1. Len(owner) \in Nat /\ nextBatchId' \in 1..(Len(owner) + 1)
      BY <1>1, <1>8, LenProperties DEF IInv, TypeOK, IdsAreTaken
    <3> QED
      BY <3>1
  <2> QED
    BY <1>1, <1>2, <1>4, <1>7, <2>1, <2>2 DEF IInv, TypeOK
<1>10. CallbacksBelong'
  BY <1>1 DEF IInv, CallbacksBelong
<1>11. OwnersKnown'
  <2>1. ASSUME NEW i \in DOMAIN pipeline'
        PROVE  pipeline'[i].write \in DOMAIN owner /\ owner[pipeline'[i].write] = user'
    BY <1>2, <1>7 DEF q, IInv, OwnersKnown, WrittenBy
  <2> QED
    BY <1>1, <1>4, <2>1 DEF IInv, OwnersKnown, WrittenBy
<1>12. UserIsComing' /\ StreamOfUser'
  BY <1>1, <1>4, UserAfterTask DEF StreamOfUser
<1> QED
  BY <1>7, <1>8, <1>9, <1>10, <1>11, <1>12 DEF IInv

LEMMA AuthStateChangeInv ==
    ASSUME IInv, NEW u \in Users, AuthStateChange(u)
    PROVE  IInv'
<1> DEFINE task == [op |-> "credential", user |-> u]
<1>1. /\ disruptions' \in 0..MaxDisruptions
      /\ authUser' = u /\ tokenCounter' = tokenCounter + 1
      /\ tasks' = Append(tasks, task)
      /\ mutations' = mutations /\ user' = user /\ nextBatchId' = nextBatchId
      /\ callbacks' = callbacks /\ pipeline' = pipeline /\ stream' = stream
      /\ wire' = wire /\ answers' = answers /\ streamUser' = streamUser
      /\ applied' = applied /\ refused' = refused /\ owner' = owner /\ told' = told
  <2>1. disruptions' \in 0..MaxDisruptions
    BY WritesAssumption DEF AuthStateChange, Disrupt, IInv, TypeOK
  <2> QED
    BY <2>1 DEF AuthStateChange, client, channel
<1>2. task \in Task /\ task.op = "credential" /\ task.user = u
  BY DEF Task
<1> HIDE DEF task
<1>3. /\ tasks' \in Seq(Task) /\ DOMAIN tasks' = 1..(Len(tasks) + 1)
      /\ tasks'[Len(tasks) + 1] = task
      /\ \A i \in DOMAIN tasks : i \in DOMAIN tasks' /\ tasks'[i] = tasks[i]
      /\ \A i \in DOMAIN tasks' : i \in DOMAIN tasks \/ i = Len(tasks) + 1
  BY <1>1, <1>2, TaskAppended
<1>4. Len(tasks) \in Nat /\ DOMAIN tasks = 1..Len(tasks)
  BY TasksType
<1>5. TypeOK'
  BY <1>1, <1>3 DEF IInv, TypeOK
<1>6. IdsAreTaken' /\ CallbacksBelong' /\ OwnersKnown'
  BY <1>1, QueuesKept
<1>7. AnswersMatchPipeline' /\ TimerIsIdle' /\ StreamOfUser'
  BY <1>1 DEF IInv, AnswersMatchPipeline, TimerIsIdle, StreamOfUser
<1>8. PipelineIsServed'
  BY <1>1, <1>3 DEF IInv, PipelineIsServed
<1>9. OneToken'
  <2>1. \A i \in DOMAIN tasks' : tasks'[i].op = "token" => i \in DOMAIN tasks /\ tasks'[i] = tasks[i]
    BY <1>2, <1>3
  <2> QED
    BY <1>1, <2>1 DEF IInv, OneToken, IsToken, IsAsked
<1>10. UserIsComing'
  <2>1. Len(tasks) + 1 \in DOMAIN tasks' /\ tasks'[Len(tasks) + 1].op = "credential"
    BY <1>2, <1>3, <1>4
  <2>2. ASSUME NEW i \in DOMAIN tasks', Len(tasks) + 1 <= i PROVE tasks'[i].user = u
    BY <1>2, <1>3, <1>4, <2>2
  <2> QED
    BY <1>1, <2>1, <2>2 DEF UserIsComing, IsCredential
<1>11. TokenIsOfUser'
  <2>1. ASSUME NEW i \in DOMAIN tasks', tasks'[i].op = "token"
        PROVE  i \in DOMAIN tasks /\ tasks'[i] = tasks[i]
    BY <1>2, <1>3, <2>1
  <2> QED
    BY <1>1, <1>3, <2>1 DEF IInv, TokenIsOfUser, IsToken, IsCredential
<1> QED
  BY <1>5, <1>6, <1>7, <1>8, <1>9, <1>10, <1>11 DEF IInv

LEMMA GetTokenInv ==
    ASSUME IInv, NEW r \in stream.requests, GetToken(r)
    PROVE  IInv'
<1>1. PICK u \in {authUser, Nil} : tasks' = Append(tasks, TokenTask(r, u))
  BY DEF GetToken
<1>2. /\ stream' = [stream EXCEPT !.requests = @ \ {r}]
      /\ disruptions' \in 0..MaxDisruptions
      /\ authUser' = authUser /\ tokenCounter' = tokenCounter
      /\ mutations' = mutations /\ user' = user /\ nextBatchId' = nextBatchId
      /\ callbacks' = callbacks /\ pipeline' = pipeline
      /\ wire' = wire /\ answers' = answers /\ streamUser' = streamUser
      /\ applied' = applied /\ refused' = refused /\ owner' = owner /\ told' = told
  <2>1. disruptions' \in 0..MaxDisruptions
    BY SMTT(30), WritesAssumption DEF GetToken, Disrupt, IInv, TypeOK
  <2> QED
    BY <2>1 DEF GetToken, provider, channel
<1>3. /\ stream \in Stream /\ stream.closeCount \in Nat
      /\ r.closeCount \in Nat
  BY DEF IInv, TypeOK, Stream, TokenRequest
<1>4. /\ stream' \in Stream /\ stream'.closeCount = stream.closeCount
      /\ stream'.state = stream.state /\ stream'.requests = stream.requests \ {r}
      /\ stream'.handshakeComplete = stream.handshakeComplete
      /\ stream'.idleTimer = stream.idleTimer
  BY <1>2, <1>3 DEF Stream
<1> DEFINE task == TokenTask(r, u)
           last == Len(tasks) + 1
<1>5. /\ task \in Task /\ task.op = "token" /\ task.user = u
      /\ task.closeCount = r.closeCount
  <2>1. u \in Users \cup {Nil}
    BY <1>1 DEF IInv, TypeOK
  <2> QED
    BY <1>3, <2>1 DEF TokenTask, Task
<1> HIDE DEF task
<1>6. /\ tasks' \in Seq(Task) /\ DOMAIN tasks' = 1..last
      /\ tasks'[last] = task
      /\ \A i \in DOMAIN tasks : i \in DOMAIN tasks' /\ tasks'[i] = tasks[i]
      /\ \A i \in DOMAIN tasks' : i \in DOMAIN tasks \/ i = last
  <2>1. tasks' = Append(tasks, task)
    BY <1>1 DEF task
  <2> QED
    BY <1>5, <2>1, TaskAppended
<1>7. Len(tasks) \in Nat /\ DOMAIN tasks = 1..Len(tasks) /\ last \in DOMAIN tasks'
      /\ \A i \in DOMAIN tasks : i < last
  BY <1>6, TasksType
<1> HIDE DEF last
<1>8. TypeOK'
  BY <1>2, <1>4, <1>6 DEF IInv, TypeOK
<1>9. IdsAreTaken' /\ CallbacksBelong' /\ OwnersKnown'
  BY <1>2, QueuesKept
<1>10. AnswersMatchPipeline' /\ TimerIsIdle' /\ StreamOfUser'
  BY <1>2, <1>4 DEF IInv, AnswersMatchPipeline, TimerIsIdle, StreamOfUser, CanSend
<1>11. PipelineIsServed'
  <2>1. pipeline' # <<>> => IsStarted(stream') /\ ~stream'.idleTimer
    BY <1>2, <1>4 DEF IInv, PipelineIsServed, IsStarted
  <2>2. ASSUME stream'.state = "Starting"
        PROVE  \/ \E x \in stream'.requests : x.closeCount = stream'.closeCount
               \/ \E i \in DOMAIN tasks' :
                     tasks'[i].op = "token" /\ tasks'[i].closeCount = stream'.closeCount
    <3>1. CASE r.closeCount = stream.closeCount
      BY <1>4, <1>5, <1>6, <1>7, <3>1
    <3>2. CASE r.closeCount # stream.closeCount
      BY <1>4, <1>6, <2>2, <3>2 DEF IInv, PipelineIsServed
    <3> QED
      BY <3>1, <3>2
  <2> QED
    BY <2>1, <2>2 DEF PipelineIsServed
<1>12. OneToken'
  <2>1. /\ r.closeCount <= stream.closeCount
        /\ r.closeCount = stream.closeCount =>
              /\ stream.state = "Starting"
              /\ \A x \in stream.requests : x.closeCount = stream.closeCount => x = r
              /\ \A i \in DOMAIN tasks :
                    ~(tasks[i].op = "token" /\ tasks[i].closeCount = stream.closeCount)
    BY DEF IInv, OneToken, IsAsked, IsToken
  <2>2. ASSUME NEW x \in stream'.requests
        PROVE  /\ x.closeCount <= stream'.closeCount
               /\ x.closeCount = stream'.closeCount =>
                     /\ stream'.state = "Starting"
                     /\ \A other \in stream'.requests :
                           other.closeCount = stream'.closeCount => other = x
                     /\ \A i \in DOMAIN tasks' :
                           ~(tasks'[i].op = "token" /\ tasks'[i].closeCount = stream'.closeCount)
    <3>1. x \in stream.requests /\ x # r
      BY <1>4, <2>2
    <3>2. /\ x.closeCount <= stream.closeCount
          /\ x.closeCount = stream.closeCount =>
                /\ stream.state = "Starting"
                /\ \A other \in stream.requests :
                      other.closeCount = stream.closeCount => other = x
                /\ \A i \in DOMAIN tasks :
                      ~(tasks[i].op = "token" /\ tasks[i].closeCount = stream.closeCount)
      BY <3>1 DEF IInv, OneToken, IsAsked, IsToken
    <3>3. x.closeCount = stream.closeCount => r.closeCount # stream.closeCount
      BY <3>1, <3>2
    <3> QED
      BY <1>4, <1>5, <1>6, <3>2, <3>3
  <2>3. ASSUME NEW i \in DOMAIN tasks', tasks'[i].op = "token"
        PROVE  /\ tasks'[i].closeCount <= stream'.closeCount
               /\ tasks'[i].closeCount = stream'.closeCount =>
                     /\ stream'.state = "Starting"
                     /\ \A j \in DOMAIN tasks' :
                           tasks'[j].op = "token" /\ tasks'[j].closeCount = stream'.closeCount => j = i
    <3>1. CASE i = last
      BY <1>4, <1>5, <1>6, <2>1, <3>1
    <3>2. CASE i \in DOMAIN tasks
      <4>1. tasks'[i] = tasks[i] /\ tasks[i].op = "token"
        BY <1>6, <2>3, <3>2
      <4>2. /\ tasks[i].closeCount <= stream.closeCount
            /\ tasks[i].closeCount = stream.closeCount =>
                  /\ stream.state = "Starting"
                  /\ \A j \in DOMAIN tasks :
                        tasks[j].op = "token" /\ tasks[j].closeCount = stream.closeCount => j = i
        BY <3>2, <4>1 DEF IInv, OneToken, IsToken
      <4>3. tasks[i].closeCount = stream.closeCount => r.closeCount # stream.closeCount
        BY <2>1, <3>2, <4>1
      <4> QED
        BY <1>4, <1>5, <1>6, <4>1, <4>2, <4>3
    <3> QED
      BY <1>6, <3>1, <3>2
  <2> QED
    BY <2>2, <2>3 DEF OneToken, IsAsked, IsToken
<1>13. \A i \in DOMAIN tasks' : tasks'[i].op = "credential" <=>
          i \in DOMAIN tasks /\ tasks[i].op = "credential"
  BY <1>5, <1>6, <1>7
<1>14. UserIsComing'
  <2>1. (\A i \in DOMAIN tasks' : tasks'[i].op # "credential") => authUser' = user'
    BY <1>2, <1>6, <1>13 DEF IInv, UserIsComing, IsCredential
  <2>2. ASSUME NEW i \in DOMAIN tasks', tasks'[i].op = "credential",
               \A j \in DOMAIN tasks' : tasks'[j].op = "credential" => j <= i
        PROVE  tasks'[i].user = authUser'
    <3>1. i \in DOMAIN tasks /\ tasks[i].op = "credential" /\ tasks'[i] = tasks[i]
      BY <1>6, <1>13, <2>2
    <3>2. \A j \in DOMAIN tasks : tasks[j].op = "credential" => j <= i
      BY <1>6, <2>2
    <3> QED
      BY <1>2, <3>1, <3>2 DEF IInv, UserIsComing, IsCredential
  <2> QED
    BY <2>1, <2>2 DEF UserIsComing, IsCredential
<1>15. TokenIsOfUser'
  <2>1. ASSUME NEW i \in DOMAIN tasks', tasks'[i].op = "token",
               tasks'[i].closeCount = stream'.closeCount,
               \A j \in DOMAIN tasks' : tasks'[j].op = "credential" => i < j
        PROVE  tasks'[i].user \in {Nil, user}
    <3>1. CASE i = last
      <4>1. \A j \in DOMAIN tasks : tasks[j].op # "credential"
        <5>1. SUFFICES ASSUME NEW j \in DOMAIN tasks, tasks[j].op = "credential" PROVE FALSE
          OBVIOUS
        <5>2. last < j /\ j < last /\ j \in Int /\ last \in Int
          BY <1>6, <1>7, <2>1, <3>1, <5>1 DEF last
        <5> QED
          BY <5>2
      <4>2. authUser = user
        BY <4>1 DEF IInv, UserIsComing, IsCredential
      <4> QED
        BY <1>1, <1>5, <1>6, <3>1, <4>2
    <3>2. CASE i \in DOMAIN tasks
      <4>1. tasks'[i] = tasks[i] /\ tasks[i].op = "token" /\ tasks[i].closeCount = stream.closeCount
        BY <1>4, <1>6, <2>1, <3>2
      <4>2. \A j \in DOMAIN tasks : tasks[j].op = "credential" => i < j
        BY <1>6, <2>1
      <4> QED
        BY <3>2, <4>1, <4>2 DEF IInv, TokenIsOfUser, IsToken, IsCredential
    <3> QED
      BY <1>6, <2>1, <3>1, <3>2
  <2> QED
    BY <1>2, <2>1 DEF TokenIsOfUser, IsToken, IsCredential
<1> QED
  BY <1>8, <1>9, <1>10, <1>11, <1>12, <1>14, <1>15 DEF IInv

LEMMA IgnoreTokenInv ==
    ASSUME IInv, IgnoreToken
    PROVE  IInv'
<1>1. /\ Run("token") /\ Head(tasks).closeCount # stream.closeCount
      /\ authUser' = authUser /\ tokenCounter' = tokenCounter
      /\ mutations' = mutations /\ user' = user /\ nextBatchId' = nextBatchId
      /\ callbacks' = callbacks /\ pipeline' = pipeline /\ stream' = stream
      /\ wire' = wire /\ answers' = answers /\ streamUser' = streamUser
      /\ applied' = applied /\ refused' = refused /\ owner' = owner /\ told' = told
      /\ disruptions' = disruptions
  BY DEF IgnoreToken, provider, client, channel
<1>2. /\ Head(tasks) = tasks[1] /\ 1 \in DOMAIN tasks /\ tasks[1].op = "token"
      /\ tasks' \in Seq(Task)
      /\ \A i \in DOMAIN tasks' : i + 1 \in DOMAIN tasks /\ tasks'[i] = tasks[i + 1]
      /\ \A j \in DOMAIN tasks : j # 1 => j - 1 \in DOMAIN tasks' /\ tasks'[j - 1] = tasks[j]
  BY <1>1, TaskTaken
<1>3. DOMAIN tasks \subseteq Int /\ DOMAIN tasks' \subseteq Int /\ \A j \in DOMAIN tasks : j >= 1
  BY <1>2, TasksType, LenProperties
<1>4. TypeOK'
  BY <1>1, <1>2 DEF IInv, TypeOK
<1>5. IdsAreTaken' /\ CallbacksBelong' /\ OwnersKnown'
  BY <1>1, QueuesKept
<1>6. AnswersMatchPipeline' /\ TimerIsIdle' /\ StreamOfUser'
  BY <1>1 DEF IInv, AnswersMatchPipeline, TimerIsIdle, StreamOfUser
<1>7. PipelineIsServed'
  <2>1. ASSUME NEW j \in DOMAIN tasks, tasks[j].op = "token",
               tasks[j].closeCount = stream.closeCount
        PROVE  \E i \in DOMAIN tasks' :
                  tasks'[i].op = "token" /\ tasks'[i].closeCount = stream.closeCount
    <3>1. j # 1
      BY <1>1, <1>2, <2>1
    <3> QED
      BY <1>2, <2>1, <3>1
  <2> QED
    BY <1>1, <2>1 DEF IInv, PipelineIsServed
<1>8. OneToken'
  <2>1. \A r \in stream'.requests :
          /\ r.closeCount <= stream'.closeCount
          /\ r.closeCount = stream'.closeCount =>
                /\ stream'.state = "Starting"
                /\ \A other \in stream'.requests : other.closeCount = stream'.closeCount => other = r
                /\ \A i \in DOMAIN tasks' :
                      ~(tasks'[i].op = "token" /\ tasks'[i].closeCount = stream'.closeCount)
    BY <1>1, <1>2 DEF IInv, OneToken, IsAsked, IsToken
  <2>2. ASSUME NEW i \in DOMAIN tasks', tasks'[i].op = "token"
        PROVE  /\ tasks'[i].closeCount <= stream'.closeCount
               /\ tasks'[i].closeCount = stream'.closeCount =>
                     /\ stream'.state = "Starting"
                     /\ \A j \in DOMAIN tasks' :
                           tasks'[j].op = "token" /\ tasks'[j].closeCount = stream'.closeCount => j = i
    <3>1. i + 1 \in DOMAIN tasks /\ tasks'[i] = tasks[i + 1]
      BY <1>2, <2>2
    <3>2. /\ tasks[i + 1].closeCount <= stream.closeCount
          /\ tasks[i + 1].closeCount = stream.closeCount =>
                /\ stream.state = "Starting"
                /\ \A j \in DOMAIN tasks :
                      tasks[j].op = "token" /\ tasks[j].closeCount = stream.closeCount => j = i + 1
      BY <2>2, <3>1 DEF IInv, OneToken, IsToken
    <3>3. ASSUME tasks[i + 1].closeCount = stream.closeCount, NEW j \in DOMAIN tasks',
                 tasks'[j].op = "token", tasks'[j].closeCount = stream.closeCount
          PROVE  j = i
      <4>1. j + 1 = i + 1 /\ i \in Int /\ j \in Int
        BY <1>2, <1>3, <3>2, <3>3
      <4> QED
        BY <4>1
    <3> QED
      BY <1>1, <3>1, <3>2, <3>3
  <2> QED
    BY <2>1, <2>2 DEF OneToken, IsAsked, IsToken
<1>9. UserIsComing'
  BY <1>1, UserAfterTask
<1>10. TokenIsOfUser'
  <2>1. ASSUME NEW i \in DOMAIN tasks', tasks'[i].op = "token",
               tasks'[i].closeCount = stream.closeCount,
               \A j \in DOMAIN tasks' : tasks'[j].op = "credential" => i < j
        PROVE  tasks'[i].user \in {Nil, user}
    <3>1. i + 1 \in DOMAIN tasks /\ tasks'[i] = tasks[i + 1]
      BY <1>2, <2>1
    <3>2. ASSUME NEW j \in DOMAIN tasks, tasks[j].op = "credential" PROVE i + 1 < j
      <4>1. j # 1
        BY <1>2, <3>2
      <4>2. j - 1 \in DOMAIN tasks' /\ tasks'[j - 1] = tasks[j]
        BY <1>2, <4>1
      <4>3. i < j - 1
        BY <2>1, <3>2, <4>2
      <4> QED
        BY <1>3, <4>3
    <3> QED
      BY <2>1, <3>1, <3>2 DEF IInv, TokenIsOfUser, IsToken, IsCredential
  <2> QED
    BY <1>1, <2>1 DEF TokenIsOfUser, IsToken, IsCredential
<1> QED
  BY <1>4, <1>5, <1>6, <1>7, <1>8, <1>9, <1>10 DEF IInv

\* The token of the stream comes: the stream is starting, and nothing is sent yet.
LEMMA TokenArrives ==
    ASSUME IInv, Run("token"), Head(tasks).closeCount = stream.closeCount
    PROVE  /\ stream.state = "Starting" /\ ~CanSend(stream) /\ ~stream.handshakeComplete
           /\ wire = <<>> /\ answers = <<>>
           /\ \A r \in stream.requests : r.closeCount < stream.closeCount
           /\ tasks' \in Seq(Task) /\ TasksLeft
           /\ \A i \in DOMAIN tasks' : ~(tasks'[i].op = "token"
                                           /\ tasks'[i].closeCount = stream.closeCount)
           /\ \A i \in DOMAIN tasks' : tasks'[i].op = "token" =>
                 tasks'[i].closeCount <= stream.closeCount
           /\ Head(tasks).user \in {Nil, user}
<1>1. /\ Head(tasks) = tasks[1] /\ 1 \in DOMAIN tasks /\ tasks[1].op = "token"
      /\ tasks' \in Seq(Task) /\ TasksLeft
      /\ \A i \in DOMAIN tasks' : i + 1 \in DOMAIN tasks /\ tasks'[i] = tasks[i + 1]
  BY TaskTaken
<1>2. DOMAIN tasks \subseteq Int /\ DOMAIN tasks' \subseteq Int
      /\ (\A j \in DOMAIN tasks : j >= 1) /\ (\A i \in DOMAIN tasks' : i >= 1)
  BY <1>1, TasksType, LenProperties
<1>3. IsToken(1)
  BY <1>1 DEF IsToken
<1>4. /\ stream.state = "Starting"
      /\ \A j \in DOMAIN tasks : IsToken(j) => j = 1
      /\ \A r \in stream.requests : r.closeCount <= stream.closeCount /\ r.closeCount # stream.closeCount
  BY <1>1, <1>3 DEF IInv, OneToken, IsAsked
<1>5. ~CanSend(stream) /\ ~stream.handshakeComplete /\ wire = <<>> /\ answers = <<>>
  BY <1>4 DEF IInv, AnswersMatchPipeline, TimerIsIdle, CanSend
<1>6. \A r \in stream.requests : r.closeCount < stream.closeCount
  <2>1. \A r \in stream.requests : r.closeCount \in Nat
    BY DEF IInv, TypeOK, Stream, TokenRequest
  <2>2. stream.closeCount \in Nat
    BY DEF IInv, TypeOK, Stream
  <2> QED
    BY <1>4, <2>1, <2>2
<1>7. ASSUME NEW i \in DOMAIN tasks', tasks'[i].op = "token"
      PROVE  /\ tasks'[i].closeCount # stream.closeCount
             /\ tasks'[i].closeCount <= stream.closeCount
  <2>1. i + 1 \in DOMAIN tasks /\ tasks'[i] = tasks[i + 1] /\ i + 1 # 1
    BY <1>1, <1>2, <1>7
  <2> QED
    BY <1>4, <1>7, <2>1 DEF IInv, OneToken, IsToken
<1>8. Head(tasks).user \in {Nil, user}
  <2>1. ASSUME NEW j \in DOMAIN tasks, IsCredential(j) PROVE 1 < j
    <3>1. j # 1
      BY <1>1, <2>1 DEF IsCredential
    <3> QED
      BY <1>2, <3>1
  <2> QED
    BY <1>1, <1>3, <2>1 DEF IInv, TokenIsOfUser
<1> QED
  BY <1>1, <1>4, <1>5, <1>6, <1>7, <1>8

LEMMA TokenFailedInv ==
    ASSUME IInv, TokenFailed
    PROVE  IInv'
<1>1. /\ Run("token") /\ Head(tasks).closeCount = stream.closeCount
      /\ stream' = StartIfNeeded(Close(stream, "Error"), pipeline)
      /\ authUser' = authUser /\ tokenCounter' = tokenCounter
      /\ mutations' = mutations /\ user' = user /\ nextBatchId' = nextBatchId
      /\ callbacks' = callbacks /\ pipeline' = pipeline
      /\ wire' = wire /\ answers' = answers /\ streamUser' = streamUser
      /\ applied' = applied /\ refused' = refused /\ owner' = owner /\ told' = told
      /\ disruptions' = disruptions
  BY DEF TokenFailed, provider, channel
<1>2. wire = <<>> /\ answers = <<>> /\ tasks' \in Seq(Task) /\ TasksLeft
  BY <1>1, TokenArrives
<1>3. /\ stream' \in Stream
      /\ AnswersMatchPipeline' /\ PipelineIsServed' /\ TimerIsIdle'
      /\ OneToken' /\ TokenIsOfUser'
  BY <1>1, <1>2, RestartedInv
<1>4. TypeOK'
  BY <1>1, <1>2, <1>3 DEF IInv, TypeOK
<1>5. IdsAreTaken' /\ CallbacksBelong' /\ OwnersKnown'
  BY <1>1, QueuesKept
<1>6. UserIsComing' /\ StreamOfUser'
  BY <1>1, UserAfterTask DEF IInv, StreamOfUser
<1> QED
  BY <1>3, <1>4, <1>5, <1>6 DEF IInv

LEMMA ResumeStartInv ==
    ASSUME IInv, ResumeStart
    PROVE  IInv'
<1>1. /\ Run("token") /\ Head(tasks).closeCount = stream.closeCount
      /\ stream' = [stream EXCEPT !.state = "Open", !.idleTimer = FALSE]
      /\ streamUser' = Head(tasks).user
      /\ authUser' = authUser /\ tokenCounter' = tokenCounter
      /\ mutations' = mutations /\ user' = user /\ nextBatchId' = nextBatchId
      /\ callbacks' = callbacks /\ pipeline' = pipeline
      /\ wire' = wire /\ answers' = answers
      /\ applied' = applied /\ refused' = refused /\ owner' = owner /\ told' = told
      /\ disruptions' = disruptions
  BY DEF ResumeStart, provider
<1>2. /\ ~stream.handshakeComplete /\ wire = <<>> /\ answers = <<>>
      /\ \A r \in stream.requests : r.closeCount < stream.closeCount
      /\ tasks' \in Seq(Task)
      /\ \A i \in DOMAIN tasks' : ~(tasks'[i].op = "token"
                                      /\ tasks'[i].closeCount = stream.closeCount)
      /\ \A i \in DOMAIN tasks' : tasks'[i].op = "token" =>
            tasks'[i].closeCount <= stream.closeCount
      /\ Head(tasks).user \in {Nil, user}
  BY <1>1, TokenArrives
<1>3. /\ stream' \in Stream /\ stream'.state = "Open" /\ ~stream'.idleTimer
      /\ stream'.closeCount = stream.closeCount /\ stream'.requests = stream.requests
      /\ ~stream'.handshakeComplete
  BY <1>1, <1>2 DEF IInv, TypeOK, Stream
<1>4. TypeOK'
  <2>1. streamUser' \in Users \cup {Nil}
    BY <1>1, <1>2 DEF IInv, TypeOK
  <2> QED
    BY <1>1, <1>2, <1>3, <2>1 DEF IInv, TypeOK
<1>5. IdsAreTaken' /\ CallbacksBelong' /\ OwnersKnown'
  BY <1>1, QueuesKept
<1>6. AnswersMatchPipeline' /\ PipelineIsServed' /\ TimerIsIdle'
  BY <1>1, <1>2, <1>3 DEF AnswersMatchPipeline, PipelineIsServed, TimerIsIdle, CanSend, IsStarted
<1>7. OneToken' /\ TokenIsOfUser'
  <2>1. ASSUME NEW r \in stream'.requests
        PROVE  r.closeCount <= stream'.closeCount /\ r.closeCount # stream'.closeCount
    <3>1. r.closeCount \in Nat /\ stream.closeCount \in Nat
      BY <1>3, <2>1 DEF IInv, TypeOK, Stream, TokenRequest
    <3>2. r.closeCount < stream.closeCount
      BY <1>2, <1>3, <2>1
    <3> QED
      BY <1>3, <3>1, <3>2
  <2> QED
    BY <1>2, <1>3, <2>1 DEF OneToken, TokenIsOfUser, IsAsked, IsToken
<1>8. UserIsComing' /\ StreamOfUser'
  BY <1>1, <1>2, UserAfterTask DEF StreamOfUser
<1> QED
  BY <1>4, <1>5, <1>6, <1>7, <1>8 DEF IInv

LEMMA BackoffElapsedInv ==
    ASSUME IInv, BackoffElapsed
    PROVE  IInv'
<1> DEFINE new == NewRequest(stream)
           more == stream.requests \cup {new}
<1>1. /\ stream.state = "Backoff"
      /\ stream' = Start([stream EXCEPT !.state = "Initial"])
      /\ authUser' = authUser /\ tokenCounter' = tokenCounter /\ tasks' = tasks
      /\ mutations' = mutations /\ user' = user /\ nextBatchId' = nextBatchId
      /\ callbacks' = callbacks /\ pipeline' = pipeline
      /\ wire' = wire /\ answers' = answers /\ streamUser' = streamUser
      /\ applied' = applied /\ refused' = refused /\ owner' = owner /\ told' = told
      /\ disruptions' = disruptions
  BY DEF BackoffElapsed, provider, channel
<1>2. stream \in Stream /\ new \in TokenRequest /\ new.closeCount = stream.closeCount
  BY DEF IInv, TypeOK, Stream, NewRequest, TokenRequest
<1>3. more \in SUBSET TokenRequest
  BY <1>2 DEF Stream
<1>4. stream' = [[stream EXCEPT !.state = "Initial"]
                   EXCEPT !.state = "Starting", !.requests = more]
  <2> DEFINE s == [stream EXCEPT !.state = "Initial"]
  <2>1. s.state = "Initial" /\ s.closeCount = stream.closeCount /\ s.requests = stream.requests
    BY <1>2 DEF Stream
  <2> HIDE DEF s
  <2>2. stream' = [s EXCEPT !.state = "Starting", !.requests = more]
    BY <1>1, <2>1 DEF s, Start, NewRequest
  <2> QED
    BY <2>2 DEF s
<1> HIDE DEF more, new
<1>5. /\ stream' \in Stream /\ stream'.state = "Starting" /\ stream'.requests = more
      /\ stream'.closeCount = stream.closeCount
      /\ stream'.handshakeComplete = stream.handshakeComplete
      /\ stream'.idleTimer = stream.idleTimer
  BY <1>2, <1>3, <1>4 DEF Stream
<1>6. more = stream.requests \cup {new}
  BY DEF more
<1>7. ~stream.handshakeComplete /\ ~stream.idleTimer /\ wire = <<>> /\ answers = <<>>
  BY <1>1 DEF IInv, AnswersMatchPipeline, TimerIsIdle, CanSend
<1>8. TypeOK'
  BY <1>1, <1>5 DEF IInv, TypeOK
<1>9. IdsAreTaken' /\ CallbacksBelong' /\ OwnersKnown'
  BY <1>1, QueuesKept
<1>10. AnswersMatchPipeline' /\ TimerIsIdle'
  BY <1>1, <1>5, <1>7 DEF AnswersMatchPipeline, TimerIsIdle, CanSend
<1>11. PipelineIsServed'
  BY <1>2, <1>5, <1>6, <1>7 DEF PipelineIsServed, IsStarted
<1>12. OneToken' /\ TokenIsOfUser'
  <2>1. /\ \A r \in stream.requests :
              r.closeCount <= stream.closeCount /\ r.closeCount # stream.closeCount
        /\ \A i \in DOMAIN tasks : tasks[i].op = "token" =>
              tasks[i].closeCount <= stream.closeCount /\ tasks[i].closeCount # stream.closeCount
    BY <1>1 DEF IInv, OneToken, IsAsked, IsToken
  <2>2. stream.closeCount <= stream.closeCount
    BY <1>2 DEF Stream
  <2> QED
    BY <1>1, <1>2, <1>5, <1>6, <2>1, <2>2 DEF OneToken, TokenIsOfUser, IsAsked, IsToken
<1>13. UserIsComing' /\ StreamOfUser'
  BY <1>1 DEF IInv, UserIsComing, StreamOfUser, IsCredential
<1> QED
  BY <1>8, <1>9, <1>10, <1>11, <1>12, <1>13 DEF IInv

LEMMA OnHandshakeCompleteInv ==
    ASSUME IInv, OnHandshakeComplete
    PROVE  IInv'
<1>1. /\ stream.state = "Open" /\ ~stream.handshakeComplete
      /\ stream' = [stream EXCEPT !.handshakeComplete = TRUE,
                                  !.idleTimer = @ /\ pipeline = <<>>]
      /\ wire' = wire \o Mutations(pipeline)
      /\ authUser' = authUser /\ tokenCounter' = tokenCounter /\ tasks' = tasks
      /\ mutations' = mutations /\ user' = user /\ nextBatchId' = nextBatchId
      /\ callbacks' = callbacks /\ pipeline' = pipeline
      /\ answers' = answers /\ streamUser' = streamUser
      /\ applied' = applied /\ refused' = refused /\ owner' = owner /\ told' = told
      /\ disruptions' = disruptions
  BY DEF OnHandshakeComplete, provider
<1>2. wire = <<>> /\ answers = <<>> /\ ~stream.idleTimer
  BY <1>1 DEF IInv, AnswersMatchPipeline, TimerIsIdle, CanSend
<1>3. stream' = [stream EXCEPT !.handshakeComplete = TRUE, !.idleTimer = FALSE]
  BY <1>1, <1>2
<1>4. /\ stream' \in Stream /\ stream'.state = "Open" /\ stream'.handshakeComplete
      /\ ~stream'.idleTimer /\ stream'.closeCount = stream.closeCount
      /\ stream'.requests = stream.requests
  BY <1>1, <1>3 DEF IInv, TypeOK, Stream
<1>5. Mutations(pipeline) \in Seq(Writes)
  BY MutationsType DEF IInv, TypeOK
<1>6. wire' = Mutations(pipeline)
  <2> DEFINE ws == Mutations(pipeline)
  <2> HIDE DEF ws
  <2>1. <<>> \o ws = ws
    BY <1>5, ConcatEmptySeq DEF ws
  <2> QED
    BY <1>1, <1>2, <2>1 DEF ws
<1>7. Match(pipeline', stream', answers', wire')
  <2> DEFINE ws == Mutations(pipeline)
             none == [i \in DOMAIN answers |-> answers[i].write]
  <2>1. none = <<>>
    BY <1>2
  <2> HIDE DEF ws, none
  <2>2. none \o ws = ws
    BY <1>5, <2>1, ConcatEmptySeq DEF ws
  <2>3. CanSend(stream')
    BY <1>4 DEF CanSend
  <2>4. ws = none \o wire'
    BY <1>6, <2>2 DEF ws
  <2> QED
    BY <1>1, <2>3, <2>4 DEF ws, none, Match, Mutations
<1>8. AnswersMatchPipeline' /\ PipelineIsServed' /\ TimerIsIdle'
  <2>1. Timed(pipeline', stream') /\ IsStarted(stream') /\ stream'.state # "Starting"
    BY <1>4 DEF Timed, IsStarted
  <2> QED
    BY <1>7, <2>1, StreamInv
<1>9. TypeOK'
  BY <1>1, <1>4, <1>5, <1>6 DEF IInv, TypeOK
<1>10. IdsAreTaken' /\ CallbacksBelong' /\ OwnersKnown'
  BY <1>1, QueuesKept
<1>11. OneToken' /\ TokenIsOfUser'
  BY <1>1, <1>4 DEF IInv, OneToken, TokenIsOfUser, IsAsked, IsToken, IsCredential
<1>12. UserIsComing' /\ StreamOfUser'
  BY <1>1 DEF IInv, UserIsComing, StreamOfUser, IsCredential
<1> QED
  BY <1>8, <1>9, <1>10, <1>11, <1>12 DEF IInv

LEMMA HeadMoves ==
    ASSUME NEW S, NEW a \in Seq(S), NEW b \in Seq(S), b # <<>>
    PROVE  Append(a, Head(b)) \o Tail(b) = a \o b
<1>1. Len(a) \in Nat /\ Len(b) \in Nat \ {0}
  BY LenProperties, EmptySeq
<1>2. /\ Tail(b) \in Seq(S) /\ Len(Tail(b)) = Len(b) - 1 /\ Head(b) = b[1] /\ Head(b) \in S
      /\ \A i \in 1..(Len(b) - 1) : Tail(b)[i] = b[i + 1]
  BY HeadTailProperties
<1> DEFINE h == Head(b)
           t == Tail(b)
           c == Append(a, h)
<1> HIDE DEF h, t, c
<1>3. t \in Seq(S) /\ Len(t) = Len(b) - 1 /\ h \in S
  BY <1>2 DEF h, t
<1>4. /\ c \in Seq(S) /\ Len(c) = Len(a) + 1 /\ c[Len(a) + 1] = h
      /\ \A i \in 1..Len(a) : c[i] = a[i]
  BY <1>3, AppendProperties DEF c
<1>5. /\ a \o b \in Seq(S) /\ Len(a \o b) = Len(a) + Len(b)
      /\ \A i \in 1..(Len(a) + Len(b)) : (a \o b)[i] = IF i <= Len(a) THEN a[i] ELSE b[i - Len(a)]
  BY ConcatProperties
<1>6. /\ c \o t \in Seq(S) /\ Len(c \o t) = Len(c) + Len(t)
      /\ \A i \in 1..(Len(c) + Len(t)) : (c \o t)[i] = IF i <= Len(c) THEN c[i] ELSE t[i - Len(c)]
  BY <1>3, <1>4, ConcatProperties
<1>7. Len(c) + Len(t) = Len(a) + Len(b)
  BY <1>1, <1>3, <1>4
<1>8. ASSUME NEW i \in 1..(Len(a) + Len(b)) PROVE (c \o t)[i] = (a \o b)[i]
  <2>1. /\ (c \o t)[i] = IF i <= Len(a) + 1 THEN c[i] ELSE t[i - (Len(a) + 1)]
        /\ (a \o b)[i] = IF i <= Len(a) THEN a[i] ELSE b[i - Len(a)]
    BY <1>4, <1>5, <1>6, <1>7
  <2>2. CASE i <= Len(a)
    <3>1. i \in 1..Len(a) /\ i <= Len(a) + 1
      BY <1>1, <2>2
    <3> QED
      BY <1>4, <2>1, <2>2, <3>1
  <2>3. CASE i = Len(a) + 1
    <3>1. ~(i <= Len(a)) /\ i <= Len(a) + 1 /\ i - Len(a) = 1
      BY <1>1, <2>3
    <3> QED
      BY <1>2, <1>4, <2>1, <2>3, <3>1 DEF h
  <2>4. CASE i > Len(a) + 1
    <3>1. /\ ~(i <= Len(a)) /\ ~(i <= Len(a) + 1)
          /\ i - (Len(a) + 1) \in 1..(Len(b) - 1) /\ (i - (Len(a) + 1)) + 1 = i - Len(a)
      BY <1>1, <2>4
    <3> QED
      BY <1>2, <2>1, <3>1 DEF t
  <2>5. i <= Len(a) \/ i = Len(a) + 1 \/ i > Len(a) + 1
    <3>1. i \in Int /\ Len(a) \in Int
      BY <1>1
    <3> QED
      BY <3>1
  <2> QED
    BY <2>2, <2>3, <2>4, <2>5
<1>9. c \o t = a \o b
  BY <1>5, <1>6, <1>7, <1>8, SeqEqual
<1> QED
  BY <1>9 DEF h, t, c

\* The server takes the first write on the wire, as the user whose token it has.
LEMMA TakeWriteInv ==
    ASSUME IInv, NEW verdict \in {"applied", "refused", "aborted"}, TakeWrite(verdict),
           applied' \in [Users -> Seq(Writes)],
           \A u \in Users : \A i \in DOMAIN applied'[u] : WrittenBy(applied'[u][i], u),
           refused' \subseteq Writes, disruptions' \in 0..MaxDisruptions
    PROVE  IInv'
<1> DEFINE a == [write |-> Head(wire), verdict |-> verdict]
<1>1. /\ wire # <<>> /\ wire' = Tail(wire) /\ answers' = Append(answers, a)
      /\ authUser' = authUser /\ tokenCounter' = tokenCounter /\ tasks' = tasks
      /\ mutations' = mutations /\ user' = user /\ nextBatchId' = nextBatchId
      /\ callbacks' = callbacks /\ pipeline' = pipeline /\ stream' = stream
      /\ streamUser' = streamUser /\ owner' = owner /\ told' = told
  BY DEF TakeWrite, provider, client
<1>2. wire \in Seq(Writes) /\ answers \in Seq(Answer)
  BY DEF IInv, TypeOK
<1>3. Head(wire) \in Writes /\ Tail(wire) \in Seq(Writes)
  BY <1>1, <1>2, HeadTailProperties
<1>4. a \in Answer /\ a.write = Head(wire)
  BY <1>3 DEF Answer
<1> HIDE DEF a
<1>5. answers' \in Seq(Answer)
  BY <1>1, <1>2, <1>4, AppendProperties
<1>6. CanSend(stream) /\ Mutations(pipeline) = WritesOf(answers) \o wire
  BY <1>1, MatchesNow DEF Match, WritesOf
<1>7. WritesOf(answers') \o wire' = WritesOf(answers) \o wire
  <2>1. WritesOf(answers') = Append(WritesOf(answers), Head(wire))
    BY <1>1, <1>2, <1>4, WritesOfAppend
  <2>2. WritesOf(answers) \in Seq(Writes)
    BY <1>2, WritesOfType
  <2> DEFINE ws == WritesOf(answers)
  <2> HIDE DEF ws
  <2>3. Append(ws, Head(wire)) \o Tail(wire) = ws \o wire
    BY <1>1, <1>2, <2>2, HeadMoves DEF ws
  <2> QED
    BY <1>1, <2>1, <2>3 DEF ws
<1>8. AnswersMatchPipeline'
  BY <1>1, <1>6, <1>7 DEF AnswersMatchPipeline, WritesOf, Mutations, CanSend
<1>9. PipelineIsServed' /\ TimerIsIdle' /\ OneToken' /\ TokenIsOfUser'
  BY <1>1 DEF IInv, PipelineIsServed, TimerIsIdle, OneToken, TokenIsOfUser, IsAsked, IsToken,
              IsCredential, CanSend, IsStarted
<1>10. TypeOK'
  BY <1>1, <1>3, <1>5 DEF IInv, TypeOK
<1>11. IdsAreTaken' /\ CallbacksBelong'
  BY <1>1 DEF IInv, IdsAreTaken, CallbacksBelong
<1>12. OwnersKnown'
  BY <1>1 DEF IInv, OwnersKnown, WrittenBy
<1>13. UserIsComing' /\ StreamOfUser'
  BY <1>1 DEF IInv, UserIsComing, StreamOfUser, IsCredential
<1> QED
  BY <1>8, <1>9, <1>10, <1>11, <1>12, <1>13 DEF IInv

LEMMA ServerInv ==
    ASSUME IInv, Server \/ ServerAborts
    PROVE  IInv'
<1>1. /\ refused \subseteq Writes /\ disruptions \in 0..MaxDisruptions
      /\ applied \in [Users -> Seq(Writes)] /\ wire \in Seq(Writes)
      /\ \A u \in Users : \A i \in DOMAIN applied[u] : WrittenBy(applied[u][i], u)
  BY DEF IInv, TypeOK, OwnersKnown
<1>2. ASSUME wire # <<>> PROVE Head(wire) \in Writes /\ WrittenBy(Head(wire), user)
  <2>1. Head(wire) = wire[1] /\ 1 \in DOMAIN wire /\ Head(wire) \in Writes
    BY <1>1, <1>2, HeadTailProperties, LenProperties, EmptySeq
  <2> QED
    BY <2>1, WireWritten
<1>3. CASE ServerApplies
  <2>1. /\ TakeWrite("applied") /\ wire # <<>>
        /\ applied' = [applied EXCEPT ![streamUser] = Append(applied[streamUser], Head(wire))]
        /\ refused' = refused /\ disruptions' = disruptions /\ owner' = owner
    BY <1>3 DEF ServerApplies, TakeWrite
  <2>2. ASSUME NEW u \in Users
        PROVE  /\ applied'[u] \in Seq(Writes)
               /\ \A i \in DOMAIN applied'[u] : WrittenBy(applied'[u][i], u)
    <3> DEFINE before == applied[u]
               h == Head(wire)
    <3> HIDE DEF before, h
    <3>1. before \in Seq(Writes) /\ \A i \in DOMAIN before : WrittenBy(before[i], u)
      BY <1>1 DEF before
    <3>2. CASE u # streamUser
      BY <1>1, <2>1, <3>1, <3>2 DEF before
    <3>3. CASE u = streamUser
      <4>1. u = user
        BY <3>3, WritesAssumption DEF IInv, StreamOfUser
      <4>2. h \in Writes /\ WrittenBy(h, u)
        BY <1>2, <2>1, <4>1 DEF h
      <4>3. applied'[u] = Append(before, h)
        BY <1>1, <2>1, <3>3 DEF before, h
      <4>4. /\ Append(before, h) \in Seq(Writes) /\ Len(Append(before, h)) = Len(before) + 1
            /\ \A i \in 1..Len(before) : Append(before, h)[i] = before[i]
            /\ Append(before, h)[Len(before) + 1] = h
        BY <3>1, <4>2, AppendProperties
      <4> DEFINE after == Append(before, h)
      <4> HIDE DEF after
      <4>5. after \in Seq(Writes) /\ DOMAIN after = 1..(Len(before) + 1) /\ Len(before) \in Nat
            /\ DOMAIN before = 1..Len(before)
        BY <3>1, <4>4, LenProperties DEF after
      <4>6. ASSUME NEW i \in DOMAIN after PROVE WrittenBy(after[i], u)
        <5>1. CASE i = Len(before) + 1
          BY <4>2, <4>4, <5>1 DEF after
        <5>2. CASE i # Len(before) + 1
          <6>1. i \in 1..Len(before)
            BY <4>5, <5>2
          <6> QED
            BY <3>1, <4>4, <4>5, <6>1 DEF after
        <5> QED
          BY <5>1, <5>2
      <4> QED
        BY <4>3, <4>5, <4>6 DEF after
    <3> QED
      BY <3>2, <3>3
  <2>3. applied' \in [Users -> Seq(Writes)]
    <3>1. applied' = [u \in Users |-> applied'[u]]
      BY <1>1, <2>1
    <3> QED
      BY <2>2, <3>1
  <2> QED
    BY <1>1, <2>1, <2>2, <2>3, TakeWriteInv
<1>4. CASE ServerRefuses
  <2>1. /\ TakeWrite("refused") /\ wire # <<>> /\ applied' = applied
        /\ refused' = refused \cup {Head(wire)} /\ disruptions' = disruptions
    BY <1>4 DEF ServerRefuses, TakeWrite
  <2>2. refused' \subseteq Writes
    BY <1>1, <1>2, <2>1
  <2> QED
    BY <1>1, <2>1, <2>2, TakeWriteInv
<1>5. CASE ServerAborts
  <2>1. TakeWrite("aborted") /\ applied' = applied /\ refused' = refused /\ Disrupt
    BY <1>5 DEF ServerAborts
  <2>2. disruptions' \in 0..MaxDisruptions
    BY <1>1, <2>1, WritesAssumption DEF Disrupt
  <2> QED
    BY <1>1, <2>1, <2>2, TakeWriteInv
<1> QED
  BY <1>3, <1>4, <1>5 DEF Server

\* The process starts again with the queues that are stored.
LEMMA RestartInv ==
    ASSUME IInv, NEW stored, Restart(stored),
           DOMAIN stored = Users, \A u \in Users : IsQueue(stored[u]),
           \A u \in Users : \A x \in DOMAIN stored[u] :
              x \in DOMAIN mutations[u] /\ stored[u][x] = mutations[u][x],
           told' \in [Writes -> Seq({"ok", "failed"})], disruptions' \in 0..MaxDisruptions
    PROVE  IInv'
<1> DEFINE q == stored[authUser]
           c == [state |-> "Initial", handshakeComplete |-> FALSE, idleTimer |-> FALSE,
                 closeCount |-> stream.closeCount, requests |-> {}]
           p == <<>>
<1>1. /\ mutations' = stored /\ Disconnect /\ tasks' = <<>> /\ user' = authUser
      /\ nextBatchId' = LoadNextBatchId(stored)
      /\ callbacks' = [u \in Users |-> NoBatches]
      /\ FillWritePipeline(q, p, c, <<>>)
      /\ authUser' = authUser /\ tokenCounter' = tokenCounter
      /\ refused' = refused /\ owner' = owner
  BY DEF Restart, provider
<1>2. authUser \in Users /\ tokenCounter \in Nat /\ IsQueue(q) /\ stream.closeCount \in Nat
  BY DEF IInv, TypeOK, Stream
<1>3. /\ answers' = <<>> /\ streamUser' = Nil
      /\ applied' \in [Users -> Seq(Writes)]
      /\ \A u \in Users : \A i \in DOMAIN applied'[u] : WrittenBy(applied'[u][i], u)
  BY <1>1, Disconnected
<1>4. /\ c \in Stream /\ c.state = "Initial" /\ ~c.handshakeComplete /\ ~c.idleTimer
      /\ c.closeCount = stream.closeCount /\ c.requests = {}
  BY <1>2 DEF Stream
<1>5. p \in Seq(Batch) /\ Len(p) <= MaxPendingWrites /\ DOMAIN p = {}
  BY EmptySeq, WritesAssumption
<1>6. q = stored[authUser]
  OBVIOUS
<1>7. tasks' \in Seq(Task) /\ DOMAIN tasks' = {} /\ answers' \in Seq(Answer)
  BY <1>1, <1>3, EmptySeq
<1> HIDE DEF q, c, p
<1>8. /\ pipeline' \in Seq(Batch) /\ Len(pipeline') <= MaxPendingWrites
      /\ wire' \in Seq(Writes)
      /\ Match(pipeline', stream', answers', wire')
      /\ \A i \in DOMAIN pipeline' : \E x \in DOMAIN q : pipeline'[i].write = q[x]
      /\ stream' \in Stream /\ stream'.closeCount = c.closeCount
      /\ Timed(pipeline', stream')
      /\ pipeline' # <<>> => IsStarted(stream')
      /\ \/ stream'.requests = {} /\ stream'.state # "Starting"
         \/ stream'.requests = {NewRequest(c)} /\ stream'.state = "Starting"
  <2> DEFINE none == <<>>
  <2>1. Timed(p, c) /\ ~IsStarted(c) /\ none \in Seq(Writes) /\ c.state # "Open"
    BY <1>4, EmptySeq DEF Timed, IsStarted
  <2>2. Match(p, c, answers', none)
    BY <1>3, <1>4 DEF Match, CanSend
  <2>4. /\ FillWritePipeline(q, p, c, none) /\ IsQueue(q) /\ tokenCounter \in Nat
        /\ c \in Stream /\ p \in Seq(Batch) /\ Len(p) <= MaxPendingWrites
        /\ answers' \in Seq(Answer)
    BY <1>1, <1>2, <1>4, <1>5, <1>7
  <2> HIDE DEF none
  <2>3. /\ pipeline' \in Seq(Batch) /\ Len(pipeline') <= MaxPendingWrites
        /\ wire' \in Seq(Writes)
        /\ Match(pipeline', stream', answers', wire')
        /\ \A i \in DOMAIN pipeline' :
              \/ i \in DOMAIN p /\ pipeline'[i] = p[i]
              \/ \E x \in DOMAIN q : pipeline'[i].write = q[x]
        /\ stream' \in Stream /\ stream'.closeCount = c.closeCount
        /\ Timed(pipeline', stream')
        /\ pipeline' # <<>> => IsStarted(stream')
        /\ ~IsStarted(c) => \/ stream'.requests = c.requests /\ stream'.state # "Starting"
                            \/ /\ stream'.requests = c.requests \cup {NewRequest(c)}
                               /\ stream'.state = "Starting"
    BY <2>1, <2>2, <2>4, Filled
  <2> QED
    BY <1>4, <1>5, <2>1, <2>3
<1>9. /\ OneToken' /\ TokenIsOfUser'
      /\ stream'.state = "Starting" => \E r \in stream'.requests : IsAsked(r)'
  <2>1. NewRequest(c).closeCount = stream'.closeCount /\ stream'.closeCount <= stream'.closeCount
    BY <1>2, <1>4, <1>8 DEF NewRequest
  <2> QED
    BY <1>7, <1>8, <2>1 DEF OneToken, TokenIsOfUser, IsAsked
<1>10. AnswersMatchPipeline' /\ PipelineIsServed' /\ TimerIsIdle'
  BY <1>8, <1>9, StreamInv
<1>11. /\ LoadNextBatchId(stored) \in 1..(Len(owner) + 1)
       /\ \A u \in Users : \A x \in DOMAIN stored[u] : x < LoadNextBatchId(stored)
  <2>1. \A u \in Users : DOMAIN stored[u] \subseteq DOMAIN mutations[u]
    OBVIOUS
  <2> QED
    BY <2>1, NextIdLoaded
<1>12. IdsAreTaken'
  BY <1>1, <1>11 DEF IdsAreTaken
<1>13. TypeOK'
  <2>1. nextBatchId' \in Nat
    <3>1. Len(owner) \in Nat
      BY LenProperties DEF IInv, TypeOK
    <3> QED
      BY <1>1, <1>11, <3>1
  <2>2. \A u \in Users : Stored(mutations'[u]) /\ Stored(callbacks'[u])
    BY <1>1 DEF IsQueue, NoBatches, Stored
  <2> QED
    BY <1>1, <1>2, <1>3, <1>7, <1>8, <2>1, <2>2 DEF IInv, TypeOK
<1>14. CallbacksBelong'
  BY <1>1 DEF CallbacksBelong, NoBatches
<1>15. OwnersKnown'
  <2>1. ASSUME NEW u \in Users, NEW x \in DOMAIN stored[u]
        PROVE  stored[u][x] \in DOMAIN owner /\ owner[stored[u][x]] = u
    BY <2>1 DEF IInv, OwnersKnown, WrittenBy
  <2>2. ASSUME NEW i \in DOMAIN pipeline'
        PROVE  pipeline'[i].write \in DOMAIN owner /\ owner[pipeline'[i].write] = authUser
    BY <1>2, <1>6, <1>8, <2>1
  <2> QED
    BY <1>1, <1>3, <2>1, <2>2 DEF OwnersKnown, WrittenBy
<1>16. UserIsComing' /\ StreamOfUser'
  BY <1>1, <1>3, <1>7 DEF UserIsComing, StreamOfUser
<1> QED
  BY <1>9, <1>10, <1>12, <1>13, <1>14, <1>15, <1>16 DEF IInv

LEMMA KillsInv ==
    ASSUME IInv, Kill \/ KillInSuccess \/ KillInRejection
    PROVE  IInv'
<1>1. /\ DOMAIN mutations = Users /\ \A u \in Users : IsQueue(mutations[u])
      /\ user \in Users /\ told \in [Writes -> Seq({"ok", "failed"})]
      /\ Stored(callbacks[user])
      /\ (Disrupt => disruptions' \in 0..MaxDisruptions)
  BY QueuesFinite, WritesAssumption DEF IInv, TypeOK, Disrupt
<1>2. CASE Kill
  BY <1>1, <1>2, RestartInv DEF Kill
<1>3. CASE KillInSuccess
  <2>1. PICK w \in Writes : told' = [told EXCEPT ![w] = Append(told[w], "ok")]
    BY <1>1, <1>3 DEF KillInSuccess, Stored
  <2>2. Append(told[w], "ok") \in Seq({"ok", "failed"})
    BY <1>1, AppendProperties
  <2>3. told' \in [Writes -> Seq({"ok", "failed"})]
    BY <1>1, <2>1, <2>2
  <2> QED
    BY <1>1, <1>3, <2>3, RestartInv DEF KillInSuccess
<1>4. CASE KillInRejection
  <2> DEFINE id == Head(pipeline).id
             q == RemoveMutationBatch(mutations[user], id)
             stored == [mutations EXCEPT ![user] = q]
  <2>1. Restart(stored) /\ told' = told /\ disruptions' \in 0..MaxDisruptions
    BY <1>1, <1>4 DEF KillInRejection
  <2>2. /\ IsQueue(q) /\ DOMAIN q \subseteq DOMAIN mutations[user]
        /\ \A x \in DOMAIN q : q[x] = mutations[user][x]
    <3> HIDE DEF id
    <3>1. /\ IsQueue(q) /\ DOMAIN q = DOMAIN mutations[user] \ {id}
          /\ \A x \in DOMAIN mutations[user] \ {id} : q[x] = mutations[user][x]
      BY <1>1, BatchRemoved
    <3> HIDE DEF q
    <3> QED
      BY <3>1
  <2> HIDE DEF q
  <2>3. /\ DOMAIN stored = Users /\ \A u \in Users : IsQueue(stored[u])
        /\ \A u \in Users : \A x \in DOMAIN stored[u] :
              x \in DOMAIN mutations[u] /\ stored[u][x] = mutations[u][x]
    BY <1>1, <2>2
  <2> HIDE DEF stored
  <2> QED
    BY <1>1, <2>1, <2>3, RestartInv
<1> QED
  BY <1>2, <1>3, <1>4

-----------------------------------------------------------------------------
(* The theorems                                                            *)

LEMMA StutterInv == ASSUME IInv, UNCHANGED vars PROVE IInv'
<1>1. /\ authUser' = authUser /\ tokenCounter' = tokenCounter /\ tasks' = tasks
      /\ mutations' = mutations /\ user' = user /\ nextBatchId' = nextBatchId
      /\ callbacks' = callbacks /\ pipeline' = pipeline /\ stream' = stream
      /\ wire' = wire /\ answers' = answers /\ streamUser' = streamUser
      /\ applied' = applied /\ refused' = refused /\ owner' = owner /\ told' = told
      /\ disruptions' = disruptions
  BY DEF vars, provider, client, channel
<1>2. TypeOK'
  BY <1>1 DEF IInv, TypeOK
<1>3. IdsAreTaken' /\ CallbacksBelong' /\ OwnersKnown'
  BY <1>1, QueuesKept
<1>4. AnswersMatchPipeline' /\ PipelineIsServed' /\ TimerIsIdle'
  BY <1>1 DEF IInv, AnswersMatchPipeline, PipelineIsServed, TimerIsIdle, CanSend, IsStarted,
              Mutations
<1>5. OneToken' /\ UserIsComing' /\ TokenIsOfUser' /\ StreamOfUser'
  BY <1>1 DEF IInv, OneToken, UserIsComing, TokenIsOfUser, StreamOfUser, IsAsked, IsToken,
              IsCredential
<1> QED
  BY <1>2, <1>3, <1>4, <1>5 DEF IInv

\* The invariant holds in every state the client, the provider of tokens and the
\* server can reach, whatever breaks and however often.
THEOREM Invariance == Spec => []IInv
<1>1. IInv /\ [Next]_vars => IInv'
  <2> SUFFICES ASSUME IInv, [Next]_vars PROVE IInv'
    OBVIOUS
  <2>1. CASE UNCHANGED vars
    BY <2>1, StutterInv
  <2>2. CASE Next
    <3>1. CASE WriteMutations
      BY <3>1, WriteMutationsInv
    <3>2. CASE \E u \in Users : AuthStateChange(u)
      BY <3>2, AuthStateChangeInv
    <3>3. CASE Token
      BY <3>3, GetTokenInv DEF Token
    <3>4. CASE Tasks
      BY <3>4, HandleCredentialChangeInv, IgnoreTokenInv, TokenFailedInv, ResumeStartInv DEF Tasks
    <3>5. CASE BackoffElapsed
      BY <3>5, BackoffElapsedInv
    <3>6. CASE OnHandshakeComplete
      BY <3>6, OnHandshakeCompleteInv
    <3>7. CASE OnMutationResult
      BY <3>7, OnMutationResultInv
    <3>8. CASE OnStreamFinish \/ ConnectionLost \/ IdleTimeout
      BY <3>8, StreamEndsInv
    <3>9. CASE Server \/ ServerAborts
      BY <3>9, ServerInv
    <3>10. CASE Kill \/ KillInSuccess \/ KillInRejection
      BY <3>10, KillsInv
    <3> QED
      BY <2>2, <3>1, <3>2, <3>3, <3>4, <3>5, <3>6, <3>7, <3>8, <3>9, <3>10 DEF Next
  <2> QED
    BY <2>1, <2>2
<1> QED
  BY <1>1, InitInv, PTL DEF Spec

\* The variables keep their types: the pipeline never holds more batches than
\* kMaxPendingWrites, and the queues only writes that were made.
THEOREM TypeCorrect == Spec => []TypeOK
<1>1. IInv => TypeOK
  BY DEF IInv
<1> QED
  BY <1>1, Invariance, PTL

\* Batch ids that start over once the stored queues are empty never give a
\* completion of mutation_callbacks_ to a write of another user or an earlier one.
THEOREM CompletionsAreTheirs == Spec => []CallbacksBelong
<1>1. IInv => CallbacksBelong
  BY DEF IInv
<1> QED
  BY <1>1, Invariance, PTL

\* On a stream that can send, the answers and the wire are the pipeline in its
\* order: OnWriteStreamMutationResult may take an answer for the front.
THEOREM AnswersAreForTheFront == Spec => []AnswersMatchPipeline
<1>1. IInv => AnswersMatchPipeline
  BY DEF IInv
<1> QED
  BY <1>1, Invariance, PTL

\* Writes that wait have a stream that is started or backs off, and a stream that
\* is starting has a token on its way: no write waits for a stream nobody opens.
THEOREM NoWriteIsStranded == Spec => []PipelineIsServed
<1>1. IInv => PipelineIsServed
  BY DEF IInv
<1> QED
  BY <1>1, Invariance, PTL

\* The write stream carries the token of SyncEngine's user, through any number of
\* changes of user between the request and the arrival of the token.
THEOREM TokenOfCurrentUser == Spec => []StreamOfUser
<1>1. IInv => StreamOfUser
  BY DEF IInv
<1> QED
  BY <1>1, Invariance, PTL

\* The server applies a write only as the user who made it.
THEOREM AppliedAsOwner == Spec => []SentAsOwner
<1>1. IInv => SentAsOwner
  BY DEF IInv, OwnersKnown, WrittenBy, SentAsOwner
<1> QED
  BY <1>1, Invariance, PTL

=============================================================================
