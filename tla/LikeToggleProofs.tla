-------------------------- MODULE LikeToggleProofs --------------------------
(***************************************************************************)
(* Proofs about the heart of a post (module LikeToggle), for any devices,  *)
(* accounts, names and taps outstanding.                                   *)
(***************************************************************************)
EXTENDS LikeToggle, FiniteSetTheorems, WellFoundedInduction, TLAPS

-----------------------------------------------------------------------------
(* Requests and writes are sequences                                       *)

LEMMA Indices ==
    ASSUME NEW S, NEW s \in Seq(S)
    PROVE  /\ Len(s) \in Nat /\ DOMAIN s = 1..Len(s)
           /\ \A i \in DOMAIN s : s[i] \in S
           /\ s # <<>> => Len(s) # 0 /\ Head(s) = s[1] /\ 1 \in DOMAIN s /\ Last(s) = s[Len(s)]
BY DEF Last

LEMMA TailShifts ==
    ASSUME NEW S, NEW s \in Seq(S), s # <<>>
    PROVE  /\ Tail(s) \in Seq(S) /\ Len(Tail(s)) = Len(s) - 1
           /\ DOMAIN Tail(s) = 1..(Len(s) - 1)
           /\ \A i \in 1..(Len(s) - 1) : Tail(s)[i] = s[i + 1]
OBVIOUS

LEMMA AppendAdds ==
    ASSUME NEW S, NEW s \in Seq(S), NEW e \in S
    PROVE  /\ Append(s, e) \in Seq(S) /\ Len(Append(s, e)) = Len(s) + 1
           /\ DOMAIN Append(s, e) = 1..(Len(s) + 1)
           /\ \A i \in 1..Len(s) : Append(s, e)[i] = s[i]
           /\ Append(s, e)[Len(s) + 1] = e
           /\ Append(s, e) # <<>> /\ Last(Append(s, e)) = e
BY DEF Last

LEMMA PartsAreFinite ==
    ASSUME NEW S, NEW s \in Seq(S), NEW A \in SUBSET DOMAIN s
    PROVE  IsFiniteSet(A) /\ Cardinality(A) \in Nat
<1>1. Len(s) \in Nat /\ DOMAIN s = 1..Len(s)
  OBVIOUS
<1>2. IsFiniteSet(1..Len(s))
  BY <1>1, FS_Interval
<1> QED
  BY <1>1, <1>2, FS_Subset, FS_CardinalityType

\* Positions that lose the first one.
LEMMA ShiftedDown ==
    ASSUME NEW A \in SUBSET Nat, IsFiniteSet(A), NEW B \in SUBSET Nat,
           \A i \in B : i # 0 /\ i + 1 \in A
    PROVE  /\ Cardinality(B) <= Cardinality(A)
           /\ 1 \in A => Cardinality(B) <= Cardinality(A) - 1
<1> DEFINE f == [i \in B |-> i + 1]
<1>1. f \in Injection(B, A \ {1})
  BY DEF Injection, IsInjective
<1>2. /\ IsFiniteSet(A \ {1}) /\ Cardinality(A) \in Nat
      /\ Cardinality(A \ {1}) = IF 1 \in A THEN Cardinality(A) - 1 ELSE Cardinality(A)
  BY FS_RemoveElement, FS_CardinalityType
<1>3. IsFiniteSet(B) /\ Cardinality(B) <= Cardinality(A \ {1})
  BY <1>1, <1>2, FS_Injection
<1>4. Cardinality(B) \in Nat /\ Cardinality(A \ {1}) \in Nat
  BY <1>2, <1>3, FS_CardinalityType
<1> QED
  BY <1>2, <1>3, <1>4

\* Names are numbers, so an answer that is not empty has a first document.
LEMMA FirstIsThere ==
    ASSUME NEW docs \in SUBSET Favorite, docs # {}
    PROVE  First(docs) \in docs
<1> DEFINE S == {f.id : f \in docs}
<1>0. \A f \in docs : f.id \in Nat
  BY ConstantsAssumption DEF Favorite
<1>1. S \in SUBSET Nat /\ S # {}
  BY <1>0
<1>2. PICK x \in S : \A y \in S : ~ (<<y, x>> \in OpToRel(<, Nat))
  <2> HIDE DEF OpToRel, S
  <2> QED
    BY <1>1, NatLessThanWellFounded, WFMin
<1>3. \A y \in S : x <= y
  <2>1. \A y \in S : ~ (y < x)
    BY <1>1, <1>2 DEF OpToRel
  <2> HIDE DEF S
  <2> QED
    BY <1>1, <2>1
<1>4. PICK f \in docs : f.id = x
  OBVIOUS
<1>5. \A g \in docs : f.id <= g.id
  BY <1>3, <1>4
<1> QED
  BY <1>4, <1>5 DEF First

-----------------------------------------------------------------------------
(* The likes of a device stay bounded by its taps                          *)

LEMMA TogglesAreFinite ==
    ASSUME NEW r \in Seq(Request)
    PROVE  /\ IsFiniteSet(Toggles(r)) /\ Cardinality(Toggles(r)) \in Nat
           /\ \A a : /\ IsFiniteSet(Likers(r, a)) /\ Cardinality(Likers(r, a)) \in Nat
                     /\ Cardinality(Likers(r, a)) <= Cardinality(Toggles(r))
<1>1. Toggles(r) \in SUBSET DOMAIN r
  BY DEF Toggles
<1>2. IsFiniteSet(Toggles(r)) /\ Cardinality(Toggles(r)) \in Nat
  BY <1>1, PartsAreFinite
<1>3. ASSUME NEW a
      PROVE  /\ IsFiniteSet(Likers(r, a)) /\ Cardinality(Likers(r, a)) \in Nat
             /\ Cardinality(Likers(r, a)) <= Cardinality(Toggles(r))
  <2>1. Likers(r, a) \in SUBSET Toggles(r)
    BY DEF Likers
  <2> QED
    BY <1>2, <2>1, FS_Subset, FS_CardinalityType
<1> QED
  BY <1>2, <1>3

\* q is what r leaves when its first request is done, but for images asked since.
Follows(q, r) ==
    \A i \in DOMAIN q : q[i].kind = "toggle" => i + 1 \in DOMAIN r /\ q[i] = r[i + 1]

LEMMA DoneIsFewer ==
    ASSUME NEW r \in Seq(Request), NEW q \in Seq(Request), Follows(q, r), NEW a
    PROVE  /\ Cardinality(Toggles(q)) <= Cardinality(Toggles(r))
           /\ Cardinality(Likers(q, a)) <= Cardinality(Likers(r, a))
           /\ 1 \in Likers(r, a) => Cardinality(Likers(q, a)) <= Cardinality(Likers(r, a)) - 1
<1>1. Toggles(r) \in SUBSET Nat /\ Toggles(q) \in SUBSET Nat
  BY Indices DEF Toggles
<1>2. \A i \in Toggles(q) : i # 0 /\ i + 1 \in Toggles(r)
  BY Indices DEF Toggles, Follows
<1>3. Likers(r, a) \in SUBSET Nat /\ Likers(q, a) \in SUBSET Nat
  BY <1>1 DEF Likers
<1>4. \A i \in Likers(q, a) : i # 0 /\ i + 1 \in Likers(r, a)
  BY <1>2 DEF Likers, Follows, Toggles
<1>5. Cardinality(Toggles(q)) <= Cardinality(Toggles(r))
  BY <1>1, <1>2, TogglesAreFinite, ShiftedDown
<1>6. /\ Cardinality(Likers(q, a)) <= Cardinality(Likers(r, a))
      /\ 1 \in Likers(r, a) => Cardinality(Likers(q, a)) <= Cardinality(Likers(r, a)) - 1
  BY <1>3, <1>4, TogglesAreFinite, ShiftedDown
<1> QED
  BY <1>5, <1>6

\* Fewer taps wait, for the same documents and writes.
LEMMA FewerTaps ==
    ASSUME NEW docs, NEW w \in Seq(Write), NEW r \in Seq(Request), NEW q \in Seq(Request),
           NEW d \in Devices, Bounded(docs, w, r, d),
           Cardinality(Toggles(q)) <= Cardinality(Toggles(r)),
           \A a \in Accounts : Cardinality(Likers(q, a)) <= Cardinality(Likers(r, a))
    PROVE  Bounded(docs, w, q, d)
<1>1. Cardinality(Toggles(q)) <= MaxTaps
  <2>1. Cardinality(Toggles(q)) \in Nat /\ Cardinality(Toggles(r)) \in Nat
    BY TogglesAreFinite
  <2>2. Cardinality(Toggles(r)) <= MaxTaps
    BY DEF Bounded
  <2> QED
    BY <2>1, <2>2, ConstantsAssumption
<1>2. ASSUME NEW a \in Accounts
      PROVE  Cardinality(Kept(docs, w, d, a, Len(w))) + Cardinality(Likers(q, a)) <= MaxTaps
  <2>1. Len(w) \in 0..Len(w)
    BY Indices
  <2>2. Cardinality(Kept(docs, w, d, a, Len(w))) \in Nat
    BY <2>1, FS_CardinalityType DEF Bounded
  <2>3. Cardinality(Kept(docs, w, d, a, Len(w))) + Cardinality(Likers(r, a)) <= MaxTaps
    BY DEF Bounded
  <2>4. /\ Cardinality(Likers(q, a)) \in Nat /\ Cardinality(Likers(r, a)) \in Nat
        /\ Cardinality(Likers(q, a)) <= Cardinality(Likers(r, a))
    BY TogglesAreFinite
  <2> QED
    BY <2>2, <2>3, <2>4, ConstantsAssumption
<1> QED
  BY <1>1, <1>2 DEF Bounded

\* Fewer documents are kept, for the same requests.
LEMMA FewerKept ==
    ASSUME NEW docs, NEW docs2, NEW w \in Seq(Write), NEW w2 \in Seq(Write),
           NEW r \in Seq(Request), NEW d \in Devices, Bounded(docs, w, r, d),
           \A a \in Accounts : \A k \in 0..Len(w2) : \E n \in 0..Len(w) :
               Kept(docs2, w2, d, a, k) \subseteq Kept(docs, w, d, a, n),
           \A a \in Accounts :
               Kept(docs2, w2, d, a, Len(w2)) \subseteq Kept(docs, w, d, a, Len(w))
    PROVE  Bounded(docs2, w2, r, d)
<1>1. ASSUME NEW a \in Accounts, NEW k \in 0..Len(w2)
      PROVE  /\ IsFiniteSet(Kept(docs2, w2, d, a, k))
             /\ Cardinality(Kept(docs2, w2, d, a, k)) <= MaxTaps
  <2>1. PICK n \in 0..Len(w) : Kept(docs2, w2, d, a, k) \subseteq Kept(docs, w, d, a, n)
    OBVIOUS
  <2>2. /\ IsFiniteSet(Kept(docs, w, d, a, n)) /\ Cardinality(Kept(docs, w, d, a, n)) <= MaxTaps
    BY DEF Bounded
  <2>3. /\ IsFiniteSet(Kept(docs2, w2, d, a, k))
        /\ Cardinality(Kept(docs2, w2, d, a, k)) <= Cardinality(Kept(docs, w, d, a, n))
    BY <2>1, <2>2, FS_Subset
  <2>4. /\ Cardinality(Kept(docs, w, d, a, n)) \in Nat
        /\ Cardinality(Kept(docs2, w2, d, a, k)) \in Nat
    BY <2>2, <2>3, FS_CardinalityType
  <2> QED
    BY <2>2, <2>3, <2>4, ConstantsAssumption
<1>2. ASSUME NEW a \in Accounts
      PROVE  Cardinality(Kept(docs2, w2, d, a, Len(w2))) + Cardinality(Likers(r, a)) <= MaxTaps
  <2>1. Len(w) \in 0..Len(w)
    BY Indices
  <2>2. IsFiniteSet(Kept(docs, w, d, a, Len(w)))
    BY <2>1 DEF Bounded
  <2>3. /\ IsFiniteSet(Kept(docs2, w2, d, a, Len(w2)))
        /\ Cardinality(Kept(docs2, w2, d, a, Len(w2))) <= Cardinality(Kept(docs, w, d, a, Len(w)))
    BY <2>2, FS_Subset
  <2>4. /\ Cardinality(Kept(docs, w, d, a, Len(w))) \in Nat
        /\ Cardinality(Kept(docs2, w2, d, a, Len(w2))) \in Nat
        /\ Cardinality(Likers(r, a)) \in Nat
    BY <2>2, <2>3, FS_CardinalityType, TogglesAreFinite
  <2>5. Cardinality(Kept(docs, w, d, a, Len(w))) + Cardinality(Likers(r, a)) <= MaxTaps
    BY DEF Bounded
  <2> QED
    BY <2>3, <2>4, <2>5, ConstantsAssumption
<1>3. Cardinality(Toggles(r)) <= MaxTaps
  BY DEF Bounded
<1> QED
  BY <1>1, <1>2, <1>3 DEF Bounded

\* A write of another device adds nothing that is counted here.
LEMMA OthersWrite ==
    ASSUME NEW docs, NEW w \in Seq(Write), NEW r \in Seq(Request), NEW d \in Devices,
           NEW u \in Write, u.op = "add" => u.doc.by # d, Bounded(docs, w, r, d)
    PROVE  Bounded(Written(docs, u), w, r, d)
<1>1. ASSUME NEW a \in Accounts, NEW k \in 0..Len(w)
      PROVE  Kept(Written(docs, u), w, d, a, k) \subseteq Kept(docs, w, d, a, k)
  BY DEF Kept, Written
<1>2. Len(w) \in 0..Len(w)
  BY Indices
<1> QED
  BY <1>1, <1>2, FewerKept

\* The first write of a device moves from its queue to the server.
LEMMA OwnWriteIsSent ==
    ASSUME NEW docs, NEW w \in Seq(Write), w # <<>>, NEW r \in Seq(Request), NEW d \in Devices,
           \A i \in DOMAIN w : w[i].op = "add" =>
               \A j \in DOMAIN w : j < i => w[j].doc # w[i].doc,
           Bounded(docs, w, r, d)
    PROVE  Bounded(Written(docs, Head(w)), Tail(w), r, d)
<1> DEFINE t == Tail(w)
           u == Head(w)
<1>1. /\ Len(w) \in Nat /\ Len(w) # 0 /\ DOMAIN w = 1..Len(w) /\ u = w[1]
      /\ t \in Seq(Write) /\ Len(t) = Len(w) - 1
      /\ \A i \in 1..(Len(w) - 1) : t[i] = w[i + 1]
      /\ u.op \in {"add", "delete"}
  <2>1. /\ Len(w) \in Nat /\ Len(w) # 0 /\ DOMAIN w = 1..Len(w) /\ u = w[1] /\ w[1] \in Write
    BY Indices
  <2>2. /\ t \in Seq(Write) /\ Len(t) = Len(w) - 1
        /\ \A i \in 1..(Len(w) - 1) : t[i] = w[i + 1]
    BY TailShifts
  <2> QED
    BY <2>1, <2>2 DEF Write
<1> HIDE DEF t, u
<1>2. ASSUME NEW a \in Accounts, NEW k \in 0..(Len(w) - 1),
             NEW f \in Kept(Written(docs, u), t, d, a, k)
      PROVE  f \in Kept(docs, w, d, a, k + 1)
  <2>1. f \in Favorite /\ f.by = d /\ f.email = a
    BY DEF Kept
  <2>2. \A i \in 2..(k + 1) : ~Deletes(w[i], f)
    <3>1. ASSUME NEW i \in 2..(k + 1)
          PROVE  i - 1 \in 1..k /\ i - 1 \in 1..(Len(w) - 1) /\ w[i] = t[i - 1]
      BY <1>1
    <3> QED
      BY <3>1 DEF Kept
  <2>3. CASE f \in Written(docs, u)
    <3>1. ~Deletes(u, f)
      BY <1>1, <2>3 DEF Written, Deletes
    <3>2. f \in docs \/ Adds(u, f)
      BY <1>1, <2>3 DEF Written, Adds
    <3>3. \A i \in 1..(k + 1) : i = 1 \/ i \in 2..(k + 1)
      OBVIOUS
    <3>4. 1 \in 1..(k + 1)
      OBVIOUS
    <3>5. \A i \in 1..(k + 1) : ~Deletes(w[i], f)
      BY <1>1, <2>2, <3>1, <3>3
    <3>6. f \in docs \/ \E i \in 1..(k + 1) : Adds(w[i], f)
      BY <1>1, <3>2, <3>4
    <3> QED
      BY <2>1, <3>5, <3>6 DEF Kept
  <2>4. CASE \E i \in 1..k : Adds(t[i], f)
    <3>1. PICK i \in 1..k : Adds(t[i], f)
      BY <2>4
    <3>2. i + 1 \in 1..(k + 1) /\ Adds(w[i + 1], f) /\ i + 1 \in DOMAIN w /\ 1 \in DOMAIN w
      BY <1>1, <3>1
    <3>3. w[1].doc # f
      BY <3>2 DEF Adds
    <3>4. \A j \in 1..(k + 1) : j = 1 \/ j \in 2..(k + 1)
      OBVIOUS
    <3>5. \A j \in 1..(k + 1) : ~Deletes(w[j], f)
      BY <2>2, <3>3, <3>4 DEF Deletes
    <3> QED
      BY <2>1, <3>2, <3>5 DEF Kept
  <2> QED
    BY <2>3, <2>4 DEF Kept
<1>3. \A k \in 0..Len(t) : k \in 0..(Len(w) - 1) /\ k + 1 \in 0..Len(w)
  BY <1>1
<1>4. \A a \in Accounts : \A k \in 0..Len(t) : \E n \in 0..Len(w) :
          Kept(Written(docs, u), t, d, a, k) \subseteq Kept(docs, w, d, a, n)
  BY <1>2, <1>3
<1>5. Len(t) \in 0..(Len(w) - 1) /\ Len(t) + 1 = Len(w)
  BY <1>1
<1>6. \A a \in Accounts :
          Kept(Written(docs, u), t, d, a, Len(t)) \subseteq Kept(docs, w, d, a, Len(w))
  BY <1>2, <1>5
<1>7. Bounded(Written(docs, u), t, r, d)
  BY <1>1, <1>4, <1>6, FewerKept
<1> QED
  BY <1>7 DEF t, u

\* A delete keeps nothing more.
LEMMA DeleteKeepsLess ==
    ASSUME NEW docs, NEW w \in Seq(Write), NEW r \in Seq(Request), NEW d \in Devices,
           NEW u \in Write, u.op = "delete", Bounded(docs, w, r, d)
    PROVE  Bounded(docs, Append(w, u), r, d)
<1> DEFINE v == Append(w, u)
<1>1. /\ Len(w) \in Nat /\ v \in Seq(Write) /\ Len(v) = Len(w) + 1
      /\ \A i \in 1..Len(w) : v[i] = w[i]
      /\ v[Len(w) + 1] = u
  BY Indices, AppendAdds
<1> HIDE DEF v
<1>2. ASSUME NEW a \in Accounts, NEW k \in 0..Len(w)
      PROVE  Kept(docs, v, d, a, k) \subseteq Kept(docs, w, d, a, k)
  <2>1. \A i \in 1..k : v[i] = w[i]
    BY <1>1
  <2> QED
    BY <2>1 DEF Kept
<1>3. ASSUME NEW a \in Accounts
      PROVE  Kept(docs, v, d, a, Len(w) + 1) \subseteq Kept(docs, w, d, a, Len(w))
  <2>1. \A i \in 1..(Len(w) + 1) : i \in 1..Len(w) \/ i = Len(w) + 1
    BY <1>1
  <2>2. \A i \in 1..Len(w) : i \in 1..(Len(w) + 1)
    BY <1>1
  <2>3. \A f : ~Adds(v[Len(w) + 1], f)
    BY <1>1 DEF Adds
  <2> QED
    BY <1>1, <2>1, <2>2, <2>3 DEF Kept
<1>4. \A k \in 0..Len(v) : k \in 0..Len(w) \/ k = Len(w) + 1
  BY <1>1
<1>5. Len(w) \in 0..Len(w)
  BY <1>1
<1>6. \A a \in Accounts : \A k \in 0..Len(v) : \E n \in 0..Len(w) :
          Kept(docs, v, d, a, k) \subseteq Kept(docs, w, d, a, n)
  BY <1>2, <1>3, <1>4, <1>5
<1>7. Bounded(docs, v, r, d)
  BY <1>1, <1>3, <1>6, FewerKept
<1> QED
  BY <1>7 DEF v

\* A tap that likes becomes a like.
LEMMA LikeTakesATap ==
    ASSUME NEW docs, NEW w \in Seq(Write), NEW r \in Seq(Request), NEW q \in Seq(Request),
           NEW d \in Devices, NEW u \in Write, u.op = "add",
           1 \in Likers(r, u.doc.email), Follows(q, r), Bounded(docs, w, r, d)
    PROVE  Bounded(docs, Append(w, u), q, d)
<1> DEFINE v == Append(w, u)
<1>1. /\ Len(w) \in Nat /\ v \in Seq(Write) /\ Len(v) = Len(w) + 1
      /\ \A i \in 1..Len(w) : v[i] = w[i]
      /\ v[Len(w) + 1] = u /\ u.doc.email \in Accounts
  BY Indices, AppendAdds DEF Write, Favorite
<1> HIDE DEF v
<1>2. ASSUME NEW a \in Accounts, NEW k \in 0..Len(w)
      PROVE  Kept(docs, v, d, a, k) = Kept(docs, w, d, a, k)
  <2>1. \A i \in 1..k : v[i] = w[i]
    BY <1>1
  <2> QED
    BY <2>1 DEF Kept
<1>3. ASSUME NEW a \in Accounts
      PROVE  /\ IsFiniteSet(Kept(docs, v, d, a, Len(w) + 1))
             /\ Cardinality(Kept(docs, v, d, a, Len(w) + 1)) \in Nat
             /\ Cardinality(Kept(docs, v, d, a, Len(w) + 1)) + Cardinality(Likers(q, a)) <= MaxTaps
  <2>1. \A i \in 1..(Len(w) + 1) : i \in 1..Len(w) \/ i = Len(w) + 1
    BY <1>1
  <2>2. \A i \in 1..Len(w) : i \in 1..(Len(w) + 1)
    BY <1>1
  <2>3. /\ Cardinality(Likers(q, a)) \in Nat /\ Cardinality(Likers(r, a)) \in Nat
        /\ Cardinality(Likers(q, a)) <= Cardinality(Likers(r, a))
        /\ 1 \in Likers(r, a) => Cardinality(Likers(q, a)) <= Cardinality(Likers(r, a)) - 1
    BY TogglesAreFinite, DoneIsFewer
  <2>4. Len(w) \in 0..Len(w)
    BY <1>1
  <2>5. /\ IsFiniteSet(Kept(docs, w, d, a, Len(w)))
        /\ Cardinality(Kept(docs, w, d, a, Len(w))) + Cardinality(Likers(r, a)) <= MaxTaps
    BY <2>4 DEF Bounded
  <2>6. Cardinality(Kept(docs, w, d, a, Len(w))) \in Nat
    BY <2>5, FS_CardinalityType
  <2>7. CASE a = u.doc.email
    <3>1. Kept(docs, v, d, a, Len(w) + 1) \subseteq Kept(docs, w, d, a, Len(w)) \cup {u.doc}
      BY <1>1, <2>1, <2>2 DEF Kept, Adds
    <3>2. /\ IsFiniteSet(Kept(docs, w, d, a, Len(w)) \cup {u.doc})
          /\ Cardinality(Kept(docs, w, d, a, Len(w)) \cup {u.doc})
               <= Cardinality(Kept(docs, w, d, a, Len(w))) + 1
      <4> DEFINE K == Kept(docs, w, d, a, Len(w))
      <4>1. /\ IsFiniteSet(K \cup {u.doc})
            /\ Cardinality(K \cup {u.doc}) = IF u.doc \in K THEN Cardinality(K) ELSE Cardinality(K) + 1
        BY <2>5, FS_AddElement
      <4> HIDE DEF K
      <4> QED
        BY <2>6, <4>1 DEF K
    <3>3. /\ IsFiniteSet(Kept(docs, v, d, a, Len(w) + 1))
          /\ Cardinality(Kept(docs, v, d, a, Len(w) + 1))
               <= Cardinality(Kept(docs, w, d, a, Len(w)) \cup {u.doc})
      BY <3>1, <3>2, FS_Subset
    <3>4. /\ Cardinality(Kept(docs, w, d, a, Len(w)) \cup {u.doc}) \in Nat
          /\ Cardinality(Kept(docs, v, d, a, Len(w) + 1)) \in Nat
      BY <3>2, <3>3, FS_CardinalityType
    <3> QED
      BY <2>3, <2>5, <2>6, <2>7, <3>2, <3>3, <3>4, ConstantsAssumption
  <2>8. CASE a # u.doc.email
    <3>1. Kept(docs, v, d, a, Len(w) + 1) \subseteq Kept(docs, w, d, a, Len(w))
      BY <1>1, <2>1, <2>2, <2>8 DEF Kept, Adds
    <3>2. /\ IsFiniteSet(Kept(docs, v, d, a, Len(w) + 1))
          /\ Cardinality(Kept(docs, v, d, a, Len(w) + 1)) <= Cardinality(Kept(docs, w, d, a, Len(w)))
      BY <2>5, <3>1, FS_Subset
    <3>3. Cardinality(Kept(docs, v, d, a, Len(w) + 1)) \in Nat
      BY <3>2, FS_CardinalityType
    <3> QED
      BY <2>3, <2>5, <2>6, <3>2, <3>3, ConstantsAssumption
  <2> QED
    BY <2>7, <2>8
<1>4. ASSUME NEW a \in Accounts, NEW k \in 0..Len(v)
      PROVE  /\ IsFiniteSet(Kept(docs, v, d, a, k))
             /\ Cardinality(Kept(docs, v, d, a, k)) <= MaxTaps
  <2>1. CASE k \in 0..Len(w)
    BY <1>2, <2>1 DEF Bounded
  <2>2. CASE k = Len(w) + 1
    <3>1. Cardinality(Likers(q, a)) \in Nat
      BY TogglesAreFinite
    <3> QED
      BY <1>3, <2>2, <3>1, ConstantsAssumption
  <2> QED
    BY <1>1, <2>1, <2>2
<1>5. Cardinality(Toggles(q)) <= MaxTaps
  <2>1. /\ Cardinality(Toggles(q)) \in Nat /\ Cardinality(Toggles(r)) \in Nat
        /\ Cardinality(Toggles(q)) <= Cardinality(Toggles(r))
    BY TogglesAreFinite, DoneIsFewer
  <2>2. Cardinality(Toggles(r)) <= MaxTaps
    BY DEF Bounded
  <2> QED
    BY <2>1, <2>2, ConstantsAssumption
<1>6. Bounded(docs, v, q, d)
  BY <1>1, <1>3, <1>4, <1>5 DEF Bounded
<1> QED
  BY <1>6 DEF v

\* A request of the page that asks for the image changes nothing that is counted;
\* a tap is counted, and has no answer yet.
LEMMA AskedIsBounded ==
    ASSUME NEW docs, NEW w \in Seq(Write), NEW r \in Seq(Request), NEW d \in Devices,
           NEW x \in Request, ~x.answered,
           x.kind = "toggle" => Cardinality(Toggles(r)) < MaxTaps,
           Bounded(docs, w, r, d)
    PROVE  Bounded(docs, w, Append(r, x), d)
<1> DEFINE q == Append(r, x)
<1>1. /\ Len(r) \in Nat /\ q \in Seq(Request) /\ DOMAIN r = 1..Len(r)
      /\ DOMAIN q = 1..(Len(r) + 1) /\ q[Len(r) + 1] = x
      /\ \A i \in 1..Len(r) : q[i] = r[i]
  BY Indices, AppendAdds
<1> HIDE DEF q
<1>2. Toggles(q) = IF x.kind = "toggle" THEN Toggles(r) \cup {Len(r) + 1} ELSE Toggles(r)
  BY <1>1 DEF Toggles
<1>3. ASSUME NEW a
      PROVE  Likers(q, a) = Likers(r, a)
  BY <1>1, <1>2 DEF Likers, Toggles
<1>4. /\ Cardinality(Toggles(r)) \in Nat /\ IsFiniteSet(Toggles(r))
      /\ Cardinality(Toggles(r)) <= MaxTaps
  BY TogglesAreFinite DEF Bounded
<1>5. Cardinality(Toggles(r) \cup {Len(r) + 1}) <= Cardinality(Toggles(r)) + 1
  <2>1. Cardinality(Toggles(r) \cup {Len(r) + 1}) =
          IF Len(r) + 1 \in Toggles(r) THEN Cardinality(Toggles(r)) ELSE Cardinality(Toggles(r)) + 1
    BY <1>4, FS_AddElement
  <2> QED
    BY <1>4, <2>1
<1>6. Cardinality(Toggles(q)) \in Nat
  BY <1>1, TogglesAreFinite
<1>7. Cardinality(Toggles(q)) <= MaxTaps
  BY <1>2, <1>4, <1>5, <1>6, ConstantsAssumption
<1>8. Bounded(docs, w, q, d)
  BY <1>3, <1>7 DEF Bounded
<1> QED
  BY <1>8 DEF q

\* A request that is done frees what it took.
LEMMA DoneIsBounded ==
    ASSUME NEW docs, NEW w \in Seq(Write), NEW r \in Seq(Request), NEW q \in Seq(Request),
           NEW d \in Devices, Follows(q, r), Bounded(docs, w, r, d)
    PROVE  Bounded(docs, w, q, d)
<1>1. /\ Cardinality(Toggles(q)) <= Cardinality(Toggles(r))
      /\ \A a \in Accounts : Cardinality(Likers(q, a)) <= Cardinality(Likers(r, a))
  BY DoneIsFewer
<1> QED
  BY <1>1, FewerTaps

\* A tap is answered that nobody likes the post only when no like is kept.
LEMMA AnswerIsBounded ==
    ASSUME NEW docs, NEW w \in Seq(Write), NEW r \in Seq(Request), NEW q \in Seq(Request),
           NEW d \in Devices, NEW i \in DOMAIN r, DOMAIN q = DOMAIN r,
           \A j \in DOMAIN r : j # i => q[j] = r[j],
           ~r[i].answered, q[i].kind = r[i].kind, q[i].email = r[i].email,
           q[i].result = {} => Kept(docs, w, d, r[i].email, Len(w)) = {},
           Bounded(docs, w, r, d)
    PROVE  Bounded(docs, w, q, d)
<1>1. Toggles(q) = Toggles(r)
  BY DEF Toggles
<1>2. ASSUME NEW a \in Accounts
      PROVE  Cardinality(Kept(docs, w, d, a, Len(w))) + Cardinality(Likers(q, a)) <= MaxTaps
  <2>1. CASE a = r[i].email /\ q[i].result = {}
    <3>1. Cardinality(Kept(docs, w, d, a, Len(w))) = 0
      BY <2>1, FS_EmptySet
    <3>2. /\ Cardinality(Likers(q, a)) \in Nat /\ Cardinality(Toggles(q)) \in Nat
          /\ Cardinality(Likers(q, a)) <= Cardinality(Toggles(q))
      BY TogglesAreFinite
    <3>3. Cardinality(Toggles(q)) <= MaxTaps
      BY <1>1 DEF Bounded
    <3> QED
      BY <3>1, <3>2, <3>3, ConstantsAssumption
  <2>2. CASE ~ (a = r[i].email /\ q[i].result = {})
    <3>1. Likers(q, a) = Likers(r, a)
      BY <1>1, <2>2 DEF Likers, Toggles
    <3> QED
      BY <3>1 DEF Bounded
  <2> QED
    BY <2>1, <2>2
<1> QED
  BY <1>1, <1>2 DEF Bounded

\* What is left of the writes when the process ends keeps no more documents: the
\* server may have taken as much of them.
LEMMA LossIsBounded ==
    ASSUME NEW docs, NEW w \in Seq(Write), NEW r \in Seq(Request), NEW d \in Devices,
           NEW n \in 0..Len(w), n = Len(w) \/ r = <<>>, Bounded(docs, w, r, d)
    PROVE  Bounded(docs, SubSeq(w, 1, n), r, d)
<1> DEFINE v == SubSeq(w, 1, n)
<1>1. /\ Len(w) \in Nat /\ n \in Nat /\ n <= Len(w)
      /\ v \in Seq(Write) /\ Len(v) = n /\ \A i \in 1..n : v[i] = w[i]
  BY Indices
<1> HIDE DEF v
<1>2. ASSUME NEW a \in Accounts, NEW k \in 0..n
      PROVE  Kept(docs, v, d, a, k) = Kept(docs, w, d, a, k)
  <2>1. \A i \in 1..k : v[i] = w[i]
    BY <1>1
  <2> QED
    BY <2>1 DEF Kept
<1>3. ASSUME NEW a \in Accounts, NEW k \in 0..n
      PROVE  /\ IsFiniteSet(Kept(docs, v, d, a, k))
             /\ Cardinality(Kept(docs, v, d, a, k)) <= MaxTaps
  <2>1. k \in 0..Len(w)
    BY <1>1
  <2> QED
    BY <1>2, <2>1 DEF Bounded
<1>4. ASSUME NEW a \in Accounts
      PROVE  Cardinality(Kept(docs, v, d, a, n)) + Cardinality(Likers(r, a)) <= MaxTaps
  <2>1. n \in 0..n
    BY <1>1
  <2>2. CASE n = Len(w)
    BY <1>2, <2>1, <2>2 DEF Bounded
  <2>3. CASE r = <<>>
    <3>1. Likers(r, a) = {}
      BY <2>3 DEF Likers, Toggles
    <3>2. Cardinality(Likers(r, a)) = 0
      BY <3>1, FS_EmptySet
    <3>3. Cardinality(Kept(docs, v, d, a, n)) \in Nat /\ Cardinality(Kept(docs, v, d, a, n)) <= MaxTaps
      BY <1>3, <2>1, FS_CardinalityType
    <3> QED
      BY <3>2, <3>3, ConstantsAssumption
  <2> QED
    BY <2>2, <2>3
<1>5. Cardinality(Toggles(r)) <= MaxTaps
  BY DEF Bounded
<1>6. Bounded(docs, v, r, d)
  BY <1>1, <1>3, <1>4, <1>5 DEF Bounded
<1> QED
  BY <1>6 DEF v

-----------------------------------------------------------------------------
(* What a device sees                                                      *)

\* Sending a write changes nothing for the device that made it.
LEMMA SentIsSeen ==
    ASSUME NEW docs, NEW w \in Seq(Write), w # <<>>
    PROVE  View(Written(docs, Head(w)), Tail(w)) = View(docs, w)
<1> DEFINE t == Tail(w)
           u == Head(w)
<1>1. /\ Len(w) \in Nat /\ Len(w) # 0 /\ DOMAIN w = 1..Len(w) /\ u = w[1] /\ w[1] \in Write
  BY Indices
<1>2. /\ DOMAIN t = 1..(Len(w) - 1) /\ \A i \in 1..(Len(w) - 1) : t[i] = w[i + 1]
  BY TailShifts
<1>3. u.op \in {"add", "delete"}
  BY <1>1 DEF Write
<1> HIDE DEF t, u
<1>4. \A i \in DOMAIN w : i = 1 \/ (i - 1 \in DOMAIN t /\ t[i - 1] = w[i])
  BY <1>1, <1>2
<1>5. \A i \in DOMAIN t : i + 1 \in DOMAIN w /\ w[i + 1] = t[i]
  BY <1>1, <1>2
<1>6. 1 \in DOMAIN w /\ \A i \in DOMAIN w : i \in Nat /\ i >= 1
  BY <1>1
<1>7. ASSUME NEW f \in Favorite
      PROVE  f \in View(Written(docs, u), t) <=> f \in View(docs, w)
  <2>1. (\A i \in DOMAIN w : ~Deletes(w[i], f)) <=>
           (~Deletes(u, f) /\ \A i \in DOMAIN t : ~Deletes(t[i], f))
    BY <1>1, <1>4, <1>5, <1>6
  <2>2. (\E i \in DOMAIN w : /\ Adds(w[i], f)
                             /\ \A j \in DOMAIN w : j > i => ~Deletes(w[j], f)) <=>
           \/ Adds(u, f) /\ \A i \in DOMAIN t : ~Deletes(t[i], f)
           \/ \E i \in DOMAIN t : /\ Adds(t[i], f)
                                  /\ \A j \in DOMAIN t : j > i => ~Deletes(t[j], f)
    <3>1. ASSUME NEW i \in DOMAIN w, Adds(w[i], f),
                 \A j \in DOMAIN w : j > i => ~Deletes(w[j], f)
          PROVE  \/ Adds(u, f) /\ \A j \in DOMAIN t : ~Deletes(t[j], f)
                 \/ \E k \in DOMAIN t : /\ Adds(t[k], f)
                                        /\ \A j \in DOMAIN t : j > k => ~Deletes(t[j], f)
      <4>1. CASE i = 1
        <5>1. \A j \in DOMAIN t : j + 1 > i
          BY <1>2, <4>1
        <5>2. \A j \in DOMAIN t : ~Deletes(t[j], f)
          BY <1>5, <3>1, <5>1
        <5> QED
          BY <1>1, <3>1, <4>1, <5>2
      <4>2. CASE i # 1
        <5>1. i - 1 \in DOMAIN t /\ t[i - 1] = w[i]
          BY <1>4, <4>2
        <5>2. \A j \in DOMAIN t : j > i - 1 => j + 1 > i
          BY <1>2, <1>6
        <5>3. \A j \in DOMAIN t : j > i - 1 => ~Deletes(t[j], f)
          BY <1>5, <3>1, <5>2
        <5> QED
          BY <3>1, <5>1, <5>3
      <4> QED
        BY <4>1, <4>2
    <3>2. ASSUME Adds(u, f), \A i \in DOMAIN t : ~Deletes(t[i], f)
          PROVE  \A j \in DOMAIN w : j > 1 => ~Deletes(w[j], f)
      BY <1>4, <3>2
    <3>3. ASSUME NEW i \in DOMAIN t, Adds(t[i], f),
                 \A j \in DOMAIN t : j > i => ~Deletes(t[j], f)
          PROVE  \A j \in DOMAIN w : j > i + 1 => ~Deletes(w[j], f)
      <4>1. \A j \in DOMAIN w : j > i + 1 => j # 1 /\ j - 1 > i
        BY <1>2, <1>6
      <4> QED
        BY <1>4, <3>3, <4>1
    <3> QED
      BY <1>1, <1>5, <1>6, <3>1, <3>2, <3>3
  <2>3. f \in Written(docs, u) <=> (f \in docs /\ ~Deletes(u, f)) \/ Adds(u, f)
    BY <1>3 DEF Written, Adds, Deletes
  <2>4. ~ (Adds(u, f) /\ Deletes(u, f))
    BY DEF Adds, Deletes
  <2> QED
    BY <2>1, <2>2, <2>3, <2>4 DEF View
<1>8. View(Written(docs, u), t) = View(docs, w)
  BY <1>7 DEF View
<1> QED
  BY <1>8 DEF t, u

\* A device that knows its likes, and sees none, keeps none.
LEMMA NothingKept ==
    ASSUME NEW docs, NEW seen, NEW w \in Seq(Write), NEW d \in Devices, NEW a,
           \A f \in docs : f.by = d => f \in seen,
           {f \in View(seen, w) : f.email = a} = {}
    PROVE  Kept(docs, w, d, a, Len(w)) = {}
<1>1. DOMAIN w = 1..Len(w)
  BY Indices
<1>2. ASSUME NEW f \in Kept(docs, w, d, a, Len(w))
      PROVE  f \in View(seen, w) /\ f.email = a
  BY <1>1, <1>2 DEF Kept, View
<1> QED
  BY <1>2

-----------------------------------------------------------------------------
(* Every step keeps the invariant                                         *)

LEMMA StateIsTyped ==
    ASSUME TypeOK, NEW e \in Devices
    PROVE  /\ queue[e] \in Seq(Write) /\ requests[e] \in Seq(Request)
           /\ known[e] \in SUBSET Favorite /\ savedId[e] \in Accounts \cup {Nil}
           /\ \A i \in DOMAIN requests[e] :
                 requests[e][i] \in Request /\ requests[e][i].result \in SUBSET Favorite
           /\ \A i \in DOMAIN queue[e] : queue[e][i] \in Write /\ queue[e][i].doc \in Favorite
<1>1. queue[e] \in Seq(Write) /\ requests[e] \in Seq(Request)
  BY DEF TypeOK
<1>2. \A x \in Request : x.result \in SUBSET Favorite
  BY DEF Request
<1>3. \A x \in Write : x.doc \in Favorite
  BY DEF Write
<1>4. /\ \A i \in DOMAIN requests[e] : requests[e][i] \in Request
      /\ \A i \in DOMAIN queue[e] : queue[e][i] \in Write
  BY <1>1, Indices
<1> QED
  BY <1>1, <1>2, <1>3, <1>4 DEF TypeOK

LEMMA OwnIsTyped ==
    ASSUME NEW e, NEW a
    PROVE  Own(e, a) \in SUBSET Favorite
BY DEF Own, View

\* What a device sees changes with what it knows and what it writes.
LEMMA OwnIsFramed ==
    ASSUME NEW e \in Devices, known'[e] = known[e], queue'[e] = queue[e]
    PROVE  \A a : Own(e, a)' = Own(e, a)
BY DEF Own, View

\* It sees the same while a write is sent.
LEMMA SentIsSame ==
    ASSUME TypeOK, NEW d \in Devices, Upload(d)
    PROVE  \A e \in Devices : \A a : Own(e, a)' = Own(e, a)
<1> DEFINE w == queue[d]
<1>1. w \in Seq(Write) /\ w # <<>>
  <2>1. w \in Seq(Write) /\ stored[d] \in Nat /\ stored[d] > 0 /\ stored[d] <= Len(w)
    BY DEF TypeOK, Upload
  <2>2. Len(w) # 0
    BY <2>1, Indices
  <2> QED
    BY <2>1, <2>2
<1>2. /\ known'[d] = Written(known[d], Head(w)) /\ queue'[d] = Tail(w)
      /\ \A e \in Devices : e # d => known'[e] = known[e] /\ queue'[e] = queue[e]
  BY DEF TypeOK, Upload
<1> HIDE DEF w
<1>3. View(Written(known[d], Head(w)), Tail(w)) = View(known[d], w)
  BY <1>1, SentIsSeen
<1>4. \A a : Own(d, a)' = {f \in View(Written(known[d], Head(w)), Tail(w)) : f.email = a}
  BY <1>2 DEF Own, View
<1>5. \A a : Own(d, a)' = Own(d, a)
  BY <1>3, <1>4 DEF Own, w
<1>6. \A e \in Devices : \A a : e # d => Own(e, a)' = Own(e, a)
  BY <1>2, OwnIsFramed
<1> QED
  BY <1>5, <1>6

\* What it hears from the server is no news of an account used nowhere else.
LEMMA RefreshedIsSame ==
    ASSUME TypeOK, SoleIsKnown, NEW d \in Devices, Refresh(d)
    PROVE  \A e \in Devices : \A a : Sole(e, a) => Own(e, a)' = Own(e, a)
<1>1. ASSUME NEW e \in Devices, NEW a, Sole(e, a), NEW f \in Favorite, f.email = a
      PROVE  f \in known'[e] <=> f \in known[e]
  <2>1. a \in Accounts
    BY <1>1 DEF Favorite
  <2> QED
    BY <1>1, <2>1 DEF TypeOK, SoleIsKnown, Refresh
<1> QED
  BY <1>1 DEF Own, View, Refresh

LEMMA KeptIsFramed ==
    ASSUME \A e \in Devices : Bounded(favorites', queue'[e], requests'[e], e)
    PROVE  KeptIsBounded'
BY DEF KeptIsBounded, Bounded, Kept, Likers, Toggles

\* The heart of a device goes on agreeing while the device rests.
LEMMA AgreementIsFramed ==
    ASSUME NEW e \in Devices, WillAgree(e),
           requests'[e] = requests[e], page'[e] = page[e], savedId'[e] = savedId[e],
           \A a : Sole(e, a) => Own(e, a)' = Own(e, a)
    PROVE  WillAgree(e)'
BY DEF WillAgree, Toggles, Last

\* A device whose page is closed owes nothing.
LEMMA ClosedAgrees ==
    ASSUME NEW e \in Devices, ~page'[e], Toggles(requests'[e]) = {}
    PROVE  WillAgree(e)'
BY DEF WillAgree, Toggles

\* One more request is asked.
LEMMA AskedIsAdded ==
    ASSUME TypeOK, NEW d \in Devices, NEW x \in Request,
           requests' = [requests EXCEPT ![d] = Append(@, x)]
    PROVE  /\ requests' \in [Devices -> Seq(Request)]
           /\ \A e \in Devices : e # d => requests'[e] = requests[e]
           /\ requests'[d] = Append(requests[d], x)
           /\ requests'[d] # <<>> /\ Last(requests'[d]) = x
           /\ \A i \in DOMAIN requests'[d] :
                 requests'[d][i] = x \/ (i \in DOMAIN requests[d] /\ requests'[d][i] = requests[d][i])
           /\ \A i \in DOMAIN requests[d] :
                 i \in DOMAIN requests'[d] /\ requests'[d][i] = requests[d][i]
<1>1. requests[d] \in Seq(Request) /\ DOMAIN requests = Devices
  BY DEF TypeOK
<1>2. /\ requests'[d] = Append(requests[d], x)
      /\ \A e \in Devices : e # d => requests'[e] = requests[e]
  BY <1>1
<1>3. /\ requests'[d] \in Seq(Request) /\ requests'[d] # <<>> /\ Last(requests'[d]) = x
      /\ DOMAIN requests'[d] = 1..(Len(requests[d]) + 1) /\ DOMAIN requests[d] = 1..Len(requests[d])
      /\ \A i \in 1..Len(requests[d]) : requests'[d][i] = requests[d][i]
      /\ requests'[d][Len(requests[d]) + 1] = x /\ Len(requests[d]) \in Nat
  BY <1>1, <1>2, AppendAdds, Indices
<1>4. requests' \in [Devices -> Seq(Request)]
  BY <1>2, <1>3 DEF TypeOK
<1> QED
  BY <1>2, <1>3, <1>4

\* The first request is done: an image may be asked for, or the process trap.
LEMMA FirstIsDone ==
    ASSUME CoreInv, NEW d \in Devices, NEW w, requests[d] # <<>>,
           \/ checkLikeImage(d, w)
           \/ requests' = [requests EXCEPT ![d] = Tail(@)] /\ UNCHANGED <<page, crashed>>
    PROVE  /\ requests' \in [Devices -> Seq(Request)]
           /\ page' \in [Devices -> BOOLEAN] /\ crashed' \in [Devices -> BOOLEAN]
           /\ \A e \in Devices : e # d => /\ requests'[e] = requests[e] /\ page'[e] = page[e]
                                          /\ crashed'[e] = crashed[e]
           /\ page'[d] => page[d] /\ ~crashed'[d]
           /\ requests'[d] # <<>> => page'[d] = page[d]
           /\ \A i \in DOMAIN requests'[d] :
                 \/ i + 1 \in DOMAIN requests[d] /\ requests'[d][i] = requests[d][i + 1]
                 \/ savedId[d] # Nil
                    /\ requests'[d][i] = Ask("image", savedId[d], Head(requests[d]).shown)
           /\ checkLikeImage(d, w) /\ page'[d] =>
                 /\ requests'[d] # <<>>
                 /\ Last(requests'[d]) = Ask("image", savedId[d], Head(requests[d]).shown)
<1> DEFINE r == requests[d]
           t == Tail(r)
           x == Ask("image", savedId[d], Head(r).shown)
<1>1. /\ r \in Seq(Request) /\ Len(r) \in Nat /\ Len(r) # 0 /\ DOMAIN r = 1..Len(r)
      /\ Head(r) = r[1] /\ Last(r) = r[Len(r)] /\ Head(r) \in Request
  BY StateIsTyped, Indices DEF CoreInv
<1>2. /\ t \in Seq(Request) /\ Len(t) = Len(r) - 1 /\ DOMAIN t = 1..(Len(r) - 1)
      /\ \A i \in 1..(Len(r) - 1) : t[i] = r[i + 1]
  BY <1>1, TailShifts
<1>3. /\ DOMAIN requests = Devices /\ DOMAIN page = Devices /\ DOMAIN crashed = Devices
      /\ requests \in [Devices -> Seq(Request)]
      /\ page \in [Devices -> BOOLEAN] /\ crashed \in [Devices -> BOOLEAN]
      /\ page[d] => ~crashed[d]
  BY DEF CoreInv, TypeOK, PageHasAccount
<1>4. savedId[d] # Nil => x \in Request
  <2>1. Head(r).shown \in BOOLEAN
    BY <1>1 DEF Request
  <2>2. savedId[d] # Nil => savedId[d] \in Accounts
    BY DEF CoreInv, TypeOK
  <2> QED
    BY <2>1, <2>2 DEF Ask, Request
<1> HIDE DEF r, t, x
<1>5. CASE savedId[d] = Nil /\ Die(d, Append(queue[d], w))
  <2>1. /\ requests' = [requests EXCEPT ![d] = <<>>] /\ page' = [page EXCEPT ![d] = FALSE]
        /\ crashed' = [crashed EXCEPT ![d] = TRUE]
    BY <1>5 DEF Die
  <2>2. requests'[d] = <<>> /\ ~page'[d] /\ <<>> \in Seq(Request)
    BY <1>3, <2>1
  <2> QED
    BY <1>3, <2>1, <2>2
<1>6. CASE /\ savedId[d] # Nil
           /\ requests' = [requests EXCEPT ![d] = Append(t, x)]
           /\ UNCHANGED <<page, crashed>>
  <2>1. /\ Append(t, x) \in Seq(Request) /\ DOMAIN Append(t, x) = 1..(Len(t) + 1)
        /\ \A i \in 1..Len(t) : Append(t, x)[i] = t[i]
        /\ Append(t, x)[Len(t) + 1] = x
        /\ Append(t, x) # <<>> /\ Last(Append(t, x)) = x
    BY <1>2, <1>4, <1>6, AppendAdds
  <2>2. requests'[d] = Append(t, x)
    BY <1>3, <1>6
  <2>3. \A i \in 1..(Len(t) + 1) : i = Len(t) + 1 \/ (i \in 1..(Len(r) - 1) /\ i \in 1..Len(t) /\ i + 1 \in 1..Len(r))
    <3>1. Len(r) \in Nat /\ Len(t) = Len(r) - 1
      BY <1>1, <1>2
    <3> QED
      BY <3>1
  <2>4. \A i \in DOMAIN requests'[d] :
           \/ i + 1 \in DOMAIN r /\ requests'[d][i] = r[i + 1]
           \/ requests'[d][i] = x
    BY <1>1, <1>2, <2>1, <2>2, <2>3
  <2>5. requests'[d] # <<>> /\ Last(requests'[d]) = x
    BY <2>1, <2>2
  <2>6. requests' \in [Devices -> Seq(Request)]
    BY <1>3, <1>6, <2>1
  <2>7. \A e \in Devices : e # d => requests'[e] = requests[e]
    BY <1>3, <1>6
  <2> QED
    BY <1>3, <1>6, <2>4, <2>5, <2>6, <2>7 DEF r, x
<1>7. CASE requests' = [requests EXCEPT ![d] = t] /\ UNCHANGED <<page, crashed>>
  <2>1. requests'[d] = t
    BY <1>3, <1>7
  <2>2. \A i \in DOMAIN requests'[d] : i + 1 \in DOMAIN r /\ requests'[d][i] = r[i + 1]
    BY <1>1, <1>2, <2>1
  <2>3. requests' \in [Devices -> Seq(Request)]
    BY <1>2, <1>3, <1>7
  <2>4. \A e \in Devices : e # d => requests'[e] = requests[e]
    BY <1>3, <1>7
  <2>5. ~checkLikeImage(d, w) \/ ~page'[d] \/ (requests'[d] # <<>> /\ Last(requests'[d]) = x)
    <3>1. CASE savedId[d] = Nil /\ Die(d, Append(queue[d], w))
      BY <1>3, <3>1 DEF Die
    <3>2. CASE savedId[d] # Nil /\ requests' = [requests EXCEPT ![d] = Append(t, x)]
      <4>1. Append(t, x) # <<>> /\ Last(Append(t, x)) = x
        BY <1>2, <1>4, <3>2, AppendAdds
      <4> QED
        BY <1>3, <3>2, <4>1
    <3> QED
      BY <3>1, <3>2 DEF checkLikeImage, r, t, x
  <2> QED
    BY <1>3, <1>7, <2>2, <2>3, <2>4, <2>5 DEF r, t, x
<1> QED
  BY <1>5, <1>6, <1>7 DEF checkLikeImage, r, t, x

\* What is left was asked, and is answered, as before.
LEMMA LaterAreTheirs ==
    ASSUME CoreInv, NEW d \in Devices, NEW w, requests[d] # <<>>,
           \/ checkLikeImage(d, w)
           \/ requests' = [requests EXCEPT ![d] = Tail(@)] /\ UNCHANGED <<page, crashed>>
    PROVE  /\ Follows(requests'[d], requests[d])
           /\ \A e \in Devices : \A i \in DOMAIN requests'[e] :
                 /\ requests'[e][i].kind = "toggle" => requests'[e][i].email \in tapped
                 /\ \A f \in requests'[e][i].result : f.email \in tapped
                 /\ requests'[e][i].email \in MayUse[e]
                 /\ \A f \in requests'[e][i].result : f.email \in MayUse[e]
<1>1. ASSUME NEW e \in Devices, NEW i \in DOMAIN requests'[e]
      PROVE  \/ e # d /\ i \in DOMAIN requests[e] /\ requests'[e][i] = requests[e][i]
             \/ e = d /\ i + 1 \in DOMAIN requests[d] /\ requests'[d][i] = requests[d][i + 1]
             \/ /\ requests'[e][i].kind = "image" /\ requests'[e][i].email = savedId[e]
                /\ requests'[e][i].result = {} /\ savedId[e] # Nil
  <2>1. \A k, a, s : /\ Ask(k, a, s).kind = k /\ Ask(k, a, s).email = a
                     /\ Ask(k, a, s).result = {}
    BY DEF Ask
  <2>2. CASE e # d
    <3>1. requests'[e] = requests[e]
      BY <2>2, FirstIsDone
    <3> QED
      BY <1>1, <2>2, <3>1
  <2>3. CASE e = d
    <3>1. \/ i + 1 \in DOMAIN requests[d] /\ requests'[d][i] = requests[d][i + 1]
          \/ savedId[d] # Nil
             /\ requests'[d][i] = Ask("image", savedId[d], Head(requests[d]).shown)
      BY <1>1, <2>3, FirstIsDone
    <3> QED
      BY <2>1, <2>3, <3>1
  <2> QED
    BY <2>2, <2>3
<1>2. Follows(requests'[d], requests[d])
  BY <1>1 DEF Follows
<1>3. \A e \in Devices : savedId[e] # Nil => savedId[e] \in MayUse[e]
  BY DEF CoreInv, WritesAsAllowed
<1> QED
  BY <1>1, <1>2, <1>3 DEF CoreInv, AllTapped, WritesAsAllowed

\* The process ends: some of the last writes are gone.
LEMMA DeathTruncates ==
    ASSUME CoreInv, NEW d \in Devices, NEW w \in Seq(Write), Len(queue[d]) <= Len(w), Die(d, w)
    PROVE  /\ queue' \in [Devices -> Seq(Write)] /\ stored' \in [Devices -> Nat]
           /\ \A e \in Devices : stored'[e] <= Len(queue'[e])
           /\ \A e \in Devices : e # d => queue'[e] = queue[e] /\ requests'[e] = requests[e]
           /\ requests'[d] = <<>>
           /\ \E n \in 0..Len(w) : queue'[d] = SubSeq(w, 1, n)
           /\ \A i \in DOMAIN queue'[d] : i \in DOMAIN w /\ queue'[d][i] = w[i]
<1>1. /\ queue \in [Devices -> Seq(Write)] /\ stored \in [Devices -> Nat]
      /\ requests \in [Devices -> Seq(Request)]
      /\ \A e \in Devices : stored[e] <= Len(queue[e])
      /\ Len(queue[d]) \in Nat /\ Len(w) \in Nat /\ DOMAIN w = 1..Len(w)
  BY StateIsTyped, Indices DEF CoreInv, TypeOK
<1>2. PICK n \in stored[d]..Len(w) : /\ queue' = [queue EXCEPT ![d] = SubSeq(w, 1, n)]
                                    /\ stored' = [stored EXCEPT ![d] = n]
  BY DEF Die
<1>3. requests'[d] = <<>> /\ \A e \in Devices : e # d => requests'[e] = requests[e]
  BY <1>1 DEF Die
<1>4. n \in 0..Len(w) /\ n \in Nat
  BY <1>1, <1>2
<1>5. /\ SubSeq(w, 1, n) \in Seq(Write) /\ Len(SubSeq(w, 1, n)) = n
      /\ DOMAIN SubSeq(w, 1, n) = 1..n
      /\ \A i \in 1..n : i \in 1..Len(w) /\ SubSeq(w, 1, n)[i] = w[i]
  BY <1>1, <1>4
<1>6. /\ queue' \in [Devices -> Seq(Write)] /\ stored' \in [Devices -> Nat]
      /\ \A e \in Devices : e # d => queue'[e] = queue[e] /\ stored'[e] = stored[e]
      /\ queue'[d] = SubSeq(w, 1, n) /\ stored'[d] = n
  BY <1>1, <1>2, <1>4, <1>5
<1>7. ASSUME NEW e \in Devices
      PROVE  stored'[e] <= Len(queue'[e])
  <2>1. CASE e = d
    BY <1>4, <1>5, <1>6, <2>1
  <2>2. CASE e # d
    BY <1>1, <1>6, <2>2
  <2> QED
    BY <2>1, <2>2
<1> QED
  BY <1>1, <1>3, <1>4, <1>5, <1>6, <1>7

\* A write is handed to Firestore: it comes last, and when the process traps it may
\* be lost, and writes before it too.
LEMMA WriteIsHanded ==
    ASSUME CoreInv, NEW d \in Devices, NEW u \in Write, requests[d] # <<>>,
           checkLikeImage(d, u)
    PROVE  /\ queue' \in [Devices -> Seq(Write)] /\ stored' \in [Devices -> Nat]
           /\ \A e \in Devices : stored'[e] <= Len(queue'[e])
           /\ \A e \in Devices : e # d => queue'[e] = queue[e]
           /\ \E n \in 0..Len(Append(queue[d], u)) :
                 /\ queue'[d] = SubSeq(Append(queue[d], u), 1, n)
                 /\ n = Len(Append(queue[d], u)) \/ requests'[d] = <<>>
           /\ Len(queue[d]) \in Nat /\ DOMAIN queue[d] = 1..Len(queue[d])
           /\ \A i \in DOMAIN queue'[d] :
                 \/ i \in DOMAIN queue[d] /\ queue'[d][i] = queue[d][i]
                 \/ i = Len(queue[d]) + 1 /\ queue'[d][i] = u
<1> DEFINE v == Append(queue[d], u)
<1>1. /\ queue \in [Devices -> Seq(Write)] /\ stored \in [Devices -> Nat] /\ queue[d] \in Seq(Write)
      /\ \A e \in Devices : stored[e] <= Len(queue[e]) /\ Len(queue[e]) \in Nat
      /\ DOMAIN queue[d] = 1..Len(queue[d])
  BY StateIsTyped, Indices DEF CoreInv, TypeOK
<1>2. /\ v \in Seq(Write) /\ Len(v) = Len(queue[d]) + 1 /\ DOMAIN v = 1..(Len(queue[d]) + 1)
      /\ \A i \in 1..Len(queue[d]) : v[i] = queue[d][i]
      /\ v[Len(queue[d]) + 1] = u
  BY <1>1, AppendAdds
<1>3. v = SubSeq(v, 1, Len(v)) /\ Len(v) \in 0..Len(v)
  BY <1>1, <1>2
<1> HIDE DEF v
<1>4. \A i \in DOMAIN v :
         \/ i \in DOMAIN queue[d] /\ v[i] = queue[d][i]
         \/ i = Len(queue[d]) + 1 /\ v[i] = u
  BY <1>1, <1>2
<1>5. CASE Die(d, v)
  <2>1. Len(queue[d]) <= Len(v)
    BY <1>1, <1>2
  <2>2. /\ queue' \in [Devices -> Seq(Write)] /\ stored' \in [Devices -> Nat]
        /\ \A e \in Devices : stored'[e] <= Len(queue'[e])
        /\ \A e \in Devices : e # d => queue'[e] = queue[e]
        /\ requests'[d] = <<>>
        /\ \E n \in 0..Len(v) : queue'[d] = SubSeq(v, 1, n)
        /\ \A i \in DOMAIN queue'[d] : i \in DOMAIN v /\ queue'[d][i] = v[i]
    BY <1>2, <1>5, <2>1, DeathTruncates
  <2> QED
    BY <1>1, <1>4, <2>2 DEF v
<1>6. CASE queue' = [queue EXCEPT ![d] = v] /\ stored' = stored
  <2>1. /\ queue'[d] = v /\ \A e \in Devices : e # d => queue'[e] = queue[e]
        /\ queue' \in [Devices -> Seq(Write)]
    BY <1>1, <1>2, <1>6
  <2>2. \A e \in Devices : stored'[e] <= Len(queue'[e])
    BY <1>1, <1>2, <1>6, <2>1
  <2> QED
    BY <1>1, <1>3, <1>4, <1>6, <2>1, <2>2 DEF v
<1> QED
  BY <1>5, <1>6 DEF checkLikeImage, v

LEMMA InitInv == Init => CoreInv
<1> SUFFICES ASSUME Init PROVE CoreInv
  OBVIOUS
<1>1. TypeOK
  BY DEF Init, TypeOK
<1>2. PageHasAccount /\ AllTapped /\ OnlyTappersLike /\ OwnLikesKnown /\ AddsAreNew
  BY DEF Init, PageHasAccount, AllTapped, OnlyTappersLike, OwnLikesKnown, AddsAreNew
<1>3. ASSUME NEW d \in Devices
      PROVE  Bounded({}, <<>>, <<>>, d)
  <2>1. Toggles(<<>>) = {}
    BY DEF Toggles
  <2>2. \A a : Likers(<<>>, a) = {}
    BY <2>1 DEF Likers
  <2>3. \A a, k : k \in 0..Len(<<>>) => Kept({}, <<>>, d, a, k) = {}
    BY DEF Kept
  <2>4. Len(<<>>) \in 0..Len(<<>>)
    OBVIOUS
  <2>5. IsFiniteSet({}) /\ Cardinality({}) = 0 /\ 0 <= MaxTaps /\ 0 + 0 <= MaxTaps
    BY FS_EmptySet, ConstantsAssumption
  <2>6. ASSUME NEW a \in Accounts
        PROVE  /\ \A k \in 0..Len(<<>>) : Kept({}, <<>>, d, a, k) = {}
               /\ Kept({}, <<>>, d, a, Len(<<>>)) = {} /\ Likers(<<>>, a) = {}
    BY <2>2, <2>3, <2>4
  <2> QED
    BY <2>1, <2>5, <2>6 DEF Bounded
<1>4. KeptIsBounded
  BY <1>3 DEF Init, KeptIsBounded
<1>5. WritesAsAllowed /\ SoleIsKnown
  BY DEF Init, WritesAsAllowed, SoleIsKnown
<1>6. HeartWillAgree /\ HeartIsRight
  BY DEF Init, HeartWillAgree, WillAgree, HeartIsRight, Toggles
<1> QED
  BY <1>1, <1>2, <1>4, <1>5, <1>6 DEF CoreInv

LEMMA OpenPageInv ==
    ASSUME CoreInv, NEW d \in Devices, OpenPage(d)
    PROVE  CoreInv'
<1>1. \A e \in Devices : \A a : Own(e, a)' = Own(e, a)
  BY OwnIsFramed DEF CoreInv, TypeOK, OpenPage
<1> DEFINE x == Ask("image", savedId[d], TRUE)
<1>2. /\ savedId[d] \in Accounts /\ savedId[d] \in MayUse[d] /\ x \in Request
      /\ x.kind = "image" /\ x.email = savedId[d] /\ x.shown
      /\ ~x.answered /\ x.result = {}
  BY DEF CoreInv, TypeOK, PageHasAccount, WritesAsAllowed, Ask, Request, OpenPage
<1>3. requests' = [requests EXCEPT ![d] = Append(@, x)]
  BY DEF OpenPage
<1> HIDE DEF x
<1>4. /\ requests' \in [Devices -> Seq(Request)]
      /\ \A e \in Devices : e # d => requests'[e] = requests[e]
      /\ requests'[d] = Append(requests[d], x)
      /\ requests'[d] # <<>> /\ Last(requests'[d]) = x
      /\ \A i \in DOMAIN requests'[d] :
            requests'[d][i] = x \/ (i \in DOMAIN requests[d] /\ requests'[d][i] = requests[d][i])
  BY <1>2, <1>3, AskedIsAdded DEF CoreInv
<1>5. tapped \subseteq tapped' /\ (x.kind = "toggle" => x.email \in tapped')
  BY <1>2 DEF OpenPage
<1>6. TypeOK'
  BY <1>2, <1>4 DEF CoreInv, TypeOK, OpenPage
<1>7. PageHasAccount'
  BY DEF CoreInv, TypeOK, PageHasAccount, OpenPage
<1>8. AllTapped'
  <2>1. ASSUME NEW e \in Devices, NEW i \in DOMAIN requests'[e]
        PROVE  /\ requests'[e][i].kind = "toggle" => requests'[e][i].email \in tapped'
               /\ \A f \in requests'[e][i].result : f.email \in tapped'
    <3>1. CASE requests'[e][i] = x
      BY <1>2, <1>5, <3>1
    <3>2. CASE i \in DOMAIN requests[e] /\ requests'[e][i] = requests[e][i]
      BY <1>5, <3>2 DEF CoreInv, AllTapped
    <3> QED
      BY <1>4, <3>1, <3>2
  <2>2. UNCHANGED <<known, queue>>
    BY DEF OpenPage
  <2> QED
    BY <1>5, <2>1, <2>2 DEF CoreInv, AllTapped
<1>9. OnlyTappersLike'
  BY DEF CoreInv, TypeOK, OnlyTappersLike, AllTapped, OpenPage
<1>10. OwnLikesKnown'
  BY DEF CoreInv, TypeOK, OwnLikesKnown, OpenPage
<1>11. AddsAreNew'
  BY DEF CoreInv, TypeOK, AddsAreNew, OpenPage
<1>12. KeptIsBounded'
  <2>1. ASSUME NEW e \in Devices, e # d
        PROVE  Bounded(favorites', queue'[e], requests'[e], e)
    BY <1>4, <2>1 DEF CoreInv, KeptIsBounded, OpenPage
  <2>2. Bounded(favorites', queue'[d], requests'[d], d)
    <3>1. queue[d] \in Seq(Write) /\ requests[d] \in Seq(Request)
      BY DEF CoreInv, TypeOK
    <3>2. Bounded(favorites, queue[d], requests[d], d)
      BY DEF CoreInv, KeptIsBounded
    <3>3. x.kind = "toggle" => Cardinality(Toggles(requests[d])) < MaxTaps
      BY <1>2 DEF OpenPage
    <3>4. Bounded(favorites, queue[d], Append(requests[d], x), d)
      BY <1>2, <3>1, <3>2, <3>3, AskedIsBounded
    <3> QED
      BY <1>4, <3>4 DEF OpenPage
  <2> QED
    BY <2>1, <2>2, KeptIsFramed
<1>13. WritesAsAllowed'
  <2>1. ASSUME NEW e \in Devices, NEW i \in DOMAIN requests'[e]
        PROVE  /\ requests'[e][i].email \in MayUse[e]
               /\ \A f \in requests'[e][i].result : f.email \in MayUse[e]
    <3>1. CASE e = d /\ requests'[e][i] = x
      BY <1>2, <3>1
    <3>2. CASE i \in DOMAIN requests[e] /\ requests'[e][i] = requests[e][i]
      BY <3>2 DEF CoreInv, WritesAsAllowed
    <3> QED
      BY <1>4, <3>1, <3>2
  <2>2. UNCHANGED <<savedId, queue>>
    BY DEF OpenPage
  <2> QED
    BY <2>1, <2>2 DEF CoreInv, WritesAsAllowed
<1>14. SoleIsKnown'
  BY DEF CoreInv, TypeOK, SoleIsKnown, OpenPage
<1>15. HeartWillAgree'
  <2>1. ASSUME NEW e \in Devices, e # d, WillAgree(e)
        PROVE  WillAgree(e)'
    BY <1>1, <1>4, <2>1, AgreementIsFramed DEF CoreInv, TypeOK, OpenPage
  <2>2. ASSUME Faults \subseteq {"kill"}, WillAgree(d)
        PROVE  WillAgree(d)'
    <3>1. page'[d] /\ savedId'[d] = savedId[d]
      BY DEF CoreInv, TypeOK, OpenPage
    <3>2. ASSUME NEW i \in Toggles(requests'[d])
          PROVE  page'[d] /\ requests'[d][i].shown /\ requests'[d][i].email = savedId'[d]
      BY <1>2, <1>4, <2>2, <3>1 DEF WillAgree, Toggles
    <3> QED
      BY <1>2, <1>4, <3>1, <3>2 DEF WillAgree, Toggles
  <2> QED
    BY <2>1, <2>2 DEF CoreInv, HeartWillAgree
<1>16. HeartIsRight'
  <2>1. ASSUME NEW e \in Devices, requests'[e] = <<>>
        PROVE  /\ requests[e] = <<>> /\ heart'[e] = heart[e] /\ page'[e] = page[e]
               /\ savedId'[e] = savedId[e]
    BY <1>4, <2>1 DEF CoreInv, TypeOK, OpenPage
  <2> QED
    BY <1>1, <2>1 DEF CoreInv, HeartIsRight
<1> QED
  BY <1>6, <1>7, <1>8, <1>9, <1>10, <1>11, <1>12, <1>13, <1>14, <1>15, <1>16 DEF CoreInv

LEMMA TapInv ==
    ASSUME CoreInv, NEW d \in Devices, clickLikeBtn(d)
    PROVE  CoreInv'
<1>1. \A e \in Devices : \A a : Own(e, a)' = Own(e, a)
  BY OwnIsFramed DEF CoreInv, TypeOK, clickLikeBtn
<1> DEFINE x == Ask("toggle", savedId[d], TRUE)
<1>2. /\ savedId[d] \in Accounts /\ savedId[d] \in MayUse[d] /\ x \in Request
      /\ x.kind = "toggle" /\ x.email = savedId[d] /\ x.shown
      /\ ~x.answered /\ x.result = {}
  BY DEF CoreInv, TypeOK, PageHasAccount, WritesAsAllowed, Ask, Request, clickLikeBtn
<1>3. requests' = [requests EXCEPT ![d] = Append(@, x)]
  BY DEF clickLikeBtn
<1> HIDE DEF x
<1>4. /\ requests' \in [Devices -> Seq(Request)]
      /\ \A e \in Devices : e # d => requests'[e] = requests[e]
      /\ requests'[d] = Append(requests[d], x)
      /\ requests'[d] # <<>> /\ Last(requests'[d]) = x
      /\ \A i \in DOMAIN requests'[d] :
            requests'[d][i] = x \/ (i \in DOMAIN requests[d] /\ requests'[d][i] = requests[d][i])
  BY <1>2, <1>3, AskedIsAdded DEF CoreInv
<1>5. tapped \subseteq tapped' /\ (x.kind = "toggle" => x.email \in tapped')
  BY <1>2 DEF clickLikeBtn
<1>6. TypeOK'
  BY <1>2, <1>4 DEF CoreInv, TypeOK, clickLikeBtn
<1>7. PageHasAccount'
  BY DEF CoreInv, TypeOK, PageHasAccount, clickLikeBtn
<1>8. AllTapped'
  <2>1. ASSUME NEW e \in Devices, NEW i \in DOMAIN requests'[e]
        PROVE  /\ requests'[e][i].kind = "toggle" => requests'[e][i].email \in tapped'
               /\ \A f \in requests'[e][i].result : f.email \in tapped'
    <3>1. CASE requests'[e][i] = x
      BY <1>2, <1>5, <3>1
    <3>2. CASE i \in DOMAIN requests[e] /\ requests'[e][i] = requests[e][i]
      BY <1>5, <3>2 DEF CoreInv, AllTapped
    <3> QED
      BY <1>4, <3>1, <3>2
  <2>2. UNCHANGED <<known, queue>>
    BY DEF clickLikeBtn
  <2> QED
    BY <1>5, <2>1, <2>2 DEF CoreInv, AllTapped
<1>9. OnlyTappersLike'
  BY DEF CoreInv, TypeOK, OnlyTappersLike, AllTapped, clickLikeBtn
<1>10. OwnLikesKnown'
  BY DEF CoreInv, TypeOK, OwnLikesKnown, clickLikeBtn
<1>11. AddsAreNew'
  BY DEF CoreInv, TypeOK, AddsAreNew, clickLikeBtn
<1>12. KeptIsBounded'
  <2>1. ASSUME NEW e \in Devices, e # d
        PROVE  Bounded(favorites', queue'[e], requests'[e], e)
    BY <1>4, <2>1 DEF CoreInv, KeptIsBounded, clickLikeBtn
  <2>2. Bounded(favorites', queue'[d], requests'[d], d)
    <3>1. queue[d] \in Seq(Write) /\ requests[d] \in Seq(Request)
      BY DEF CoreInv, TypeOK
    <3>2. Bounded(favorites, queue[d], requests[d], d)
      BY DEF CoreInv, KeptIsBounded
    <3>3. x.kind = "toggle" => Cardinality(Toggles(requests[d])) < MaxTaps
      BY <1>2 DEF clickLikeBtn
    <3>4. Bounded(favorites, queue[d], Append(requests[d], x), d)
      BY <1>2, <3>1, <3>2, <3>3, AskedIsBounded
    <3> QED
      BY <1>4, <3>4 DEF clickLikeBtn
  <2> QED
    BY <2>1, <2>2, KeptIsFramed
<1>13. WritesAsAllowed'
  <2>1. ASSUME NEW e \in Devices, NEW i \in DOMAIN requests'[e]
        PROVE  /\ requests'[e][i].email \in MayUse[e]
               /\ \A f \in requests'[e][i].result : f.email \in MayUse[e]
    <3>1. CASE e = d /\ requests'[e][i] = x
      BY <1>2, <3>1
    <3>2. CASE i \in DOMAIN requests[e] /\ requests'[e][i] = requests[e][i]
      BY <3>2 DEF CoreInv, WritesAsAllowed
    <3> QED
      BY <1>4, <3>1, <3>2
  <2>2. UNCHANGED <<savedId, queue>>
    BY DEF clickLikeBtn
  <2> QED
    BY <2>1, <2>2 DEF CoreInv, WritesAsAllowed
<1>14. SoleIsKnown'
  BY DEF CoreInv, TypeOK, SoleIsKnown, clickLikeBtn
<1>15. HeartWillAgree'
  <2>1. ASSUME NEW e \in Devices, e # d, WillAgree(e)
        PROVE  WillAgree(e)'
    BY <1>1, <1>4, <2>1, AgreementIsFramed DEF CoreInv, TypeOK, clickLikeBtn
  <2>2. ASSUME Faults \subseteq {"kill"}, WillAgree(d)
        PROVE  WillAgree(d)'
    <3>1. page'[d] /\ savedId'[d] = savedId[d]
      BY DEF CoreInv, TypeOK, clickLikeBtn
    <3>2. ASSUME NEW i \in Toggles(requests'[d])
          PROVE  page'[d] /\ requests'[d][i].shown /\ requests'[d][i].email = savedId'[d]
      BY <1>2, <1>4, <2>2, <3>1 DEF WillAgree, Toggles
    <3> QED
      BY <1>2, <1>4, <3>1, <3>2 DEF WillAgree, Toggles
  <2> QED
    BY <2>1, <2>2 DEF CoreInv, HeartWillAgree
<1>16. HeartIsRight'
  <2>1. ASSUME NEW e \in Devices, requests'[e] = <<>>
        PROVE  /\ requests[e] = <<>> /\ heart'[e] = heart[e] /\ page'[e] = page[e]
               /\ savedId'[e] = savedId[e]
    BY <1>4, <2>1 DEF CoreInv, TypeOK, clickLikeBtn
  <2> QED
    BY <1>1, <2>1 DEF CoreInv, HeartIsRight
<1> QED
  BY <1>6, <1>7, <1>8, <1>9, <1>10, <1>11, <1>12, <1>13, <1>14, <1>15, <1>16 DEF CoreInv

LEMMA ClosePageInv ==
    ASSUME CoreInv, NEW d \in Devices, ClosePage(d)
    PROVE  CoreInv'
<1> DEFINE q == [i \in DOMAIN requests[d] |-> [requests[d][i] EXCEPT !.shown = FALSE]]
<1>1. /\ DOMAIN q = DOMAIN requests[d]
      /\ \A i \in DOMAIN requests[d] : q[i] = [requests[d][i] EXCEPT !.shown = FALSE]
  OBVIOUS
<1>2. /\ requests'[d] = q /\ \A e \in Devices : e # d => requests'[e] = requests[e]
      /\ requests' = [requests EXCEPT ![d] = q]
  BY DEF CoreInv, TypeOK, ClosePage
<1> HIDE DEF q
<1>3. \A i \in DOMAIN requests[d] :
          /\ requests[d][i] \in Request /\ q[i] \in Request
          /\ q[i].kind = requests[d][i].kind /\ q[i].email = requests[d][i].email
          /\ q[i].answered = requests[d][i].answered /\ q[i].result = requests[d][i].result
  <2>1. \A i \in DOMAIN requests[d] : requests[d][i] \in Request
    BY StateIsTyped DEF CoreInv
  <2>2. ASSUME NEW y \in Request, NEW z, z = [y EXCEPT !.shown = FALSE]
        PROVE  /\ z \in Request /\ z.kind = y.kind /\ z.email = y.email
               /\ z.answered = y.answered /\ z.result = y.result
    BY <2>2 DEF Request
  <2> QED
    BY <1>1, <2>1, <2>2
<1>4. q \in Seq(Request) /\ requests[d] \in Seq(Request)
  <2>1. requests[d] \in Seq(Request) /\ Len(requests[d]) \in Nat /\ DOMAIN requests[d] = 1..Len(requests[d])
    BY StateIsTyped, Indices DEF CoreInv
  <2>2. q \in [1..Len(requests[d]) -> Request]
    BY <1>3, <2>1 DEF q
  <2>3. q \in Seq(Request)
    BY <2>1, <2>2
  <2> QED
    BY <2>1, <2>3
<1>5. \A e \in Devices : \A a : Own(e, a)' = Own(e, a)
  BY OwnIsFramed DEF CoreInv, TypeOK, ClosePage
<1>6. TypeOK'
  BY <1>2, <1>4 DEF CoreInv, TypeOK, ClosePage
<1>7. PageHasAccount'
  BY DEF CoreInv, TypeOK, PageHasAccount, ClosePage
<1>8. AllTapped'
  BY <1>1, <1>2, <1>3 DEF CoreInv, TypeOK, AllTapped, ClosePage
<1>9. OnlyTappersLike'
  BY DEF CoreInv, TypeOK, OnlyTappersLike, AllTapped, ClosePage
<1>10. OwnLikesKnown'
  BY DEF CoreInv, TypeOK, OwnLikesKnown, ClosePage
<1>11. AddsAreNew'
  BY DEF CoreInv, TypeOK, AddsAreNew, ClosePage
<1>12. KeptIsBounded'
  <2>1. ASSUME NEW e \in Devices, e # d
        PROVE  Bounded(favorites', queue'[e], requests'[e], e)
    BY <2>1 DEF CoreInv, TypeOK, KeptIsBounded, ClosePage
  <2>2. Bounded(favorites', queue'[d], requests'[d], d)
    <3>1. Toggles(q) = Toggles(requests[d])
      BY <1>1, <1>3 DEF Toggles
    <3>2. \A a : Likers(q, a) = Likers(requests[d], a)
      BY <1>3, <3>1 DEF Likers, Toggles
    <3>3. Bounded(favorites, queue[d], q, d)
      BY <3>1, <3>2 DEF CoreInv, KeptIsBounded, Bounded
    <3> QED
      BY <1>2, <3>3 DEF ClosePage
  <2> QED
    BY <2>1, <2>2, KeptIsFramed
<1>13. WritesAsAllowed'
  BY <1>1, <1>2, <1>3 DEF CoreInv, TypeOK, WritesAsAllowed, ClosePage
<1>14. SoleIsKnown'
  BY DEF CoreInv, TypeOK, SoleIsKnown, ClosePage
<1>15. HeartWillAgree'
  <2>1. ASSUME NEW e \in Devices, e # d, WillAgree(e)
        PROVE  WillAgree(e)'
    BY <1>5, <2>1, AgreementIsFramed DEF CoreInv, TypeOK, ClosePage
  <2>2. ASSUME Faults \subseteq {"kill"}, WillAgree(d)
        PROVE  WillAgree(d)'
    <3>1. Toggles(requests[d]) = {}
      BY <2>2 DEF ClosePage
    <3>2. ~page'[d] /\ requests'[d] = q
      BY <1>2 DEF CoreInv, TypeOK, ClosePage
    <3>3. Toggles(q) = {}
      BY <1>1, <1>3, <3>1 DEF Toggles
    <3> QED
      BY <3>2, <3>3, ClosedAgrees
  <2> QED
    BY <2>1, <2>2 DEF CoreInv, HeartWillAgree
<1>16. HeartIsRight'
  <2>1. /\ ~page'[d] /\ UNCHANGED <<savedId, heart>>
        /\ \A e \in Devices : e # d => page'[e] = page[e]
    BY DEF CoreInv, TypeOK, ClosePage
  <2>2. \A e \in Devices : e # d => requests'[e] = requests[e]
    BY <1>2
  <2> QED
    BY <1>5, <2>1, <2>2 DEF CoreInv, HeartIsRight
<1> QED
  BY <1>6, <1>7, <1>8, <1>9, <1>10, <1>11, <1>12, <1>13, <1>14, <1>15, <1>16 DEF CoreInv

LEMMA LoginInv ==
    ASSUME CoreInv, NEW d \in Devices, NEW account \in MayUse[d], Login(d, account)
    PROVE  CoreInv'
<1>1. \A e \in Devices : \A a : Own(e, a)' = Own(e, a)
  BY OwnIsFramed DEF CoreInv, TypeOK, Login
<1>2. TypeOK'
  BY ConstantsAssumption DEF CoreInv, TypeOK, Login
<1>3. PageHasAccount'
  BY DEF CoreInv, TypeOK, PageHasAccount, Login
<1>4. AllTapped'
  BY DEF CoreInv, TypeOK, AllTapped, Login
<1>5. OnlyTappersLike'
  BY DEF CoreInv, TypeOK, OnlyTappersLike, AllTapped, Login
<1>6. OwnLikesKnown'
  BY DEF CoreInv, TypeOK, OwnLikesKnown, Login
<1>7. AddsAreNew'
  BY DEF CoreInv, TypeOK, AddsAreNew, Login
<1>8. KeptIsBounded'
  <2>1. ASSUME NEW e \in Devices
        PROVE  Bounded(favorites', queue'[e], requests'[e], e)
    BY DEF CoreInv, TypeOK, KeptIsBounded, Login
  <2> QED
    BY <2>1, KeptIsFramed
<1>9. WritesAsAllowed'
  BY DEF CoreInv, TypeOK, WritesAsAllowed, Login
<1>10. SoleIsKnown'
  BY DEF CoreInv, TypeOK, SoleIsKnown, Login
<1>11. HeartWillAgree'
  <2>1. ASSUME NEW e \in Devices, e # d, WillAgree(e)
        PROVE  WillAgree(e)'
    BY <1>1, <2>1, AgreementIsFramed DEF CoreInv, TypeOK, Login
  <2>2. ASSUME Faults \subseteq {"kill"}, WillAgree(d)
        PROVE  WillAgree(d)'
    <3>1. Toggles(requests[d]) = {}
      BY <2>2 DEF CoreInv, PageHasAccount, WillAgree, Toggles, Login
    <3>2. ~page'[d] /\ requests'[d] = requests[d]
      BY DEF CoreInv, TypeOK, PageHasAccount, Login
    <3> QED
      BY <3>1, <3>2, ClosedAgrees
  <2> QED
    BY <2>1, <2>2 DEF CoreInv, HeartWillAgree
<1>12. HeartIsRight'
  BY <1>1 DEF CoreInv, TypeOK, PageHasAccount, HeartIsRight, Login
<1> QED
  BY <1>2, <1>3, <1>4, <1>5, <1>6, <1>7, <1>8, <1>9, <1>10, <1>11, <1>12 DEF CoreInv

LEMMA LogoutInv ==
    ASSUME CoreInv, NEW d \in Devices, Logout(d)
    PROVE  CoreInv'
<1>1. \A e \in Devices : \A a : Own(e, a)' = Own(e, a)
  BY OwnIsFramed DEF CoreInv, TypeOK, Logout
<1>2. TypeOK'
  BY DEF CoreInv, TypeOK, TypeOK, Logout
<1>3. PageHasAccount'
  BY DEF CoreInv, TypeOK, PageHasAccount, Logout
<1>4. AllTapped'
  BY DEF CoreInv, TypeOK, AllTapped, Logout
<1>5. OnlyTappersLike'
  BY DEF CoreInv, TypeOK, OnlyTappersLike, AllTapped, Logout
<1>6. OwnLikesKnown'
  BY DEF CoreInv, TypeOK, OwnLikesKnown, Logout
<1>7. AddsAreNew'
  BY DEF CoreInv, TypeOK, AddsAreNew, Logout
<1>8. KeptIsBounded'
  <2>1. ASSUME NEW e \in Devices
        PROVE  Bounded(favorites', queue'[e], requests'[e], e)
    BY DEF CoreInv, TypeOK, KeptIsBounded, Logout
  <2> QED
    BY <2>1, KeptIsFramed
<1>9. WritesAsAllowed'
  BY DEF CoreInv, TypeOK, WritesAsAllowed, Logout
<1>10. SoleIsKnown'
  BY DEF CoreInv, TypeOK, SoleIsKnown, Logout
<1>11. HeartWillAgree'
  <2>1. ASSUME NEW e \in Devices, e # d, WillAgree(e)
        PROVE  WillAgree(e)'
    BY <1>1, <2>1, AgreementIsFramed DEF CoreInv, TypeOK, Logout
  <2>2. ASSUME Faults \subseteq {"kill"}, WillAgree(d)
        PROVE  WillAgree(d)'
    <3>1. Toggles(requests[d]) = {}
      BY <2>2 DEF CoreInv, PageHasAccount, WillAgree, Toggles, Logout
    <3>2. ~page'[d] /\ requests'[d] = requests[d]
      BY DEF CoreInv, TypeOK, PageHasAccount, Logout
    <3> QED
      BY <3>1, <3>2, ClosedAgrees
  <2> QED
    BY <2>1, <2>2 DEF CoreInv, HeartWillAgree
<1>12. HeartIsRight'
  BY <1>1 DEF CoreInv, TypeOK, PageHasAccount, HeartIsRight, Logout
<1> QED
  BY <1>2, <1>3, <1>4, <1>5, <1>6, <1>7, <1>8, <1>9, <1>10, <1>11, <1>12 DEF CoreInv

LEMMA KillInv ==
    ASSUME CoreInv, NEW d \in Devices, Kill(d)
    PROVE  CoreInv'
<1>1. /\ queue[d] \in Seq(Write) /\ requests[d] \in Seq(Request)
      /\ Die(d, queue[d]) /\ UNCHANGED <<favorites, known, savedId, heart, tapped>>
  BY StateIsTyped DEF CoreInv, Kill
<1>2. /\ queue' \in [Devices -> Seq(Write)] /\ stored' \in [Devices -> Nat]
      /\ \A e \in Devices : stored'[e] <= Len(queue'[e])
      /\ \A e \in Devices : e # d => queue'[e] = queue[e] /\ requests'[e] = requests[e]
      /\ requests'[d] = <<>>
      /\ \E n \in 0..Len(queue[d]) : queue'[d] = SubSeq(queue[d], 1, n)
      /\ \A i \in DOMAIN queue'[d] : i \in DOMAIN queue[d] /\ queue'[d][i] = queue[d][i]
  <2>1. Len(queue[d]) \in Nat
    BY <1>1, Indices
  <2>2. Len(queue[d]) <= Len(queue[d])
    BY <2>1
  <2> QED
    BY <1>1, <2>2, DeathTruncates
<1>3. /\ ~page'[d] /\ crashed'[d]
      /\ page' \in [Devices -> BOOLEAN] /\ crashed' \in [Devices -> BOOLEAN]
      /\ \A e \in Devices : e # d => page'[e] = page[e] /\ crashed'[e] = crashed[e]
  BY <1>1 DEF CoreInv, TypeOK, Die
<1>4. \A e \in Devices : \A a : e # d => Own(e, a)' = Own(e, a)
  BY <1>1, <1>2, OwnIsFramed
<1>5. /\ \A e \in Devices : \A i \in DOMAIN queue'[e] :
            i \in DOMAIN queue[e] /\ queue'[e][i] = queue[e][i]
      /\ \A e \in Devices : \A i \in DOMAIN requests'[e] :
            i \in DOMAIN requests[e] /\ requests'[e][i] = requests[e][i]
  <2>1. DOMAIN requests'[d] = {}
    BY <1>2
  <2> QED
    BY <1>2, <2>1
<1>6. TypeOK'
  <2>1. requests' \in [Devices -> Seq(Request)]
    BY <1>1 DEF CoreInv, TypeOK, Die
  <2> QED
    BY <1>1, <1>2, <1>3, <2>1 DEF CoreInv, TypeOK
<1>7. PageHasAccount'
  BY <1>1, <1>3 DEF CoreInv, PageHasAccount
<1>8. AllTapped'
  BY <1>1, <1>5 DEF CoreInv, AllTapped
<1>9. OnlyTappersLike' /\ OwnLikesKnown' /\ SoleIsKnown'
  BY <1>1 DEF CoreInv, OnlyTappersLike, OwnLikesKnown, SoleIsKnown
<1>10. AddsAreNew'
  BY <1>5 DEF CoreInv, AddsAreNew
<1>11. KeptIsBounded'
  <2>1. ASSUME NEW e \in Devices, e # d
        PROVE  Bounded(favorites', queue'[e], requests'[e], e)
    BY <1>1, <1>2, <2>1 DEF CoreInv, KeptIsBounded
  <2>2. Bounded(favorites', queue'[d], requests'[d], d)
    <3>1. Follows(<<>>, requests[d]) /\ <<>> \in Seq(Request)
      BY DEF Follows
    <3>2. Bounded(favorites, queue[d], <<>>, d)
      BY <1>1, <3>1, DoneIsBounded DEF CoreInv, KeptIsBounded
    <3> QED
      BY <1>1, <1>2, <3>1, <3>2, LossIsBounded
  <2> QED
    BY <2>1, <2>2, KeptIsFramed
<1>12. WritesAsAllowed'
  BY <1>1, <1>5 DEF CoreInv, WritesAsAllowed
<1>13. HeartWillAgree'
  <2>1. ASSUME NEW e \in Devices, e # d, WillAgree(e)
        PROVE  WillAgree(e)'
    BY <1>1, <1>2, <1>3, <1>4, <2>1, AgreementIsFramed
  <2>2. WillAgree(d)'
    BY <1>2, <1>3, ClosedAgrees DEF Toggles
  <2> QED
    BY <2>1, <2>2 DEF CoreInv, HeartWillAgree
<1>14. HeartIsRight'
  BY <1>1, <1>2, <1>3, <1>4 DEF CoreInv, HeartIsRight
<1> QED
  BY <1>6, <1>7, <1>8, <1>9, <1>10, <1>11, <1>12, <1>13, <1>14 DEF CoreInv

LEMMA RelaunchInv ==
    ASSUME CoreInv, NEW d \in Devices, Relaunch(d)
    PROVE  CoreInv'
<1>1. \A e \in Devices : \A a : Own(e, a)' = Own(e, a)
  BY OwnIsFramed DEF CoreInv, TypeOK, Relaunch
<1>2. TypeOK'
  BY DEF CoreInv, TypeOK, TypeOK, Relaunch
<1>3. PageHasAccount'
  BY DEF CoreInv, TypeOK, PageHasAccount, Relaunch
<1>4. AllTapped'
  BY DEF CoreInv, TypeOK, AllTapped, Relaunch
<1>5. OnlyTappersLike'
  BY DEF CoreInv, TypeOK, OnlyTappersLike, AllTapped, Relaunch
<1>6. OwnLikesKnown'
  BY DEF CoreInv, TypeOK, OwnLikesKnown, Relaunch
<1>7. AddsAreNew'
  BY DEF CoreInv, TypeOK, AddsAreNew, Relaunch
<1>8. KeptIsBounded'
  <2>1. ASSUME NEW e \in Devices
        PROVE  Bounded(favorites', queue'[e], requests'[e], e)
    BY DEF CoreInv, TypeOK, KeptIsBounded, Relaunch
  <2> QED
    BY <2>1, KeptIsFramed
<1>9. WritesAsAllowed'
  BY DEF CoreInv, TypeOK, WritesAsAllowed, Relaunch
<1>10. SoleIsKnown'
  BY DEF CoreInv, TypeOK, SoleIsKnown, Relaunch
<1>11. HeartWillAgree'
  <2>1. ASSUME NEW e \in Devices, WillAgree(e)
        PROVE  WillAgree(e)'
    BY <1>1, <2>1, AgreementIsFramed DEF CoreInv, TypeOK, Relaunch
  <2> QED
    BY <2>1 DEF CoreInv, HeartWillAgree
<1>12. HeartIsRight'
  BY <1>1 DEF CoreInv, TypeOK, PageHasAccount, HeartIsRight, Relaunch
<1> QED
  BY <1>2, <1>3, <1>4, <1>5, <1>6, <1>7, <1>8, <1>9, <1>10, <1>11, <1>12 DEF CoreInv

LEMMA StoreInv ==
    ASSUME CoreInv, NEW d \in Devices, Store(d)
    PROVE  CoreInv'
<1>1. /\ UNCHANGED <<favorites, known, queue, savedId, page, heart, requests, crashed, tapped>>
      /\ \A e \in Devices : \A a : Own(e, a)' = Own(e, a)
  BY OwnIsFramed DEF Store
<1>2. TypeOK'
  <2>1. \A e \in Devices : Len(queue[e]) \in Nat
    BY StateIsTyped, Indices DEF CoreInv
  <2> QED
    BY <2>1 DEF CoreInv, TypeOK, Store
<1>3. PageHasAccount' /\ AllTapped' /\ OnlyTappersLike'
  BY <1>1 DEF CoreInv, PageHasAccount, AllTapped, OnlyTappersLike
<1>4. OwnLikesKnown' /\ AddsAreNew' /\ WritesAsAllowed' /\ SoleIsKnown'
  BY <1>1 DEF CoreInv, OwnLikesKnown, AddsAreNew, WritesAsAllowed, SoleIsKnown
<1>5. KeptIsBounded'
  BY <1>1, KeptIsFramed DEF CoreInv, KeptIsBounded
<1>6. ASSUME NEW e \in Devices, WillAgree(e)
      PROVE  WillAgree(e)'
  BY <1>1, <1>6, AgreementIsFramed
<1>7. HeartWillAgree' /\ HeartIsRight'
  BY <1>1, <1>6 DEF CoreInv, HeartWillAgree, HeartIsRight
<1> QED
  BY <1>2, <1>3, <1>4, <1>5, <1>7 DEF CoreInv

LEMMA RefreshInv ==
    ASSUME CoreInv, NEW d \in Devices, Refresh(d)
    PROVE  CoreInv'
<1>1. \A e \in Devices : \A a : Sole(e, a) => Own(e, a)' = Own(e, a)
  BY RefreshedIsSame DEF CoreInv
<1>2. TypeOK'
  BY DEF CoreInv, TypeOK, TypeOK, Refresh
<1>3. PageHasAccount'
  BY DEF CoreInv, TypeOK, PageHasAccount, Refresh
<1>4. AllTapped'
  BY DEF CoreInv, TypeOK, AllTapped, OnlyTappersLike, Refresh
<1>5. OnlyTappersLike'
  BY DEF CoreInv, TypeOK, OnlyTappersLike, AllTapped, Refresh
<1>6. OwnLikesKnown'
  BY DEF CoreInv, TypeOK, OwnLikesKnown, Refresh
<1>7. AddsAreNew'
  BY DEF CoreInv, TypeOK, AddsAreNew, Refresh
<1>8. KeptIsBounded'
  <2>1. ASSUME NEW e \in Devices
        PROVE  Bounded(favorites', queue'[e], requests'[e], e)
    BY DEF CoreInv, TypeOK, KeptIsBounded, Refresh
  <2> QED
    BY <2>1, KeptIsFramed
<1>9. WritesAsAllowed'
  BY DEF CoreInv, TypeOK, WritesAsAllowed, Refresh
<1>10. SoleIsKnown'
  BY DEF CoreInv, TypeOK, SoleIsKnown, Refresh
<1>11. HeartWillAgree'
  <2>1. ASSUME NEW e \in Devices, WillAgree(e)
        PROVE  WillAgree(e)'
    BY <1>1, <2>1, AgreementIsFramed DEF CoreInv, TypeOK, Refresh
  <2> QED
    BY <2>1 DEF CoreInv, HeartWillAgree
<1>12. HeartIsRight'
  BY <1>1 DEF CoreInv, TypeOK, PageHasAccount, HeartIsRight, Refresh
<1> QED
  BY <1>2, <1>3, <1>4, <1>5, <1>6, <1>7, <1>8, <1>9, <1>10, <1>11, <1>12 DEF CoreInv

LEMMA ReadErrorInv ==
    ASSUME CoreInv, NEW d \in Devices, ReadError(d)
    PROVE  CoreInv'
<1>1. /\ requests' \in [Devices -> Seq(Request)]
      /\ page' \in [Devices -> BOOLEAN] /\ crashed' \in [Devices -> BOOLEAN]
      /\ \A e \in Devices : e # d => /\ requests'[e] = requests[e] /\ page'[e] = page[e]
                                     /\ crashed'[e] = crashed[e]
      /\ page'[d] => page[d] /\ ~crashed'[d]
      /\ requests'[d] # <<>> => page'[d] = page[d]
      /\ \A i \in DOMAIN requests'[d] :
            \/ i + 1 \in DOMAIN requests[d] /\ requests'[d][i] = requests[d][i + 1]
            \/ savedId[d] # Nil
               /\ requests'[d][i] = Ask("image", savedId[d], Head(requests[d]).shown)
  BY FirstIsDone DEF ReadError
<1>2. \A k, a, s : Ask(k, a, s).kind = k /\ Ask(k, a, s).email = a /\ Ask(k, a, s).shown = s
                   /\ ~Ask(k, a, s).answered /\ Ask(k, a, s).result = {}
  BY DEF Ask
<1>3. Follows(requests'[d], requests[d])
  BY LaterAreTheirs DEF ReadError
<1>4. /\ requests[d] \in Seq(Request) /\ requests'[d] \in Seq(Request) /\ queue[d] \in Seq(Write)
      /\ \A i \in DOMAIN requests[d] : requests[d][i] \in Request
      /\ 1 \in DOMAIN requests[d] /\ Head(requests[d]) = requests[d][1]
  BY <1>1, StateIsTyped, Indices DEF CoreInv, ReadError
<1>5. heart' \in [Devices -> BOOLEAN] /\ \A e \in Devices : e # d => heart'[e] = heart[e]
  BY DEF CoreInv, TypeOK, Show, ReadError
<1>6. \A e \in Devices : \A i \in DOMAIN requests'[e] :
          /\ requests'[e][i].kind = "toggle" => requests'[e][i].email \in tapped
          /\ \A f \in requests'[e][i].result : f.email \in tapped
          /\ requests'[e][i].email \in MayUse[e]
          /\ \A f \in requests'[e][i].result : f.email \in MayUse[e]
  BY LaterAreTheirs DEF ReadError
<1>7. TypeOK'
  BY <1>1, <1>5 DEF CoreInv, TypeOK, ReadError
<1>8. PageHasAccount'
  BY <1>1 DEF CoreInv, TypeOK, PageHasAccount, ReadError
<1>9. AllTapped'
  <2>1. UNCHANGED <<known, queue, tapped>>
    BY DEF ReadError
  <2> QED
    BY <1>6, <2>1 DEF CoreInv, AllTapped
<1>10. OnlyTappersLike'
  BY DEF CoreInv, TypeOK, OnlyTappersLike, AllTapped, ReadError
<1>11. OwnLikesKnown'
  BY DEF CoreInv, TypeOK, OwnLikesKnown, ReadError
<1>12. AddsAreNew'
  BY DEF CoreInv, TypeOK, AddsAreNew, ReadError
<1>13. KeptIsBounded'
  <2>1. ASSUME NEW e \in Devices, e # d
        PROVE  Bounded(favorites', queue'[e], requests'[e], e)
    BY <1>1, <2>1 DEF CoreInv, KeptIsBounded, ReadError
  <2>2. Bounded(favorites', queue'[d], requests'[d], d)
    <3>1. Bounded(favorites, queue[d], requests'[d], d)
      BY <1>3, <1>4, DoneIsBounded DEF CoreInv, KeptIsBounded
    <3> QED
      BY <3>1 DEF ReadError
  <2> QED
    BY <2>1, <2>2, KeptIsFramed
<1>14. WritesAsAllowed'
  <2>1. UNCHANGED <<savedId, queue>>
    BY DEF ReadError
  <2> QED
    BY <1>6, <2>1 DEF CoreInv, WritesAsAllowed
<1>15. SoleIsKnown'
  BY DEF CoreInv, TypeOK, SoleIsKnown, ReadError
<1>16. HeartWillAgree'
  BY DEF HeartWillAgree, ReadError
<1>17. HeartIsRight'
  BY DEF HeartIsRight, ReadError
<1> QED
  BY <1>7, <1>8, <1>9, <1>10, <1>11, <1>12, <1>13, <1>14, <1>15, <1>16, <1>17 DEF CoreInv

LEMMA ShowLikeInv ==
    ASSUME CoreInv, NEW d \in Devices, ShowLike(d)
    PROVE  CoreInv'
<1>1. \A e \in Devices : \A a : Own(e, a)' = Own(e, a)
  BY OwnIsFramed DEF CoreInv, TypeOK, ShowLike, Answered
<1>2. /\ requests' \in [Devices -> Seq(Request)]
      /\ page' \in [Devices -> BOOLEAN] /\ crashed' \in [Devices -> BOOLEAN]
      /\ \A e \in Devices : e # d => /\ requests'[e] = requests[e] /\ page'[e] = page[e]
                                     /\ crashed'[e] = crashed[e]
      /\ page'[d] => page[d] /\ ~crashed'[d]
      /\ requests'[d] # <<>> => page'[d] = page[d]
      /\ \A i \in DOMAIN requests'[d] :
            \/ i + 1 \in DOMAIN requests[d] /\ requests'[d][i] = requests[d][i + 1]
            \/ savedId[d] # Nil
               /\ requests'[d][i] = Ask("image", savedId[d], Head(requests[d]).shown)
  BY FirstIsDone DEF ShowLike, Answered
<1>3. \A k, a, s : Ask(k, a, s).kind = k /\ Ask(k, a, s).email = a /\ Ask(k, a, s).shown = s
                   /\ ~Ask(k, a, s).answered /\ Ask(k, a, s).result = {}
  BY DEF Ask
<1>4. Follows(requests'[d], requests[d])
  BY LaterAreTheirs DEF ShowLike, Answered
<1>5. /\ requests[d] \in Seq(Request) /\ requests'[d] \in Seq(Request) /\ queue[d] \in Seq(Write)
      /\ \A i \in DOMAIN requests[d] : requests[d][i] \in Request
      /\ 1 \in DOMAIN requests[d] /\ Head(requests[d]) = requests[d][1]
  BY <1>2, StateIsTyped, Indices DEF CoreInv, ShowLike, Answered
<1>6. heart' \in [Devices -> BOOLEAN] /\ \A e \in Devices : e # d => heart'[e] = heart[e]
  BY DEF CoreInv, TypeOK, Show, ShowLike, Answered
<1>7. \A e \in Devices : \A i \in DOMAIN requests'[e] :
          /\ requests'[e][i].kind = "toggle" => requests'[e][i].email \in tapped
          /\ \A f \in requests'[e][i].result : f.email \in tapped
          /\ requests'[e][i].email \in MayUse[e]
          /\ \A f \in requests'[e][i].result : f.email \in MayUse[e]
  BY LaterAreTheirs DEF ShowLike, Answered
<1>8. /\ requests'[d] # <<>> => Last(requests'[d]) = Last(requests[d])
      /\ requests'[d] = <<>> => Last(requests[d]) = Head(requests[d])
  <2>1. requests[d] # <<>> /\ requests' = [requests EXCEPT ![d] = Tail(@)] /\ UNCHANGED <<page, crashed>>
    BY DEF Answered, ShowLike
  <2>2. requests'[d] = Tail(requests[d]) /\ page'[d] = page[d]
    BY <2>1 DEF CoreInv, TypeOK
  <2>3. /\ Len(Tail(requests[d])) = Len(requests[d]) - 1
        /\ \A i \in 1..(Len(requests[d]) - 1) : Tail(requests[d])[i] = requests[d][i + 1]
        /\ Len(requests[d]) \in Nat /\ Len(requests[d]) # 0
    BY <1>5, <2>1, TailShifts, Indices
  <2>4. requests'[d] # <<>> => Len(requests'[d]) # 0
    BY <1>5
  <2>5. requests'[d] = <<>> => Len(requests'[d]) = 0
    OBVIOUS
  <2> QED
    BY <1>5, <2>2, <2>3, <2>4, <2>5 DEF Last
<1>9. TypeOK'
  BY <1>2, <1>6 DEF CoreInv, TypeOK, ShowLike, Answered
<1>10. PageHasAccount'
  BY <1>2 DEF CoreInv, TypeOK, PageHasAccount, ShowLike, Answered
<1>11. AllTapped'
  <2>1. UNCHANGED <<known, queue, tapped>>
    BY DEF ShowLike, Answered
  <2> QED
    BY <1>7, <2>1 DEF CoreInv, AllTapped
<1>12. OnlyTappersLike'
  BY DEF CoreInv, TypeOK, OnlyTappersLike, AllTapped, ShowLike, Answered
<1>13. OwnLikesKnown'
  BY DEF CoreInv, TypeOK, OwnLikesKnown, ShowLike, Answered
<1>14. AddsAreNew'
  BY DEF CoreInv, TypeOK, AddsAreNew, ShowLike, Answered
<1>15. KeptIsBounded'
  <2>1. ASSUME NEW e \in Devices, e # d
        PROVE  Bounded(favorites', queue'[e], requests'[e], e)
    BY <1>2, <2>1 DEF CoreInv, KeptIsBounded, ShowLike, Answered
  <2>2. Bounded(favorites', queue'[d], requests'[d], d)
    <3>1. Bounded(favorites, queue[d], requests'[d], d)
      BY <1>4, <1>5, DoneIsBounded DEF CoreInv, KeptIsBounded
    <3> QED
      BY <3>1 DEF ShowLike, Answered
  <2> QED
    BY <2>1, <2>2, KeptIsFramed
<1>16. WritesAsAllowed'
  <2>1. UNCHANGED <<savedId, queue>>
    BY DEF ShowLike, Answered
  <2> QED
    BY <1>7, <2>1 DEF CoreInv, WritesAsAllowed
<1>17. SoleIsKnown'
  BY DEF CoreInv, TypeOK, SoleIsKnown, ShowLike, Answered
<1>18. HeartWillAgree'
  <2>1. ASSUME NEW e \in Devices, e # d, WillAgree(e)
        PROVE  WillAgree(e)'
    BY <1>1, <1>2, <2>1, AgreementIsFramed DEF ShowLike
  <2>2. ASSUME WillAgree(d)
        PROVE  WillAgree(d)'
    <3>1. savedId'[d] = savedId[d]
      BY DEF ShowLike
    <3>2. ASSUME NEW i \in Toggles(requests'[d])
          PROVE  page'[d] /\ requests'[d][i].shown /\ requests'[d][i].email = savedId'[d]
      <4>1. i \in DOMAIN requests'[d] /\ requests'[d][i].kind = "toggle"
        BY DEF Toggles
      <4>2. i + 1 \in Toggles(requests[d]) /\ requests'[d][i] = requests[d][i + 1]
        BY <1>2, <1>3, <4>1 DEF Toggles
      <4>3. requests'[d] # <<>>
        BY <4>1
      <4> QED
        BY <1>2, <2>2, <3>1, <4>2, <4>3 DEF WillAgree
    <3>3. ASSUME page'[d], requests'[d] # <<>>
          PROVE  page[d] /\ requests[d] # <<>> /\ Last(requests'[d]) = Last(requests[d])
      BY <1>2, <1>8, <3>3 DEF Answered, ShowLike
    <3> QED
      BY <1>1, <2>2, <3>1, <3>2, <3>3 DEF WillAgree, Toggles, Last
  <2> QED
    BY <2>1, <2>2 DEF CoreInv, HeartWillAgree
<1>19. HeartIsRight'
  <2>1. ASSUME NEW e \in Devices, e # d, requests'[e] = <<>>
        PROVE  /\ requests[e] = <<>> /\ heart'[e] = heart[e] /\ page'[e] = page[e]
               /\ savedId'[e] = savedId[e]
    BY <1>2, <1>6, <2>1 DEF ShowLike
  <2>2. ASSUME Faults \subseteq {"kill"}, page'[d], requests'[d] = <<>>, Sole(d, savedId[d])
        PROVE  heart'[d] = (Own(d, savedId[d]) # {})
    <3>1. page[d] /\ requests[d] # <<>> /\ Last(requests[d]) = Head(requests[d])
      BY <1>2, <1>8, <2>2 DEF Answered, ShowLike
    <3>2. Head(requests[d]).answered /\ Head(requests[d]).kind = "image"
      BY DEF Answered, ShowLike
    <3>3. WillAgree(d)
      BY <2>2 DEF CoreInv, HeartWillAgree
    <3>4. /\ Head(requests[d]).shown
          /\ Head(requests[d]).result # {} <=> Own(d, savedId[d]) # {}
      BY <2>2, <3>1, <3>2, <3>3 DEF WillAgree
    <3>5. heart' = [heart EXCEPT ![d] = Head(requests[d]).result # {}]
      BY <3>4 DEF Show, ShowLike
    <3>6. heart'[d] = (Head(requests[d]).result # {})
      BY <3>5 DEF CoreInv, TypeOK
    <3> QED
      BY <3>4, <3>6
  <2>3. savedId' = savedId
    BY DEF ShowLike
  <2> QED
    BY <1>1, <2>1, <2>2, <2>3 DEF CoreInv, HeartIsRight
<1> QED
  BY <1>9, <1>10, <1>11, <1>12, <1>13, <1>14, <1>15, <1>16, <1>17, <1>18, <1>19 DEF CoreInv

LEMMA UnlikeInv ==
    ASSUME CoreInv, NEW d \in Devices, Unlike(d)
    PROVE  CoreInv'
<1> DEFINE u == [op |-> "delete", doc |-> First(Head(requests[d]).result)]
<1>1. First(Head(requests[d]).result) \in Head(requests[d]).result
  <2>1. requests[d] # <<>> /\ Head(requests[d]).result # {}
    BY DEF Unlike, Answered
  <2>2. Head(requests[d]).result \in SUBSET Favorite
    BY <2>1, StateIsTyped, Indices DEF CoreInv
  <2> QED
    BY <2>1, <2>2, FirstIsThere
<1>2. /\ u \in Write /\ u.op = "delete" /\ u.doc.email \in tapped /\ u.doc.email \in MayUse[d]
      /\ checkLikeImage(d, u)
  <2>1. requests[d] # <<>>
    BY DEF Unlike, Answered
  <2>2. 1 \in DOMAIN requests[d] /\ Head(requests[d]) = requests[d][1]
        /\ Head(requests[d]).result \in SUBSET Favorite
    BY <2>1, StateIsTyped, Indices DEF CoreInv
  <2>3. u.doc.email \in tapped /\ u.doc.email \in MayUse[d]
    BY <1>1, <2>2 DEF CoreInv, AllTapped, WritesAsAllowed
  <2> QED
    BY <1>1, <2>2, <2>3 DEF Write, Unlike
<1>3. u.op # "add"
  OBVIOUS
<1> HIDE DEF u
<1>4. /\ requests' \in [Devices -> Seq(Request)]
      /\ page' \in [Devices -> BOOLEAN] /\ crashed' \in [Devices -> BOOLEAN]
      /\ \A e \in Devices : e # d => /\ requests'[e] = requests[e] /\ page'[e] = page[e]
                                     /\ crashed'[e] = crashed[e]
      /\ page'[d] => page[d] /\ ~crashed'[d]
      /\ requests'[d] # <<>> => page'[d] = page[d]
      /\ \A i \in DOMAIN requests'[d] :
            \/ i + 1 \in DOMAIN requests[d] /\ requests'[d][i] = requests[d][i + 1]
            \/ savedId[d] # Nil
               /\ requests'[d][i] = Ask("image", savedId[d], Head(requests[d]).shown)
  <2>1. requests[d] # <<>> /\ checkLikeImage(d, u)
    BY <1>2 DEF Unlike, Answered
  <2> QED
    BY <2>1, FirstIsDone
<1>5. \A k, a, s : Ask(k, a, s).kind = k /\ Ask(k, a, s).email = a /\ Ask(k, a, s).shown = s
                   /\ ~Ask(k, a, s).answered /\ Ask(k, a, s).result = {}
  BY DEF Ask
<1>6. Follows(requests'[d], requests[d])
  <2>1. requests[d] # <<>> /\ checkLikeImage(d, u)
    BY <1>2 DEF Unlike, Answered
  <2> QED
    BY <2>1, LaterAreTheirs
<1>7. /\ requests[d] \in Seq(Request) /\ requests'[d] \in Seq(Request) /\ queue[d] \in Seq(Write)
      /\ \A i \in DOMAIN requests[d] : requests[d][i] \in Request
      /\ 1 \in DOMAIN requests[d] /\ Head(requests[d]) = requests[d][1]
  BY <1>4, StateIsTyped, Indices DEF CoreInv, Unlike, Answered
<1>8. heart' \in [Devices -> BOOLEAN] /\ \A e \in Devices : e # d => heart'[e] = heart[e]
  BY DEF CoreInv, TypeOK, Show, Unlike, Answered
<1>9. \A e \in Devices : \A i \in DOMAIN requests'[e] :
          /\ requests'[e][i].kind = "toggle" => requests'[e][i].email \in tapped
          /\ \A f \in requests'[e][i].result : f.email \in tapped
          /\ requests'[e][i].email \in MayUse[e]
          /\ \A f \in requests'[e][i].result : f.email \in MayUse[e]
  <2>1. requests[d] # <<>> /\ checkLikeImage(d, u)
    BY <1>2 DEF Unlike, Answered
  <2> QED
    BY <2>1, LaterAreTheirs
<1>10. /\ queue' \in [Devices -> Seq(Write)] /\ stored' \in [Devices -> Nat]
       /\ \A e \in Devices : stored'[e] <= Len(queue'[e])
       /\ \A e \in Devices : e # d => queue'[e] = queue[e]
       /\ \E n \in 0..Len(Append(queue[d], u)) :
             /\ queue'[d] = SubSeq(Append(queue[d], u), 1, n)
             /\ n = Len(Append(queue[d], u)) \/ requests'[d] = <<>>
       /\ Len(queue[d]) \in Nat /\ DOMAIN queue[d] = 1..Len(queue[d])
       /\ \A i \in DOMAIN queue'[d] :
             \/ i \in DOMAIN queue[d] /\ queue'[d][i] = queue[d][i]
             \/ i = Len(queue[d]) + 1 /\ queue'[d][i] = u
  <2>1. u \in Write /\ requests[d] # <<>> /\ checkLikeImage(d, u)
    BY <1>2 DEF Unlike, Answered
  <2> QED
    BY <2>1, WriteIsHanded
<1>11. \A e \in Devices : \A i \in DOMAIN queue'[e] :
         \/ i \in DOMAIN queue[e] /\ queue'[e][i] = queue[e][i]
         \/ e = d /\ i = Len(queue[d]) + 1 /\ queue'[e][i] = u
  BY <1>10
<1>12. UNCHANGED <<favorites, known, savedId, tapped>> /\ checkLikeImage(d, u)
  BY <1>2 DEF Unlike, Answered
<1>13. \A e \in Devices : \A a : e # d => Own(e, a)' = Own(e, a)
  BY <1>10, <1>12, OwnIsFramed
<1>14. page'[d] => /\ requests'[d] # <<>>
                  /\ Last(requests'[d]) = Ask("image", savedId[d], Head(requests[d]).shown)
  <2>1. requests[d] # <<>> /\ checkLikeImage(d, u)
    BY <1>12 DEF Unlike, Answered
  <2> QED
    BY <2>1, FirstIsDone
<1>15. TypeOK'
  BY <1>4, <1>8, <1>10, <1>12 DEF CoreInv, TypeOK
<1>16. PageHasAccount'
  BY <1>4, <1>12 DEF CoreInv, TypeOK, PageHasAccount
<1>17. AllTapped'
  BY <1>2, <1>9, <1>11, <1>12 DEF CoreInv, AllTapped
<1>18. OnlyTappersLike'
  BY <1>12 DEF CoreInv, OnlyTappersLike
<1>19. OwnLikesKnown'
  BY <1>12 DEF CoreInv, OwnLikesKnown
<1>20. AddsAreNew'
  <2>1. ASSUME NEW e \in Devices, NEW i \in DOMAIN queue'[e], queue'[e][i].op = "add"
        PROVE  /\ queue'[e][i].doc.by = e
               /\ \A j \in DOMAIN queue'[e] : j < i => queue'[e][j].doc # queue'[e][i].doc
    <3>1. CASE i \in DOMAIN queue[e] /\ queue'[e][i] = queue[e][i]
      <4>1. \A j \in DOMAIN queue'[e] : j < i => j \in DOMAIN queue[e] /\ queue'[e][j] = queue[e][j]
        BY <1>10, <1>11, <3>1
      <4> QED
        BY <2>1, <3>1, <4>1 DEF CoreInv, AddsAreNew
    <3>2. CASE e = d /\ i = Len(queue[d]) + 1 /\ queue'[e][i] = u
      <4>1. \A j \in DOMAIN queue'[d] : j < i => j \in DOMAIN queue[d] /\ queue'[d][j] = queue[d][j]
        BY <1>10, <1>11, <3>2
      <4> QED
        BY <1>3, <2>1, <3>2, <4>1
    <3> QED
      BY <1>11, <3>1, <3>2
  <2> QED
    BY <2>1 DEF AddsAreNew
<1>21. KeptIsBounded'
  <2>1. ASSUME NEW e \in Devices, e # d
        PROVE  Bounded(favorites', queue'[e], requests'[e], e)
    BY <1>4, <1>10, <1>12, <2>1 DEF CoreInv, KeptIsBounded
  <2>2. Bounded(favorites', queue'[d], requests'[d], d)
    <3>1. Bounded(favorites, queue[d], requests'[d], d)
      BY <1>6, <1>7, DoneIsBounded DEF CoreInv, KeptIsBounded
    <3>2. Bounded(favorites, Append(queue[d], u), requests'[d], d)
      BY <1>2, <1>7, <3>1, DeleteKeepsLess
    <3>3. Append(queue[d], u) \in Seq(Write)
      BY <1>2, <1>7
    <3>5. PICK n \in 0..Len(Append(queue[d], u)) :
            /\ queue'[d] = SubSeq(Append(queue[d], u), 1, n)
            /\ n = Len(Append(queue[d], u)) \/ requests'[d] = <<>>
      BY <1>10
    <3>6. Bounded(favorites, SubSeq(Append(queue[d], u), 1, n), requests'[d], d)
      BY <1>7, <3>2, <3>3, <3>5, LossIsBounded
    <3> QED
      BY <1>12, <3>5, <3>6
  <2> QED
    BY <2>1, <2>2, KeptIsFramed
<1>22. WritesAsAllowed'
  BY <1>2, <1>9, <1>11, <1>12 DEF CoreInv, WritesAsAllowed
<1>23. SoleIsKnown'
  BY <1>12 DEF CoreInv, SoleIsKnown
<1>24. HeartWillAgree'
  <2>1. ASSUME NEW e \in Devices, e # d, WillAgree(e)
        PROVE  WillAgree(e)'
    BY <1>4, <1>12, <1>13, <2>1, AgreementIsFramed
  <2>2. ASSUME WillAgree(d)
        PROVE  WillAgree(d)'
    <3>1. 1 \in Toggles(requests[d])
      BY <1>7 DEF Toggles, Unlike, Answered
    <3>2. page[d] /\ Head(requests[d]).shown /\ savedId'[d] = savedId[d]
      BY <1>7, <1>12, <2>2, <3>1 DEF WillAgree
    <3>3. ASSUME NEW i \in Toggles(requests'[d])
          PROVE  page'[d] /\ requests'[d][i].shown /\ requests'[d][i].email = savedId'[d]
      <4>1. i \in DOMAIN requests'[d] /\ requests'[d][i].kind = "toggle"
        BY DEF Toggles
      <4>2. i + 1 \in Toggles(requests[d]) /\ requests'[d][i] = requests[d][i + 1]
        BY <1>4, <1>5, <4>1 DEF Toggles
      <4>3. requests'[d] # <<>>
        BY <4>1
      <4> QED
        BY <1>4, <2>2, <3>2, <4>2, <4>3 DEF WillAgree
    <3>4. page'[d] => /\ Last(requests'[d]).shown /\ Last(requests'[d]).email = savedId'[d]
                      /\ ~Last(requests'[d]).answered
      BY <1>5, <1>12, <1>14, <3>2
    <3> QED
      BY <3>3, <3>4 DEF WillAgree, Toggles, Last
  <2> QED
    BY <2>1, <2>2 DEF CoreInv, HeartWillAgree
<1>25. HeartIsRight'
  <2>1. ASSUME NEW e \in Devices, page'[e], requests'[e] = <<>>
        PROVE  /\ e # d /\ requests[e] = <<>> /\ heart'[e] = heart[e] /\ page'[e] = page[e]
               /\ savedId'[e] = savedId[e]
    BY <1>4, <1>8, <1>12, <1>14, <2>1
  <2> QED
    BY <1>13, <2>1 DEF CoreInv, HeartIsRight
<1> QED
  BY <1>15, <1>16, <1>17, <1>18, <1>19, <1>20, <1>21, <1>22, <1>23, <1>24, <1>25 DEF CoreInv

LEMMA LikeInv ==
    ASSUME CoreInv, NEW d \in Devices, Like(d)
    PROVE  CoreInv'
<1>1. PICK id \in Ids :
        /\ Unused(id)
        /\ checkLikeImage(d, [op |-> "add",
              doc |-> [id |-> id, email |-> Head(requests[d]).email, by |-> d]])
  BY DEF Like, AddLike
<1> DEFINE u == [op |-> "add", doc |-> [id |-> id, email |-> Head(requests[d]).email, by |-> d]]
<1>2. /\ u \in Write /\ u.op = "add" /\ u.doc.by = d /\ u.doc.id = id
      /\ u.doc.email = Head(requests[d]).email
      /\ u.doc.email \in tapped /\ u.doc.email \in MayUse[d]
      /\ checkLikeImage(d, u)
  <2>1. requests[d] # <<>> /\ Head(requests[d]).kind = "toggle"
    BY DEF Like, Answered
  <2>2. 1 \in DOMAIN requests[d] /\ Head(requests[d]) = requests[d][1]
    BY <2>1, StateIsTyped, Indices DEF CoreInv
  <2>3. /\ Head(requests[d]).email \in tapped /\ Head(requests[d]).email \in MayUse[d]
        /\ MayUse[d] \subseteq Accounts
    BY <2>1, <2>2, ConstantsAssumption DEF CoreInv, AllTapped, WritesAsAllowed
  <2> QED
    BY <1>1, <2>3 DEF Write, Favorite
<1> HIDE DEF u
<1>3. u.doc.by = d /\ \A j \in DOMAIN queue[d] : queue[d][j].doc # u.doc
  BY <1>1, <1>2 DEF Unused
<1>4. /\ requests' \in [Devices -> Seq(Request)]
      /\ page' \in [Devices -> BOOLEAN] /\ crashed' \in [Devices -> BOOLEAN]
      /\ \A e \in Devices : e # d => /\ requests'[e] = requests[e] /\ page'[e] = page[e]
                                     /\ crashed'[e] = crashed[e]
      /\ page'[d] => page[d] /\ ~crashed'[d]
      /\ requests'[d] # <<>> => page'[d] = page[d]
      /\ \A i \in DOMAIN requests'[d] :
            \/ i + 1 \in DOMAIN requests[d] /\ requests'[d][i] = requests[d][i + 1]
            \/ savedId[d] # Nil
               /\ requests'[d][i] = Ask("image", savedId[d], Head(requests[d]).shown)
  <2>1. requests[d] # <<>> /\ checkLikeImage(d, u)
    BY <1>2 DEF Like, Answered
  <2> QED
    BY <2>1, FirstIsDone
<1>5. \A k, a, s : Ask(k, a, s).kind = k /\ Ask(k, a, s).email = a /\ Ask(k, a, s).shown = s
                   /\ ~Ask(k, a, s).answered /\ Ask(k, a, s).result = {}
  BY DEF Ask
<1>6. Follows(requests'[d], requests[d])
  <2>1. requests[d] # <<>> /\ checkLikeImage(d, u)
    BY <1>2 DEF Like, Answered
  <2> QED
    BY <2>1, LaterAreTheirs
<1>7. /\ requests[d] \in Seq(Request) /\ requests'[d] \in Seq(Request) /\ queue[d] \in Seq(Write)
      /\ \A i \in DOMAIN requests[d] : requests[d][i] \in Request
      /\ 1 \in DOMAIN requests[d] /\ Head(requests[d]) = requests[d][1]
  BY <1>4, StateIsTyped, Indices DEF CoreInv, Like, Answered
<1>8. heart' \in [Devices -> BOOLEAN] /\ \A e \in Devices : e # d => heart'[e] = heart[e]
  BY DEF CoreInv, TypeOK, Show, Like, Answered
<1>9. \A e \in Devices : \A i \in DOMAIN requests'[e] :
          /\ requests'[e][i].kind = "toggle" => requests'[e][i].email \in tapped
          /\ \A f \in requests'[e][i].result : f.email \in tapped
          /\ requests'[e][i].email \in MayUse[e]
          /\ \A f \in requests'[e][i].result : f.email \in MayUse[e]
  <2>1. requests[d] # <<>> /\ checkLikeImage(d, u)
    BY <1>2 DEF Like, Answered
  <2> QED
    BY <2>1, LaterAreTheirs
<1>10. /\ queue' \in [Devices -> Seq(Write)] /\ stored' \in [Devices -> Nat]
       /\ \A e \in Devices : stored'[e] <= Len(queue'[e])
       /\ \A e \in Devices : e # d => queue'[e] = queue[e]
       /\ \E n \in 0..Len(Append(queue[d], u)) :
             /\ queue'[d] = SubSeq(Append(queue[d], u), 1, n)
             /\ n = Len(Append(queue[d], u)) \/ requests'[d] = <<>>
       /\ Len(queue[d]) \in Nat /\ DOMAIN queue[d] = 1..Len(queue[d])
       /\ \A i \in DOMAIN queue'[d] :
             \/ i \in DOMAIN queue[d] /\ queue'[d][i] = queue[d][i]
             \/ i = Len(queue[d]) + 1 /\ queue'[d][i] = u
  <2>1. u \in Write /\ requests[d] # <<>> /\ checkLikeImage(d, u)
    BY <1>2 DEF Like, Answered
  <2> QED
    BY <2>1, WriteIsHanded
<1>11. \A e \in Devices : \A i \in DOMAIN queue'[e] :
         \/ i \in DOMAIN queue[e] /\ queue'[e][i] = queue[e][i]
         \/ e = d /\ i = Len(queue[d]) + 1 /\ queue'[e][i] = u
  BY <1>10
<1>12. UNCHANGED <<favorites, known, savedId, tapped>> /\ checkLikeImage(d, u)
  BY <1>2 DEF Like, Answered
<1>13. \A e \in Devices : \A a : e # d => Own(e, a)' = Own(e, a)
  BY <1>10, <1>12, OwnIsFramed
<1>14. page'[d] => /\ requests'[d] # <<>>
                  /\ Last(requests'[d]) = Ask("image", savedId[d], Head(requests[d]).shown)
  <2>1. requests[d] # <<>> /\ checkLikeImage(d, u)
    BY <1>12 DEF Like, Answered
  <2> QED
    BY <2>1, FirstIsDone
<1>15. TypeOK'
  BY <1>4, <1>8, <1>10, <1>12 DEF CoreInv, TypeOK
<1>16. PageHasAccount'
  BY <1>4, <1>12 DEF CoreInv, TypeOK, PageHasAccount
<1>17. AllTapped'
  BY <1>2, <1>9, <1>11, <1>12 DEF CoreInv, AllTapped
<1>18. OnlyTappersLike'
  BY <1>12 DEF CoreInv, OnlyTappersLike
<1>19. OwnLikesKnown'
  BY <1>12 DEF CoreInv, OwnLikesKnown
<1>20. AddsAreNew'
  <2>1. ASSUME NEW e \in Devices, NEW i \in DOMAIN queue'[e], queue'[e][i].op = "add"
        PROVE  /\ queue'[e][i].doc.by = e
               /\ \A j \in DOMAIN queue'[e] : j < i => queue'[e][j].doc # queue'[e][i].doc
    <3>1. CASE i \in DOMAIN queue[e] /\ queue'[e][i] = queue[e][i]
      <4>1. \A j \in DOMAIN queue'[e] : j < i => j \in DOMAIN queue[e] /\ queue'[e][j] = queue[e][j]
        BY <1>10, <1>11, <3>1
      <4> QED
        BY <2>1, <3>1, <4>1 DEF CoreInv, AddsAreNew
    <3>2. CASE e = d /\ i = Len(queue[d]) + 1 /\ queue'[e][i] = u
      <4>1. \A j \in DOMAIN queue'[d] : j < i => j \in DOMAIN queue[d] /\ queue'[d][j] = queue[d][j]
        BY <1>10, <1>11, <3>2
      <4> QED
        BY <1>3, <2>1, <3>2, <4>1
    <3> QED
      BY <1>11, <3>1, <3>2
  <2> QED
    BY <2>1 DEF AddsAreNew
<1>21. KeptIsBounded'
  <2>1. ASSUME NEW e \in Devices, e # d
        PROVE  Bounded(favorites', queue'[e], requests'[e], e)
    BY <1>4, <1>10, <1>12, <2>1 DEF CoreInv, KeptIsBounded
  <2>2. Bounded(favorites', queue'[d], requests'[d], d)
    <3>1. 1 \in Likers(requests[d], u.doc.email)
      BY <1>2, <1>7 DEF Likers, Toggles, Like, Answered
    <3>2. Bounded(favorites, queue[d], requests[d], d)
      BY DEF CoreInv, KeptIsBounded
    <3>3. Bounded(favorites, Append(queue[d], u), requests'[d], d)
      BY <1>2, <1>6, <1>7, <3>1, <3>2, LikeTakesATap
    <3>4. Append(queue[d], u) \in Seq(Write)
      BY <1>2, <1>7
    <3>5. PICK n \in 0..Len(Append(queue[d], u)) :
            /\ queue'[d] = SubSeq(Append(queue[d], u), 1, n)
            /\ n = Len(Append(queue[d], u)) \/ requests'[d] = <<>>
      BY <1>10
    <3>6. Bounded(favorites, SubSeq(Append(queue[d], u), 1, n), requests'[d], d)
      BY <1>7, <3>3, <3>4, <3>5, LossIsBounded
    <3> QED
      BY <1>12, <3>5, <3>6
  <2> QED
    BY <2>1, <2>2, KeptIsFramed
<1>22. WritesAsAllowed'
  BY <1>2, <1>9, <1>11, <1>12 DEF CoreInv, WritesAsAllowed
<1>23. SoleIsKnown'
  BY <1>12 DEF CoreInv, SoleIsKnown
<1>24. HeartWillAgree'
  <2>1. ASSUME NEW e \in Devices, e # d, WillAgree(e)
        PROVE  WillAgree(e)'
    BY <1>4, <1>12, <1>13, <2>1, AgreementIsFramed
  <2>2. ASSUME WillAgree(d)
        PROVE  WillAgree(d)'
    <3>1. 1 \in Toggles(requests[d])
      BY <1>7 DEF Toggles, Like, Answered
    <3>2. page[d] /\ Head(requests[d]).shown /\ savedId'[d] = savedId[d]
      BY <1>7, <1>12, <2>2, <3>1 DEF WillAgree
    <3>3. ASSUME NEW i \in Toggles(requests'[d])
          PROVE  page'[d] /\ requests'[d][i].shown /\ requests'[d][i].email = savedId'[d]
      <4>1. i \in DOMAIN requests'[d] /\ requests'[d][i].kind = "toggle"
        BY DEF Toggles
      <4>2. i + 1 \in Toggles(requests[d]) /\ requests'[d][i] = requests[d][i + 1]
        BY <1>4, <1>5, <4>1 DEF Toggles
      <4>3. requests'[d] # <<>>
        BY <4>1
      <4> QED
        BY <1>4, <2>2, <3>2, <4>2, <4>3 DEF WillAgree
    <3>4. page'[d] => /\ Last(requests'[d]).shown /\ Last(requests'[d]).email = savedId'[d]
                      /\ ~Last(requests'[d]).answered
      BY <1>5, <1>12, <1>14, <3>2
    <3> QED
      BY <3>3, <3>4 DEF WillAgree, Toggles, Last
  <2> QED
    BY <2>1, <2>2 DEF CoreInv, HeartWillAgree
<1>25. HeartIsRight'
  <2>1. ASSUME NEW e \in Devices, page'[e], requests'[e] = <<>>
        PROVE  /\ e # d /\ requests[e] = <<>> /\ heart'[e] = heart[e] /\ page'[e] = page[e]
               /\ savedId'[e] = savedId[e]
    BY <1>4, <1>8, <1>12, <1>14, <2>1
  <2> QED
    BY <1>13, <2>1 DEF CoreInv, HeartIsRight
<1> QED
  BY <1>15, <1>16, <1>17, <1>18, <1>19, <1>20, <1>21, <1>22, <1>23, <1>24, <1>25 DEF CoreInv

LEMMA UploadInv ==
    ASSUME CoreInv, NEW d \in Devices, Upload(d)
    PROVE  CoreInv'
<1> DEFINE w == queue[d]
           u == Head(w)
           t == Tail(w)
<1>1. /\ w \in Seq(Write) /\ w # <<>> /\ u \in Write /\ u.doc \in Favorite
      /\ u.op \in {"add", "delete"} /\ 1 \in DOMAIN w /\ u = w[1]
  <2>1. w \in Seq(Write) /\ w # <<>>
    <3>1. w \in Seq(Write) /\ stored[d] \in Nat /\ stored[d] > 0 /\ stored[d] <= Len(w)
      BY DEF CoreInv, TypeOK, Upload
    <3>2. Len(w) # 0
      BY <3>1, Indices
    <3> QED
      BY <3>1, <3>2
  <2>2. 1 \in DOMAIN w /\ u = w[1] /\ w[1] \in Write
    BY <2>1, Indices
  <2> QED
    BY <2>1, <2>2 DEF Write
<1>2. /\ t \in Seq(Write) /\ Len(t) = Len(w) - 1 /\ Len(w) \in Nat /\ DOMAIN w = 1..Len(w)
      /\ DOMAIN t = 1..(Len(w) - 1) /\ \A i \in 1..(Len(w) - 1) : t[i] = w[i + 1]
  BY <1>1, TailShifts, Indices
<1>3. /\ favorites' = Written(favorites, u) /\ known' = [known EXCEPT ![d] = Written(known[d], u)]
      /\ queue' = [queue EXCEPT ![d] = t] /\ stored' = [stored EXCEPT ![d] = @ - 1]
      /\ stored[d] > 0
      /\ UNCHANGED <<savedId, page, heart, requests, crashed, tapped>>
  BY DEF Upload
<1> HIDE DEF w, u, t
<1>4. /\ known'[d] = Written(known[d], u) /\ queue'[d] = t
      /\ \A e \in Devices : e # d => known'[e] = known[e] /\ queue'[e] = queue[e]
  BY <1>3 DEF CoreInv, TypeOK
<1>5. /\ \A i \in DOMAIN t : i + 1 \in DOMAIN w /\ t[i] = w[i + 1] /\ i \in Nat
      /\ u.doc.email \in tapped /\ u.doc.email \in MayUse[d]
      /\ u.op = "add" => u.doc.by = d
  <2>1. u.doc.email \in tapped /\ u.doc.email \in MayUse[d] /\ (u.op = "add" => u.doc.by = d)
    BY <1>1 DEF CoreInv, AllTapped, WritesAsAllowed, AddsAreNew, w
  <2> QED
    BY <1>2, <2>1
<1>6. \A e \in Devices : \A a : Own(e, a)' = Own(e, a)
  BY SentIsSame DEF CoreInv
<1>7. \A docs : Written(docs, u) \subseteq docs \cup {u.doc}
  BY DEF Written
<1>8. TypeOK'
  <2>1. queue' \in [Devices -> Seq(Write)]
    BY <1>2, <1>3 DEF CoreInv, TypeOK
  <2>2. known' \in [Devices -> SUBSET Favorite] /\ favorites' \subseteq Favorite
    BY <1>1, <1>3, <1>7 DEF CoreInv, TypeOK
  <2>3. stored' \in [Devices -> Nat] /\ \A e \in Devices : stored'[e] <= Len(queue'[e])
    <3>1. /\ stored \in [Devices -> Nat] /\ \A e \in Devices : stored[e] <= Len(queue[e])
          /\ stored[d] \in Nat /\ stored[d] <= Len(w)
      BY DEF CoreInv, TypeOK, w
    <3>2. stored'[d] = stored[d] - 1 /\ \A e \in Devices : e # d => stored'[e] = stored[e]
      BY <1>3, <3>1
    <3>3. stored'[d] \in Nat /\ stored'[d] <= Len(queue'[d])
      BY <1>2, <1>3, <1>4, <3>1, <3>2
    <3> QED
      BY <1>3, <1>4, <3>1, <3>2, <3>3
  <2> QED
    BY <1>3, <2>1, <2>2, <2>3 DEF CoreInv, TypeOK
<1>9. PageHasAccount'
  BY <1>3 DEF CoreInv, PageHasAccount
<1>10. AllTapped'
  <2>1. \A e \in Devices : \A f \in known'[e] : f \in known[e] \/ f = u.doc
    BY <1>4, <1>7
  <2>2. \A e \in Devices : \A i \in DOMAIN queue'[e] : \E j \in DOMAIN queue[e] : queue'[e][i] = queue[e][j]
    BY <1>4, <1>5 DEF w
  <2> QED
    BY <1>3, <1>5, <2>1, <2>2 DEF CoreInv, AllTapped
<1>11. OnlyTappersLike'
  BY <1>3, <1>5, <1>7 DEF CoreInv, OnlyTappersLike
<1>12. OwnLikesKnown'
  <2>1. ASSUME NEW e \in Devices, NEW f \in favorites', f.by = e
        PROVE  f \in known'[e]
    <3>1. CASE e = d
      BY <1>1, <1>3, <1>4, <2>1, <3>1 DEF CoreInv, OwnLikesKnown, Written
    <3>2. CASE e # d
      <4>1. f \in favorites
        BY <1>3, <1>5, <2>1, <3>2 DEF Written
      <4> QED
        BY <1>4, <2>1, <3>2, <4>1 DEF CoreInv, OwnLikesKnown
    <3> QED
      BY <3>1, <3>2
  <2> QED
    BY <2>1 DEF OwnLikesKnown
<1>13. AddsAreNew'
  <2>1. ASSUME NEW i \in DOMAIN t, t[i].op = "add"
        PROVE  t[i].doc.by = d /\ \A j \in DOMAIN t : j < i => t[j].doc # t[i].doc
    <3>1. \A j \in DOMAIN t : j < i => j + 1 < i + 1
      BY <1>5
    <3> QED
      BY <1>5, <2>1, <3>1 DEF CoreInv, AddsAreNew, w
  <2> QED
    BY <1>4, <2>1 DEF CoreInv, AddsAreNew
<1>14. KeptIsBounded'
  <2>1. ASSUME NEW e \in Devices
        PROVE  /\ Bounded(favorites, queue[e], requests[e], e)
               /\ queue[e] \in Seq(Write) /\ requests[e] \in Seq(Request)
    BY DEF CoreInv, TypeOK, KeptIsBounded
  <2>2. ASSUME NEW e \in Devices, e # d
        PROVE  Bounded(favorites', queue'[e], requests'[e], e)
    <3>1. Bounded(Written(favorites, u), queue[e], requests[e], e)
      BY <1>1, <1>5, <2>1, <2>2, OthersWrite
    <3> QED
      BY <1>3, <1>4, <2>2, <3>1
  <2>3. Bounded(favorites', queue'[d], requests'[d], d)
    <3>1. \A i \in DOMAIN w : w[i].op = "add" =>
              \A j \in DOMAIN w : j < i => w[j].doc # w[i].doc
      BY DEF CoreInv, AddsAreNew, w
    <3>2. Bounded(Written(favorites, u), t, requests[d], d)
      BY <1>1, <2>1, <3>1, OwnWriteIsSent DEF w, u, t
    <3> QED
      BY <1>3, <1>4, <3>2
  <2> QED
    BY <2>2, <2>3, KeptIsFramed
<1>15. WritesAsAllowed'
  <2>1. \A e \in Devices : \A i \in DOMAIN queue'[e] : \E j \in DOMAIN queue[e] : queue'[e][i] = queue[e][j]
    BY <1>4, <1>5 DEF w
  <2> QED
    BY <1>3, <2>1 DEF CoreInv, WritesAsAllowed
<1>16. SoleIsKnown'
  <2>1. ASSUME NEW e \in Devices, NEW a \in Accounts, Sole(e, a), NEW f \in Favorite, f.email = a
        PROVE  f \in favorites' <=> f \in known'[e]
    <3>1. f \in favorites <=> f \in known[e]
      BY <2>1 DEF CoreInv, SoleIsKnown
    <3>2. CASE e = d
      BY <1>3, <1>4, <3>1, <3>2 DEF Written
    <3>3. CASE e # d
      <4>1. f # u.doc
        BY <1>5, <2>1, <3>3 DEF Sole
      <4> QED
        BY <1>3, <1>4, <3>1, <3>3, <4>1 DEF Written
    <3> QED
      BY <3>2, <3>3
  <2> QED
    BY <2>1 DEF SoleIsKnown
<1>17. HeartWillAgree'
  <2>1. ASSUME NEW e \in Devices, WillAgree(e)
        PROVE  WillAgree(e)'
    BY <1>3, <1>6, <2>1, AgreementIsFramed
  <2> QED
    BY <2>1 DEF CoreInv, HeartWillAgree
<1>18. HeartIsRight'
  BY <1>3, <1>6 DEF CoreInv, HeartIsRight
<1> QED
  BY <1>8, <1>9, <1>10, <1>11, <1>12, <1>13, <1>14, <1>15, <1>16, <1>17, <1>18 DEF CoreInv

LEMMA AnswerInv ==
    ASSUME CoreInv, NEW d \in Devices, Answer(d)
    PROVE  CoreInv'
<1>1. \A e \in Devices : \A a : Own(e, a)' = Own(e, a)
  BY OwnIsFramed DEF CoreInv, TypeOK, Answer
<1>2. PICK i \in DOMAIN requests[d] :
        /\ \A j \in DOMAIN requests[d] : requests[d][j].answered <=> j < i
        /\ requests' = [requests EXCEPT
              ![d][i].answered = TRUE, ![d][i].result = Own(d, requests[d][i].email)]
        /\ UNCHANGED <<favorites, known, queue, stored, savedId, page, heart, crashed, tapped>>
  BY DEF Answer
<1>3. /\ requests \in [Devices -> Seq(Request)] /\ requests[d] \in Seq(Request)
      /\ Len(requests[d]) \in Nat /\ DOMAIN requests[d] = 1..Len(requests[d])
      /\ \A j \in DOMAIN requests[d] : requests[d][j] \in Request
  BY StateIsTyped, Indices DEF CoreInv, TypeOK
<1> DEFINE x == [requests[d][i] EXCEPT !.answered = TRUE, !.result = Own(d, requests[d][i].email)]
           q == [requests[d] EXCEPT ![i] = x]
<1>4. requests' = [requests EXCEPT ![d] = q]
  BY <1>2, <1>3
<1>5. /\ x \in Request /\ x.kind = requests[d][i].kind /\ x.email = requests[d][i].email
      /\ x.shown = requests[d][i].shown /\ x.answered /\ x.result = Own(d, requests[d][i].email)
  <2>1. Own(d, requests[d][i].email) \in SUBSET Favorite
    BY OwnIsTyped
  <2>2. requests[d][i] \in Request
    BY <1>3
  <2> QED
    BY <2>1, <2>2 DEF Request
<1> HIDE DEF x
<1>6. /\ q \in Seq(Request) /\ DOMAIN q = DOMAIN requests[d] /\ Len(q) = Len(requests[d]) /\ q[i] = x
      /\ \A j \in DOMAIN requests[d] : j # i => q[j] = requests[d][j]
  <2>1. q \in [1..Len(requests[d]) -> Request]
    BY <1>3, <1>5
  <2>2. q \in Seq(Request) /\ DOMAIN q = DOMAIN requests[d]
    BY <1>3, <2>1
  <2>3. Len(q) = Len(requests[d])
    BY <1>3, <2>2
  <2> QED
    BY <1>3, <2>2, <2>3
<1> HIDE DEF q
<1>7. requests'[d] = q /\ \A e \in Devices : e # d => requests'[e] = requests[e]
  BY <1>3, <1>4
<1>8. /\ ~requests[d][i].answered
      /\ \A f \in x.result : f.email = requests[d][i].email /\ f.email \in tapped
  <2>1. ~requests[d][i].answered
    BY <1>2, <1>3
  <2>2. \A f \in Own(d, requests[d][i].email) : f.email = requests[d][i].email /\ f.email \in tapped
    BY DEF CoreInv, AllTapped, Own, View, Adds
  <2> QED
    BY <1>5, <2>1, <2>2
<1>9. TypeOK'
  <2>1. requests' \in [Devices -> Seq(Request)]
    BY <1>3, <1>4, <1>6
  <2>2. UNCHANGED <<favorites, known, queue, stored, savedId, page, heart, crashed, tapped>>
    BY <1>2
  <2> QED
    BY <2>1, <2>2 DEF CoreInv, TypeOK
<1>10. PageHasAccount'
  BY <1>2 DEF CoreInv, PageHasAccount
<1>11. AllTapped'
  <2>1. ASSUME NEW e \in Devices, NEW j \in DOMAIN requests'[e]
        PROVE  /\ requests'[e][j].kind = "toggle" => requests'[e][j].email \in tapped
               /\ \A f \in requests'[e][j].result : f.email \in tapped
    <3>1. CASE e = d /\ j = i
      BY <1>5, <1>6, <1>7, <1>8, <3>1 DEF CoreInv, AllTapped
    <3>2. CASE ~ (e = d /\ j = i)
      BY <1>6, <1>7, <3>2 DEF CoreInv, AllTapped
    <3> QED
      BY <3>1, <3>2
  <2> QED
    BY <1>2, <2>1 DEF CoreInv, AllTapped
<1>12. OnlyTappersLike'
  BY <1>2 DEF CoreInv, OnlyTappersLike
<1>13. OwnLikesKnown'
  BY <1>2 DEF CoreInv, OwnLikesKnown
<1>14. AddsAreNew'
  BY <1>2 DEF CoreInv, AddsAreNew
<1>15. KeptIsBounded'
  <2>1. ASSUME NEW e \in Devices, e # d
        PROVE  Bounded(favorites', queue'[e], requests'[e], e)
    BY <1>2, <1>7, <2>1 DEF CoreInv, KeptIsBounded
  <2>2. Bounded(favorites', queue'[d], requests'[d], d)
    <3>1. /\ queue[d] \in Seq(Write) /\ Bounded(favorites, queue[d], requests[d], d)
          /\ \A f \in favorites : f.by = d => f \in known[d]
      BY DEF CoreInv, TypeOK, KeptIsBounded, OwnLikesKnown
    <3>2. q[i].result = {} => {f \in View(known[d], queue[d]) : f.email = requests[d][i].email} = {}
      BY <1>5, <1>6 DEF Own
    <3>3. q[i].result = {} => Kept(favorites, queue[d], d, requests[d][i].email, Len(queue[d])) = {}
      BY <3>1, <3>2, NothingKept
    <3>4. q[i].kind = requests[d][i].kind /\ q[i].email = requests[d][i].email
      BY <1>5, <1>6
    <3>5. Bounded(favorites, queue[d], q, d)
      BY <1>3, <1>6, <1>8, <3>1, <3>3, <3>4, AnswerIsBounded
    <3> QED
      BY <1>2, <1>7, <3>5
  <2> QED
    BY <2>1, <2>2, KeptIsFramed
<1>16. WritesAsAllowed'
  <2>1. ASSUME NEW e \in Devices, NEW j \in DOMAIN requests'[e]
        PROVE  /\ requests'[e][j].email \in MayUse[e]
               /\ \A f \in requests'[e][j].result : f.email \in MayUse[e]
    <3>1. CASE e = d /\ j = i
      BY <1>5, <1>6, <1>7, <1>8, <3>1 DEF CoreInv, WritesAsAllowed
    <3>2. CASE ~ (e = d /\ j = i)
      BY <1>6, <1>7, <3>2 DEF CoreInv, WritesAsAllowed
    <3> QED
      BY <3>1, <3>2
  <2> QED
    BY <1>2, <2>1 DEF CoreInv, WritesAsAllowed
<1>17. SoleIsKnown'
  BY <1>2 DEF CoreInv, SoleIsKnown
<1>18. HeartWillAgree'
  <2>1. ASSUME NEW e \in Devices, e # d, WillAgree(e)
        PROVE  WillAgree(e)'
    BY <1>1, <1>2, <1>7, <2>1, AgreementIsFramed
  <2>2. ASSUME WillAgree(d)
        PROVE  WillAgree(d)'
    <3>1. \A j \in DOMAIN q : /\ q[j].kind = requests[d][j].kind /\ q[j].email = requests[d][j].email
                              /\ q[j].shown = requests[d][j].shown
      BY <1>5, <1>6
    <3>2. Toggles(q) = Toggles(requests[d])
      BY <1>6, <3>1 DEF Toggles
    <3>3. \A j \in Toggles(q) : page[d] /\ q[j].shown /\ q[j].email = savedId[d]
      BY <1>6, <2>2, <3>1, <3>2 DEF WillAgree, Toggles
    <3>4. ASSUME page[d], Last(q).kind = "image"
          PROVE  /\ Last(q).shown /\ Last(q).email = savedId[d]
                 /\ Last(q).answered /\ Sole(d, savedId[d]) =>
                       (Last(q).result # {} <=> Own(d, savedId[d]) # {})
      <4>1. Last(q) = q[Len(requests[d])] /\ Last(requests[d]) = requests[d][Len(requests[d])]
            /\ Len(requests[d]) \in DOMAIN q /\ requests[d] # <<>>
        BY <1>3, <1>6 DEF Last
      <4>2. Last(requests[d]).kind = "image"
        BY <3>1, <3>4, <4>1
      <4>3. Last(requests[d]).shown /\ Last(requests[d]).email = savedId[d]
        BY <2>2, <3>4, <4>1, <4>2 DEF WillAgree
      <4>4. CASE i = Len(requests[d])
        BY <1>5, <1>6, <3>1, <4>1, <4>3, <4>4
      <4>5. CASE i # Len(requests[d])
        BY <1>6, <2>2, <3>4, <4>1, <4>2, <4>5 DEF WillAgree
      <4> QED
        BY <4>4, <4>5
    <3> QED
      BY <1>1, <1>2, <1>7, <3>3, <3>4 DEF WillAgree, Toggles, Last
  <2> QED
    BY <2>1, <2>2 DEF CoreInv, HeartWillAgree
<1>19. HeartIsRight'
  <2>1. \A e \in Devices : requests'[e] = <<>> => requests[e] = <<>>
    BY <1>3, <1>6, <1>7
  <2> QED
    BY <1>1, <1>2, <2>1 DEF CoreInv, HeartIsRight
<1> QED
  BY <1>9, <1>10, <1>11, <1>12, <1>13, <1>14, <1>15, <1>16, <1>17, <1>18, <1>19 DEF CoreInv

LEMMA StutterInv ==
    ASSUME CoreInv, UNCHANGED vars
    PROVE  CoreInv'
<1>1. /\ \A e \in Devices : \A a : Own(e, a)' = Own(e, a)
      /\ UNCHANGED <<favorites, known, queue, stored, savedId, page, heart, requests, crashed, tapped>>
  BY OwnIsFramed DEF vars
<1>2. TypeOK' /\ PageHasAccount' /\ AllTapped' /\ OnlyTappersLike'
  BY <1>1 DEF CoreInv, TypeOK, PageHasAccount, AllTapped, OnlyTappersLike
<1>3. OwnLikesKnown' /\ AddsAreNew' /\ WritesAsAllowed' /\ SoleIsKnown'
  BY <1>1 DEF CoreInv, OwnLikesKnown, AddsAreNew, WritesAsAllowed, SoleIsKnown
<1>4. KeptIsBounded'
  BY <1>1, KeptIsFramed DEF CoreInv, KeptIsBounded
<1>5. ASSUME NEW e \in Devices, WillAgree(e)
      PROVE  WillAgree(e)'
  BY <1>1, <1>5, AgreementIsFramed
<1>6. HeartWillAgree' /\ HeartIsRight'
  BY <1>1, <1>5 DEF CoreInv, HeartWillAgree, HeartIsRight
<1> QED
  BY <1>2, <1>3, <1>4, <1>6 DEF CoreInv

LEMMA StepInv ==
    ASSUME CoreInv, [Step]_vars
    PROVE  CoreInv'
<1>1. CASE UNCHANGED vars
  BY <1>1, StutterInv
<1>2. ASSUME NEW d \in Devices,
             \/ Store(d) \/ Upload(d) \/ Refresh(d) \/ Answer(d)
             \/ OpenPage(d) \/ ClosePage(d) \/ Logout(d)
             \/ \E account \in MayUse[d] : Login(d, account)
             \/ Kill(d) \/ Relaunch(d)
             \/ clickLikeBtn(d) \/ Unlike(d) \/ Like(d) \/ ShowLike(d) \/ ReadError(d)
      PROVE  CoreInv'
  <2>1. CASE Store(d) \/ Upload(d) \/ Refresh(d) \/ Answer(d)
    BY <2>1, StoreInv, UploadInv, RefreshInv, AnswerInv
  <2>2. CASE OpenPage(d) \/ ClosePage(d) \/ Logout(d)
    BY <2>2, OpenPageInv, ClosePageInv, LogoutInv
  <2>3. CASE \E account \in MayUse[d] : Login(d, account)
    BY <2>3, LoginInv
  <2>4. CASE Kill(d) \/ Relaunch(d) \/ ReadError(d)
    BY <2>4, KillInv, RelaunchInv, ReadErrorInv
  <2>5. CASE clickLikeBtn(d) \/ Unlike(d) \/ Like(d) \/ ShowLike(d)
    BY <2>5, TapInv, UnlikeInv, LikeInv, ShowLikeInv
  <2> QED
    BY <1>2, <2>1, <2>2, <2>3, <2>4, <2>5
<1> QED
  BY <1>1, <1>2 DEF Step

-----------------------------------------------------------------------------
(* A write that is not on disk has its check before it                     *)

LEMMA UnstoredStays ==
    ASSUME CoreInv, UnstoredIsAsked, [Step]_vars
    PROVE  UnstoredIsAsked'
<1> SUFFICES ASSUME "readError" \notin Faults, NEW e \in Devices, stored'[e] # Len(queue'[e])
             PROVE  requests'[e] # <<>> /\ ~Last(requests'[e]).answered
  BY DEF UnstoredIsAsked
<1>1. /\ requests \in [Devices -> Seq(Request)] /\ queue \in [Devices -> Seq(Write)]
      /\ stored \in [Devices -> Nat] /\ requests[e] \in Seq(Request) /\ queue[e] \in Seq(Write)
      /\ Len(queue[e]) \in Nat /\ stored[e] \in Nat /\ stored[e] <= Len(queue[e])
  BY StateIsTyped, Indices DEF CoreInv, TypeOK
<1>2. stored[e] # Len(queue[e]) => requests[e] # <<>> /\ ~Last(requests[e]).answered
  BY DEF UnstoredIsAsked
<1>3. \A k, a, s : ~Ask(k, a, s).answered
  BY DEF Ask
<1>4. CASE queue'[e] = queue[e] /\ stored'[e] = stored[e] /\ requests'[e] = requests[e]
  BY <1>2, <1>4
<1>5. ASSUME NEW d \in Devices, Store(d)
      PROVE  requests'[e] # <<>> /\ ~Last(requests'[e]).answered
  <2>1. stored[e] # Len(queue[e])
    BY <1>1, <1>5 DEF Store
  <2> QED
    BY <1>2, <1>5, <2>1 DEF Store
<1>6. ASSUME NEW d \in Devices, Upload(d)
      PROVE  requests'[e] # <<>> /\ ~Last(requests'[e]).answered
  <2>1. CASE e # d
    BY <1>1, <1>4, <1>6, <2>1 DEF Upload
  <2>2. CASE e = d
    <3>1. stored[e] > 0 /\ stored'[e] = stored[e] - 1 /\ queue'[e] = Tail(queue[e])
      BY <1>1, <1>6, <2>2 DEF Upload
    <3>2. queue[e] # <<>>
      BY <1>1, <3>1
    <3>3. Len(queue'[e]) = Len(queue[e]) - 1
      BY <1>1, <3>1, <3>2, TailShifts
    <3> QED
      BY <1>1, <1>2, <1>6, <3>1, <3>3 DEF Upload
  <2> QED
    BY <2>1, <2>2
<1>7. ASSUME NEW d \in Devices, Answer(d)
      PROVE  requests'[e] # <<>> /\ ~Last(requests'[e]).answered
  <2>1. e # d
    BY <1>7 DEF Answer
  <2> QED
    BY <1>1, <1>4, <1>7, <2>1 DEF Answer
<1>8. ASSUME NEW d \in Devices, NEW x \in Request, ~x.answered,
             requests' = [requests EXCEPT ![d] = Append(@, x)], UNCHANGED <<queue, stored>>
      PROVE  requests'[e] # <<>> /\ ~Last(requests'[e]).answered
  <2>1. CASE e # d
    BY <1>1, <1>4, <1>8, <2>1
  <2>2. CASE e = d
    BY <1>8, <2>2, AskedIsAdded DEF CoreInv
  <2> QED
    BY <2>1, <2>2
<1>9. ASSUME NEW d \in Devices, OpenPage(d)
      PROVE  requests'[e] # <<>> /\ ~Last(requests'[e]).answered
  <2> DEFINE x == Ask("image", savedId[d], TRUE)
  <2>1. x \in Request
    BY <1>9 DEF CoreInv, TypeOK, Ask, Request, OpenPage
  <2>2. requests' = [requests EXCEPT ![d] = Append(@, x)] /\ UNCHANGED <<queue, stored>>
    BY <1>9 DEF OpenPage
  <2> HIDE DEF x
  <2>3. ~x.answered
    BY <1>3 DEF x
  <2> QED
    BY <1>8, <2>1, <2>2, <2>3
<1>10. ASSUME NEW d \in Devices, clickLikeBtn(d)
       PROVE  requests'[e] # <<>> /\ ~Last(requests'[e]).answered
  <2> DEFINE x == Ask("toggle", savedId[d], TRUE)
  <2>1. x \in Request
    BY <1>10 DEF CoreInv, TypeOK, PageHasAccount, Ask, Request, clickLikeBtn
  <2>2. requests' = [requests EXCEPT ![d] = Append(@, x)] /\ UNCHANGED <<queue, stored>>
    BY <1>10 DEF clickLikeBtn
  <2> HIDE DEF x
  <2>3. ~x.answered
    BY <1>3 DEF x
  <2> QED
    BY <1>8, <2>1, <2>2, <2>3
<1>11. ASSUME NEW d \in Devices, ClosePage(d)
       PROVE  requests'[e] # <<>> /\ ~Last(requests'[e]).answered
  <2>1. CASE e # d
    BY <1>1, <1>4, <1>11, <2>1 DEF ClosePage
  <2>2. CASE e = d
    <3> DEFINE r == requests[e]
               q == requests'[e]
    <3>1. q = [i \in DOMAIN r |-> [r[i] EXCEPT !.shown = FALSE]] /\ UNCHANGED <<queue, stored>>
      BY <1>1, <1>11, <2>2 DEF ClosePage
    <3>2. r # <<>> /\ ~Last(r).answered
      BY <1>2, <3>1
    <3>3. /\ Len(r) \in Nat /\ Len(r) # 0 /\ DOMAIN r = 1..Len(r) /\ Last(r) = r[Len(r)]
          /\ r[Len(r)] \in Request
      BY <1>1, <3>2, Indices
    <3>4. DOMAIN q = 1..Len(r) /\ q[Len(r)] = [r[Len(r)] EXCEPT !.shown = FALSE]
      BY <3>1, <3>3
    <3>5. q \in Seq(Request)
      <4>1. \A y \in Request : [y EXCEPT !.shown = FALSE] \in Request
        BY DEF Request
      <4>2. \A i \in 1..Len(r) : r[i] \in Request
        BY <1>1, <3>3, Indices
      <4>3. q \in [1..Len(r) -> Request]
        BY <3>1, <3>3, <4>1, <4>2
      <4> QED
        BY <3>3, <4>3
    <3>6. Len(q) = Len(r) /\ q # <<>>
      BY <3>3, <3>4, <3>5
    <3>7. ~q[Len(r)].answered
      BY <3>2, <3>3, <3>4 DEF Request
    <3> QED
      BY <3>6, <3>7 DEF Last
  <2> QED
    BY <2>1, <2>2
<1>12. ASSUME NEW d \in Devices, ShowLike(d)
       PROVE  requests'[e] # <<>> /\ ~Last(requests'[e]).answered
  <2>1. CASE e # d
    BY <1>1, <1>4, <1>12, <2>1 DEF ShowLike
  <2>2. CASE e = d
    <3> DEFINE r == requests[e]
               t == Tail(r)
    <3>1. /\ requests'[e] = t /\ r # <<>> /\ Head(r).answered /\ UNCHANGED <<queue, stored>>
      BY <1>1, <1>12, <2>2 DEF ShowLike, Answered
    <3>2. ~Last(r).answered
      BY <1>2, <3>1
    <3>3. /\ Len(r) \in Nat /\ Len(r) # 0 /\ Head(r) = r[1] /\ Last(r) = r[Len(r)]
      BY <1>1, <3>1, Indices
    <3>4. Len(r) # 1
      BY <3>1, <3>2, <3>3
    <3>5. /\ t \in Seq(Request) /\ Len(t) = Len(r) - 1
          /\ \A i \in 1..(Len(r) - 1) : t[i] = r[i + 1]
      BY <1>1, <3>1, TailShifts
    <3> HIDE DEF t, r
    <3>6. Len(t) # 0 /\ Len(t) = Len(r) - 1 /\ Len(t) \in 1..(Len(r) - 1) /\ Len(t) + 1 = Len(r)
      BY <3>3, <3>4, <3>5
    <3>7. t # <<>> /\ t[Len(t)] = r[Len(r)]
      BY <3>5, <3>6
    <3> QED
      BY <3>1, <3>2, <3>3, <3>6, <3>7 DEF Last
  <2> QED
    BY <2>1, <2>2
<1>13. ASSUME NEW d \in Devices, NEW w \in Seq(Write), Die(d, w), Len(queue[d]) <= Len(w)
       PROVE  requests'[e] # <<>> /\ ~Last(requests'[e]).answered
  <2>1. PICK n \in stored[d]..Len(w) : /\ queue' = [queue EXCEPT ![d] = SubSeq(w, 1, n)]
                                      /\ stored' = [stored EXCEPT ![d] = n]
                                      /\ requests' = [requests EXCEPT ![d] = <<>>]
    BY <1>13 DEF Die
  <2>2. CASE e # d
    BY <1>1, <1>4, <2>1, <2>2
  <2>3. CASE e = d
    <3>1. n \in Nat /\ n <= Len(w) /\ Len(w) \in Nat
      BY <1>1, <1>13, <2>1, <2>3, Indices
    <3>2. Len(SubSeq(w, 1, n)) = n
      BY <1>13, <3>1
    <3> QED
      BY <1>1, <2>1, <2>3, <3>2
  <2> QED
    BY <2>2, <2>3
<1>14. ASSUME NEW d \in Devices, Kill(d)
       PROVE  requests'[e] # <<>> /\ ~Last(requests'[e]).answered
  <2>1. queue[d] \in Seq(Write) /\ Len(queue[d]) \in Nat
    BY StateIsTyped, Indices DEF CoreInv
  <2>2. Len(queue[d]) <= Len(queue[d])
    BY <2>1
  <2> QED
    BY <1>13, <1>14, <2>1, <2>2 DEF Kill
<1>15. ASSUME NEW d \in Devices, NEW u \in Write, requests[d] # <<>>, checkLikeImage(d, u)
       PROVE  requests'[e] # <<>> /\ ~Last(requests'[e]).answered
  <2>1. queue[d] \in Seq(Write) /\ requests[d] \in Seq(Request) /\ Len(queue[d]) \in Nat
    BY StateIsTyped, Indices DEF CoreInv
  <2>2. Append(queue[d], u) \in Seq(Write) /\ Len(queue[d]) <= Len(Append(queue[d], u))
    BY <2>1, AppendAdds
  <2>3. CASE Die(d, Append(queue[d], u))
    BY <1>13, <2>2, <2>3
  <2>4. CASE /\ savedId[d] # Nil
             /\ queue' = [queue EXCEPT ![d] = Append(@, u)]
             /\ requests' = [requests EXCEPT ![d] =
                   Append(Tail(@), Ask("image", savedId[d], Head(@).shown))]
             /\ UNCHANGED <<stored, page, crashed>>
    <3>1. CASE e # d
      BY <1>1, <1>4, <2>4, <3>1
    <3>2. CASE e = d
      <4> DEFINE x == Ask("image", savedId[d], Head(requests[d]).shown)
                 t == Tail(requests[d])
      <4>1. requests'[e] = Append(t, x)
        BY <1>1, <2>4, <3>2
      <4>2. x \in Request /\ t \in Seq(Request)
        <5>1. Head(requests[d]) \in Request /\ Tail(requests[d]) \in Seq(Request)
          BY <1>15, <2>1
        <5>2. Head(requests[d]).shown \in BOOLEAN
          BY <5>1 DEF Request
        <5>3. savedId[d] \in Accounts
          BY <2>4 DEF CoreInv, TypeOK
        <5> QED
          BY <5>1, <5>2, <5>3 DEF Ask, Request
      <4>3. ~x.answered
        BY <1>3
      <4> HIDE DEF x, t
      <4>4. Append(t, x) # <<>> /\ Last(Append(t, x)) = x
        BY <4>2, AppendAdds
      <4> QED
        BY <4>1, <4>3, <4>4
    <3> QED
      BY <3>1, <3>2
  <2> QED
    BY <1>15, <2>3, <2>4 DEF checkLikeImage
<1>16. ASSUME NEW d \in Devices, Unlike(d)
       PROVE  requests'[e] # <<>> /\ ~Last(requests'[e]).answered
  <2>1. /\ requests[d] # <<>> /\ Head(requests[d]).result # {}
        /\ checkLikeImage(d, [op |-> "delete", doc |-> First(Head(requests[d]).result)])
    BY <1>16 DEF Unlike, Answered
  <2>2. Head(requests[d]).result \in SUBSET Favorite
    BY <2>1, StateIsTyped, Indices DEF CoreInv
  <2>3. First(Head(requests[d]).result) \in Favorite
    BY <2>1, <2>2, FirstIsThere
  <2>4. [op |-> "delete", doc |-> First(Head(requests[d]).result)] \in Write
    BY <2>3 DEF Write
  <2> QED
    BY <1>15, <2>1, <2>4
<1>17. ASSUME NEW d \in Devices, Like(d)
       PROVE  requests'[e] # <<>> /\ ~Last(requests'[e]).answered
  <2>1. PICK id \in Ids :
          checkLikeImage(d, [op |-> "add",
                doc |-> [id |-> id, email |-> Head(requests[d]).email, by |-> d]])
    BY <1>17 DEF Like, AddLike
  <2>2. requests[d] # <<>>
    BY <1>17 DEF Like, Answered
  <2>3. Head(requests[d]) \in Request
    BY <2>2, StateIsTyped, Indices DEF CoreInv
  <2>4. [op |-> "add", doc |-> [id |-> id, email |-> Head(requests[d]).email, by |-> d]] \in Write
    BY <2>3 DEF Request, Write, Favorite
  <2> QED
    BY <1>15, <2>1, <2>2, <2>4
<1>18. ASSUME NEW d \in Devices,
              \/ UNCHANGED vars \/ Refresh(d) \/ Logout(d) \/ Relaunch(d)
              \/ \E account \in MayUse[d] : Login(d, account)
       PROVE  requests'[e] # <<>> /\ ~Last(requests'[e]).answered
  <2>1. UNCHANGED <<queue, stored, requests>>
    BY <1>18 DEF vars, Refresh, Logout, Relaunch, Login
  <2> QED
    BY <1>4, <2>1
<1>19. \A d \in Devices : ~ReadError(d)
  BY DEF ReadError
<1>20. CASE UNCHANGED vars
  BY <1>18, <1>20
<1>21. CASE Step
  BY <1>5, <1>6, <1>7, <1>9, <1>10, <1>11, <1>12, <1>14, <1>16, <1>17, <1>18, <1>19, <1>21 DEF Step
<1> QED
  BY <1>20, <1>21

\* The invariant behind the theorems below holds in every state, for any devices,
\* accounts, names and bounds.
THEOREM Invariance == Spec => []IInv
<1>1. Init => IInv
  BY InitInv DEF Init, IInv, UnstoredIsAsked
<1>2. IInv /\ [Step]_vars => IInv'
  BY StepInv, UnstoredStays DEF IInv
<1> QED
  BY <1>1, <1>2, PTL DEF Spec

\* The variables of the page and of the client library keep their types.
THEOREM TypeCorrect == Spec => []TypeOK
<1>1. IInv => TypeOK
  BY DEF IInv, CoreInv
<1> QED
  BY <1>1, Invariance, PTL

\* A completion that runs after a logout and a login of somebody else adds a like
\* of the account that tapped: an account that never tapped has none.
THEOREM OnlyTappers == Spec => []OnlyTappersLike
<1>1. IInv => OnlyTappersLike
  BY DEF IInv, CoreInv
<1> QED
  BY <1>1, Invariance, PTL

\* However many taps, devices and accounts interleave, the check of clickLikeBtn
\* and the add that follows store no more likes of one device for one account
\* than the taps outstanding at once.
THEOREM LikesStayBounded == Spec => []LikesBounded
<1>1. ASSUME IInv
      PROVE  LikesBounded
  <2>1. ASSUME NEW d \in Devices, NEW a \in Accounts
        PROVE  Cardinality({f \in favorites : f.by = d /\ f.email = a}) <= MaxTaps
    <3>1. {f \in favorites : f.by = d /\ f.email = a} = Kept(favorites, queue[d], d, a, 0)
      BY <1>1 DEF IInv, CoreInv, TypeOK, Kept
    <3>2. 0 \in 0..Len(queue[d])
      BY <1>1, StateIsTyped, Indices DEF IInv, CoreInv
    <3>3. Cardinality(Kept(favorites, queue[d], d, a, 0)) <= MaxTaps
      BY <1>1, <3>2 DEF IInv, CoreInv, KeptIsBounded, Bounded
    <3> QED
      BY <3>1, <3>3
  <2> QED
    BY <2>1 DEF LikesBounded
<1> QED
  BY <1>1, Invariance, PTL

\* Once every completion has run, the heart of the page tells whether the account
\* likes the post, and what it tells is on disk, although each completion set it
\* from an answer that may have been stale.
THEOREM HeartAgrees == Spec => []HeartAgreesWhenIdle
<1>1. ASSUME IInv
      PROVE  HeartAgreesWhenIdle
  <2>1. ASSUME Faults \subseteq {"kill"}, NEW d \in Devices, requests[d] = <<>>
        PROVE  SubSeq(queue[d], 1, stored[d]) = queue[d]
    <3>1. queue[d] \in Seq(Write) /\ stored[d] = Len(queue[d])
      BY <1>1, <2>1, StateIsTyped DEF IInv, CoreInv, UnstoredIsAsked
    <3> QED
      BY <3>1
  <2> QED
    BY <1>1, <2>1 DEF IInv, CoreInv, HeartIsRight, HeartAgreesWhenIdle, Own, OwnStored
<1> QED
  BY <1>1, Invariance, PTL

-----------------------------------------------------------------------------
(* The toggle implements the switch of LikeRegister                        *)

\* What a device sees after one more write.
LEMMA ViewAfterWrite ==
    ASSUME NEW docs, NEW w \in Seq(Write), NEW u \in Write, NEW f \in Favorite
    PROVE  f \in View(docs, Append(w, u)) <=> Adds(u, f) \/ (f \in View(docs, w) /\ ~Deletes(u, f))
<1> DEFINE v == Append(w, u)
<1>1. /\ Len(w) \in Nat /\ DOMAIN w = 1..Len(w) /\ DOMAIN v = 1..(Len(w) + 1)
      /\ \A i \in 1..Len(w) : v[i] = w[i]
      /\ v[Len(w) + 1] = u
  BY Indices, AppendAdds
<1> HIDE DEF v
<1>2. /\ \A i \in DOMAIN w : i \in DOMAIN v /\ v[i] = w[i] /\ i \in Nat /\ Len(w) + 1 > i
      /\ \A i \in DOMAIN v : (i \in DOMAIN w /\ v[i] = w[i]) \/ i = Len(w) + 1
      /\ Len(w) + 1 \in DOMAIN v /\ v[Len(w) + 1] = u
      /\ \A i \in DOMAIN v : ~ (i > Len(w) + 1)
  BY <1>1
<1>3. ~ (Adds(u, f) /\ Deletes(u, f))
  BY DEF Adds, Deletes
<1>4. (\A i \in DOMAIN v : ~Deletes(v[i], f)) <=>
         ~Deletes(u, f) /\ \A i \in DOMAIN w : ~Deletes(w[i], f)
  BY <1>2
<1>5. (\E i \in DOMAIN v : Adds(v[i], f) /\ \A j \in DOMAIN v : j > i => ~Deletes(v[j], f)) <=>
         \/ Adds(u, f)
         \/ /\ ~Deletes(u, f)
            /\ \E i \in DOMAIN w : Adds(w[i], f) /\ \A j \in DOMAIN w : j > i => ~Deletes(w[j], f)
  BY <1>2
<1>6. f \in View(docs, v) <=> Adds(u, f) \/ (f \in View(docs, w) /\ ~Deletes(u, f))
  BY <1>3, <1>4, <1>5 DEF View
<1> QED
  BY <1>6 DEF v

\* What the switch needs, beside CoreInv.
SwitchInv == OneTapAtATime /\ LikesOfUsers /\ AnswerIsCurrent /\ AnswerIsStored

\* A device sees at most one like of each of its accounts.
LEMMA OneLike ==
    ASSUME CoreInv, SwitchInv, NEW d \in Devices, NEW a \in MayUse[d],
           NEW f \in Own(d, a), NEW g \in Own(d, a)
    PROVE  f = g
<1>1. /\ a \in Accounts /\ Sole(d, a) /\ MaxTaps <= 1
      /\ queue[d] \in Seq(Write) /\ requests[d] \in Seq(Request) /\ DOMAIN queue[d] = 1..Len(queue[d])
      /\ Len(queue[d]) \in 0..Len(queue[d])
  BY ConstantsAssumption, StateIsTyped, Indices DEF CoreInv, SwitchInv, OneTapAtATime
<1> DEFINE K == Kept(favorites, queue[d], d, a, Len(queue[d]))
<1>2. ASSUME NEW h \in Own(d, a)
      PROVE  h \in K
  <2>1. h \in Favorite /\ h.email = a /\ h \in View(known[d], queue[d])
    BY DEF Own, View
  <2>2. CASE h \in known[d] /\ \A i \in DOMAIN queue[d] : ~Deletes(queue[d][i], h)
    <3>1. h \in favorites
      BY <1>1, <2>1, <2>2 DEF CoreInv, SoleIsKnown
    <3>2. h.by \in Devices /\ a \in MayUse[h.by]
      BY <2>1, <3>1 DEF SwitchInv, LikesOfUsers, Favorite
    <3>3. h.by = d
      BY <1>1, <3>2 DEF Sole
    <3> QED
      BY <1>1, <2>1, <2>2, <3>1, <3>3 DEF Kept
  <2>3. CASE \E i \in DOMAIN queue[d] :
               /\ Adds(queue[d][i], h)
               /\ \A j \in DOMAIN queue[d] : j > i => ~Deletes(queue[d][j], h)
    <3>1. PICK i \in DOMAIN queue[d] :
               /\ Adds(queue[d][i], h)
               /\ \A j \in DOMAIN queue[d] : j > i => ~Deletes(queue[d][j], h)
      BY <2>3
    <3>2. h.by = d /\ \A j \in DOMAIN queue[d] : j < i => ~Deletes(queue[d][j], h)
      BY <3>1 DEF CoreInv, AddsAreNew, Adds, Deletes
    <3>3. ~Deletes(queue[d][i], h)
      BY <3>1 DEF Adds, Deletes
    <3>4. \A j \in DOMAIN queue[d] : j > i \/ j = i \/ j < i
      BY <1>1
    <3>5. \A j \in DOMAIN queue[d] : ~Deletes(queue[d][j], h)
      BY <3>1, <3>2, <3>3, <3>4
    <3> QED
      BY <1>1, <2>1, <3>1, <3>2, <3>5 DEF Kept
  <2> QED
    BY <2>1, <2>2, <2>3 DEF View
<1>3. IsFiniteSet(K) /\ Cardinality(K) <= MaxTaps /\ Cardinality(K) \in Nat
  BY <1>1, FS_CardinalityType DEF CoreInv, KeptIsBounded, Bounded
<1> HIDE DEF K
<1>4. f \in K /\ g \in K
  BY <1>2
<1>5. Cardinality(K) = 0 \/ Cardinality(K) = 1
  BY <1>1, <1>3, ConstantsAssumption
<1>6. CASE Cardinality(K) = 0
  BY <1>3, <1>4, <1>6, FS_EmptySet
<1>7. CASE Cardinality(K) = 1
  <2>1. \E x : K = {x}
    BY <1>3, <1>7, FS_Singleton
  <2> QED
    BY <1>4, <2>1
<1> QED
  BY <1>5, <1>6, <1>7

\* A tap that waits is the only one of its account, here and elsewhere.
LEMMA OneTap ==
    ASSUME CoreInv, SwitchInv, NEW d \in Devices, NEW i \in Toggles(requests[d]),
           NEW e \in Devices, NEW j \in Toggles(requests[e]),
           d = e \/ requests[e][j].email = requests[d][i].email
    PROVE  d = e /\ i = j
<1>1. MaxTaps <= 1 /\ \A a \in MayUse[d] : Sole(d, a)
  BY DEF SwitchInv, OneTapAtATime
<1>2. requests[d][i].email \in MayUse[d] /\ requests[e][j].email \in MayUse[e]
  BY DEF CoreInv, WritesAsAllowed, Toggles
<1>3. d = e
  BY <1>1, <1>2 DEF Sole
<1>4. IsFiniteSet(Toggles(requests[d])) /\ Cardinality(Toggles(requests[d])) \in Nat
  BY StateIsTyped, TogglesAreFinite DEF CoreInv
<1>5. Cardinality(Toggles(requests[d])) <= MaxTaps
  BY DEF CoreInv, KeptIsBounded, Bounded
<1>6. Cardinality(Toggles(requests[d])) = 0 \/ Cardinality(Toggles(requests[d])) = 1
  BY <1>1, <1>4, <1>5, ConstantsAssumption
<1>7. CASE Cardinality(Toggles(requests[d])) = 0
  BY <1>4, <1>7, FS_EmptySet
<1>8. CASE Cardinality(Toggles(requests[d])) = 1
  <2>1. \E x : Toggles(requests[d]) = {x}
    BY <1>4, <1>8, FS_Singleton
  <2> QED
    BY <1>3, <2>1
<1> QED
  BY <1>3, <1>6, <1>7, <1>8

\* The taps that wait are of the same accounts, and no answer has gone stale.
SameTaps(d) ==
    /\ \A i \in Toggles(requests'[d]) : \E j \in Toggles(requests[d]) :
          /\ requests'[d][i].email = requests[d][j].email
          /\ requests'[d][i].answered =>
                \/ requests[d][j].answered /\ requests'[d][i].result = requests[d][j].result
                \/ requests'[d][i].result = Own(d, requests'[d][i].email) /\ stored[d] = Len(queue[d])
    /\ \A j \in Toggles(requests[d]) : \E i \in Toggles(requests'[d]) :
          requests'[d][i].email = requests[d][j].email

LEMMA RestsAreSame ==
    ASSUME NEW d \in Devices, requests'[d] = requests[d]
    PROVE  SameTaps(d)
BY DEF SameTaps, Toggles

\* A step that keeps the taps and what the users see is none of the switch.
LEMMA SwitchRests ==
    ASSUME CoreInv, SwitchInv, LikesOfUsers',
           \A d \in Devices : \A a \in MayUse[d] : Own(d, a)' = Own(d, a),
           \A d \in Devices : SameTaps(d),
           \A d \in Devices : stored[d] = Len(queue[d]) => stored'[d] = Len(queue'[d])
    PROVE  SwitchInv' /\ UNCHANGED <<Liked, Waiting>>
<1>1. AnswerIsCurrent'
  <2>1. ASSUME NEW d \in Devices, NEW i \in Toggles(requests'[d]), requests'[d][i].answered,
               NEW a, a = requests'[d][i].email
        PROVE  requests'[d][i].result = Own(d, a)'
    <3>1. PICK j \in Toggles(requests[d]) :
            /\ requests'[d][i].email = requests[d][j].email
            /\ \/ requests[d][j].answered /\ requests'[d][i].result = requests[d][j].result
               \/ requests'[d][i].result = Own(d, requests'[d][i].email)
      BY <2>1 DEF SameTaps
    <3>2. requests[d][j].email \in MayUse[d]
      BY DEF CoreInv, WritesAsAllowed, Toggles
    <3>3. requests'[d][i].result = Own(d, requests[d][j].email)
      BY <3>1 DEF SwitchInv, AnswerIsCurrent
    <3> QED
      BY <2>1, <3>1, <3>2, <3>3
  <2> QED
    BY <2>1 DEF AnswerIsCurrent, Toggles
<1>2. Liked' = Liked
  BY DEF Liked
<1>3. Waiting' = Waiting
  BY DEF Waiting, SameTaps, Toggles
<1>4. OneTapAtATime'
  BY DEF SwitchInv, OneTapAtATime
<1>5. AnswerIsStored'
  BY DEF SwitchInv, AnswerIsStored, SameTaps, Toggles
<1> QED
  BY <1>1, <1>2, <1>3, <1>4, <1>5 DEF SwitchInv

LEMMA UploadRests ==
    ASSUME CoreInv, SwitchInv, NEW d \in Devices, Upload(d)
    PROVE  SwitchInv' /\ UNCHANGED <<Liked, Waiting>>
<1>1. /\ 1 \in DOMAIN queue[d] /\ Head(queue[d]) = queue[d][1] /\ queue[d][1] \in Write
      /\ queue[d] # <<>>
  <2>1. queue[d] \in Seq(Write) /\ stored[d] \in Nat /\ stored[d] > 0 /\ stored[d] <= Len(queue[d])
    BY DEF CoreInv, TypeOK, Upload
  <2>2. queue[d] # <<>>
    BY <2>1
  <2> QED
    BY <2>1, <2>2, Indices
<1>2. ASSUME NEW f \in favorites'
      PROVE  f.email \in MayUse[f.by]
  <2>1. CASE f \in favorites
    BY <2>1 DEF SwitchInv, LikesOfUsers
  <2>2. CASE f \notin favorites
    <3>1. queue[d][1].op = "add" /\ f = queue[d][1].doc
      BY <1>1, <2>2 DEF Upload, Written
    <3>2. f.by = d /\ f.email \in MayUse[d]
      BY <1>1, <3>1 DEF CoreInv, AddsAreNew, WritesAsAllowed
    <3> QED
      BY <3>2
  <2> QED
    BY <2>1, <2>2
<1>3. LikesOfUsers'
  BY <1>2 DEF LikesOfUsers
<1>4. \A e \in Devices : \A a \in MayUse[e] : Own(e, a)' = Own(e, a)
  BY SentIsSame DEF CoreInv
<1>5. \A e \in Devices : SameTaps(e)
  BY RestsAreSame DEF Upload
<1>6. \A e \in Devices : stored[e] = Len(queue[e]) => stored'[e] = Len(queue'[e])
  <2>1. /\ queue \in [Devices -> Seq(Write)] /\ stored \in [Devices -> Nat]
        /\ queue[d] \in Seq(Write) /\ queue[d] # <<>>
    BY <1>1 DEF CoreInv, TypeOK
  <2>2. Len(Tail(queue[d])) = Len(queue[d]) - 1
    BY <2>1, TailShifts
  <2> QED
    BY <2>1, <2>2 DEF Upload
<1> QED
  BY <1>3, <1>4, <1>5, <1>6, SwitchRests

LEMMA StoreRests ==
    ASSUME CoreInv, SwitchInv, NEW d \in Devices, Store(d)
    PROVE  SwitchInv' /\ UNCHANGED <<Liked, Waiting>>
<1>1. LikesOfUsers'
  BY DEF SwitchInv, LikesOfUsers, Store
<1>2. \A e \in Devices : \A a \in MayUse[e] : Own(e, a)' = Own(e, a)
  BY OwnIsFramed DEF Store
<1>3. \A e \in Devices : SameTaps(e)
  BY RestsAreSame DEF Store
<1>4. \A e \in Devices : stored[e] = Len(queue[e]) => stored'[e] = Len(queue'[e])
  <2>1. /\ stored \in [Devices -> Nat] /\ \A e \in Devices : Len(queue[e]) \in Nat
    BY StateIsTyped, Indices DEF CoreInv, TypeOK
  <2> QED
    BY <2>1 DEF Store
<1> QED
  BY <1>1, <1>2, <1>3, <1>4, SwitchRests

LEMMA RefreshRests ==
    ASSUME CoreInv, SwitchInv, NEW d \in Devices, Refresh(d)
    PROVE  SwitchInv' /\ UNCHANGED <<Liked, Waiting>>
<1>1. LikesOfUsers'
  BY DEF SwitchInv, LikesOfUsers, Refresh
<1>2. \A e \in Devices : \A a \in MayUse[e] : Own(e, a)' = Own(e, a)
  BY RefreshedIsSame DEF CoreInv, SwitchInv, OneTapAtATime
<1>3. \A e \in Devices : SameTaps(e)
  BY RestsAreSame DEF Refresh
<1>4. UNCHANGED <<queue, stored>>
  BY DEF Refresh
<1> QED
  BY <1>1, <1>2, <1>3, <1>4, SwitchRests

\* Steps that leave the documents and the writes alone.
LEMMA DocumentsRest ==
    ASSUME CoreInv, SwitchInv, UNCHANGED <<favorites, known, queue, stored>>,
           \A d \in Devices : SameTaps(d)
    PROVE  SwitchInv' /\ UNCHANGED <<Liked, Waiting>>
<1>1. LikesOfUsers'
  BY DEF SwitchInv, LikesOfUsers
<1>2. \A e \in Devices : \A a \in MayUse[e] : Own(e, a)' = Own(e, a)
  BY OwnIsFramed
<1> QED
  BY <1>1, <1>2, SwitchRests

LEMMA SessionRests ==
    ASSUME CoreInv, SwitchInv, UNCHANGED <<favorites, known, queue, stored, requests>>
    PROVE  SwitchInv' /\ UNCHANGED <<Liked, Waiting>>
BY RestsAreSame, DocumentsRest

LEMMA AnswerRests ==
    ASSUME CoreInv, SwitchInv, NEW d \in Devices, Answer(d)
    PROVE  SwitchInv' /\ UNCHANGED <<Liked, Waiting>>
<1>1. PICK i \in DOMAIN requests[d] :
        requests' = [requests EXCEPT
              ![d][i].answered = TRUE, ![d][i].result = Own(d, requests[d][i].email)]
  BY DEF Answer
<1>2. /\ requests \in [Devices -> Seq(Request)]
      /\ \A e \in Devices : \A j \in DOMAIN requests[e] : requests[e][j] \in Request
  BY StateIsTyped DEF CoreInv, TypeOK
<1>3. ASSUME NEW e \in Devices
      PROVE  /\ DOMAIN requests'[e] = DOMAIN requests[e]
             /\ \A j \in DOMAIN requests[e] : e # d \/ j # i => requests'[e][j] = requests[e][j]
  BY <1>1, <1>2
<1>4. /\ requests'[d][i].kind = requests[d][i].kind /\ requests'[d][i].email = requests[d][i].email
      /\ requests'[d][i].result = Own(d, requests[d][i].email)
  <2>1. requests[d][i] \in Request
    BY <1>2
  <2> QED
    BY <1>1, <1>2, <2>1 DEF Request
<1>5. ASSUME NEW e \in Devices
      PROVE  SameTaps(e)
  <2>1. Toggles(requests'[e]) = Toggles(requests[e])
    BY <1>3, <1>4 DEF Toggles
  <2>2. \A j \in Toggles(requests[e]) :
            /\ requests'[e][j].email = requests[e][j].email
            /\ requests'[e][j] # requests[e][j] =>
                   requests'[e][j].result = Own(e, requests[e][j].email)
    BY <1>3, <1>4 DEF Toggles
  <2>3. stored[d] = Len(queue[d]) /\ \A j \in DOMAIN requests[e] : e # d => requests'[e][j] = requests[e][j]
    BY <1>3 DEF Answer
  <2>4. ASSUME NEW j \in Toggles(requests[e]), requests'[e][j].answered
        PROVE  \/ requests[e][j].answered /\ requests'[e][j].result = requests[e][j].result
               \/ requests'[e][j].result = Own(e, requests'[e][j].email) /\ stored[e] = Len(queue[e])
    BY <2>2, <2>3, <2>4 DEF Toggles
  <2> QED
    BY <2>1, <2>2, <2>4 DEF SameTaps
<1> QED
  BY <1>5, DocumentsRest DEF Answer

LEMMA OpenPageRests ==
    ASSUME CoreInv, SwitchInv, NEW d \in Devices, OpenPage(d)
    PROVE  SwitchInv' /\ UNCHANGED <<Liked, Waiting>>
<1> DEFINE x == Ask("image", savedId[d], TRUE)
<1>1. x \in Request /\ x.kind = "image"
  BY DEF CoreInv, TypeOK, Ask, Request, OpenPage
<1>2. requests' = [requests EXCEPT ![d] = Append(@, x)]
  BY DEF OpenPage
<1> HIDE DEF x
<1>3. /\ \A e \in Devices : e # d => requests'[e] = requests[e]
      /\ \A i \in DOMAIN requests'[d] :
            requests'[d][i] = x \/ (i \in DOMAIN requests[d] /\ requests'[d][i] = requests[d][i])
      /\ \A i \in DOMAIN requests[d] : i \in DOMAIN requests'[d] /\ requests'[d][i] = requests[d][i]
  BY <1>1, <1>2, AskedIsAdded DEF CoreInv
<1>4. SameTaps(d)
  BY <1>1, <1>3 DEF SameTaps, Toggles
<1>5. \A e \in Devices : SameTaps(e)
  BY <1>3, <1>4, RestsAreSame
<1> QED
  BY <1>5, DocumentsRest DEF OpenPage

LEMMA ClosePageRests ==
    ASSUME CoreInv, SwitchInv, NEW d \in Devices, ClosePage(d)
    PROVE  SwitchInv' /\ UNCHANGED <<Liked, Waiting>>
<1>1. /\ \A e \in Devices : e # d => requests'[e] = requests[e]
      /\ DOMAIN requests'[d] = DOMAIN requests[d]
      /\ \A i \in DOMAIN requests[d] : requests'[d][i] = [requests[d][i] EXCEPT !.shown = FALSE]
  BY DEF CoreInv, TypeOK, ClosePage
<1>2. ASSUME NEW y \in Request, NEW z, z = [y EXCEPT !.shown = FALSE]
      PROVE  z.kind = y.kind /\ z.email = y.email /\ z.answered = y.answered /\ z.result = y.result
  BY <1>2 DEF Request
<1>3. \A i \in DOMAIN requests[d] :
          /\ requests'[d][i].kind = requests[d][i].kind
          /\ requests'[d][i].email = requests[d][i].email
          /\ requests'[d][i].answered = requests[d][i].answered
          /\ requests'[d][i].result = requests[d][i].result
  <2>1. \A i \in DOMAIN requests[d] : requests[d][i] \in Request
    BY StateIsTyped DEF CoreInv
  <2> QED
    BY <1>1, <1>2, <2>1
<1>4. SameTaps(d)
  BY <1>1, <1>3 DEF SameTaps, Toggles
<1>5. \A e \in Devices : SameTaps(e)
  BY <1>1, <1>4, RestsAreSame
<1> QED
  BY <1>5, DocumentsRest DEF ClosePage

LEMMA ShowLikeRests ==
    ASSUME CoreInv, SwitchInv, NEW d \in Devices, ShowLike(d)
    PROVE  SwitchInv' /\ UNCHANGED <<Liked, Waiting>>
<1>1. /\ requests[d] \in Seq(Request) /\ requests[d] # <<>>
      /\ requests'[d] = Tail(requests[d]) /\ requests[d][1].kind = "image"
      /\ \A e \in Devices : e # d => requests'[e] = requests[e]
  <2>1. requests \in [Devices -> Seq(Request)] /\ requests[d] # <<>> /\ Head(requests[d]).kind = "image"
    BY DEF CoreInv, TypeOK, ShowLike, Answered
  <2>2. Head(requests[d]) = requests[d][1]
    BY <2>1, Indices
  <2> QED
    BY <2>1, <2>2 DEF ShowLike
<1>2. /\ Len(requests[d]) \in Nat /\ DOMAIN requests[d] = 1..Len(requests[d])
      /\ DOMAIN requests'[d] = 1..(Len(requests[d]) - 1)
      /\ \A i \in 1..(Len(requests[d]) - 1) : requests'[d][i] = requests[d][i + 1]
  BY <1>1, Indices, TailShifts
<1>3. \A i \in Toggles(requests'[d]) :
          i + 1 \in Toggles(requests[d]) /\ requests'[d][i] = requests[d][i + 1]
  BY <1>2 DEF Toggles
<1>4. \A j \in Toggles(requests[d]) :
          j - 1 \in Toggles(requests'[d]) /\ requests'[d][j - 1] = requests[d][j]
  <2>1. ASSUME NEW j \in DOMAIN requests[d], requests[d][j].kind = "toggle"
        PROVE  j - 1 \in DOMAIN requests'[d] /\ requests'[d][j - 1] = requests[d][j]
    <3>1. j - 1 \in 1..(Len(requests[d]) - 1) /\ (j - 1) + 1 = j
      BY <1>1, <1>2, <2>1
    <3> QED
      BY <1>2, <3>1
  <2> QED
    BY <2>1 DEF Toggles
<1>5. SameTaps(d)
  BY <1>3, <1>4 DEF SameTaps
<1>6. \A e \in Devices : SameTaps(e)
  BY <1>1, <1>5, RestsAreSame
<1> QED
  BY <1>6, DocumentsRest DEF ShowLike

\* A tap of the heart is a tap of the switch.
LEMMA TapTaps ==
    ASSUME CoreInv, SwitchInv, NEW d \in Devices, clickLikeBtn(d)
    PROVE  SwitchInv' /\ Register!Tap(savedId[d]) /\ savedId[d] \in Accounts
<1> DEFINE x == Ask("toggle", savedId[d], TRUE)
<1>1. /\ savedId[d] \in Accounts /\ savedId[d] \in MayUse[d]
      /\ x \in Request /\ x.kind = "toggle" /\ x.email = savedId[d] /\ ~x.answered
  BY DEF CoreInv, TypeOK, PageHasAccount, WritesAsAllowed, Ask, Request, clickLikeBtn
<1>2. requests' = [requests EXCEPT ![d] = Append(@, x)]
  BY DEF clickLikeBtn
<1> HIDE DEF x
<1>3. /\ requests[d] \in Seq(Request) /\ requests'[d] = Append(requests[d], x)
      /\ \A e \in Devices : e # d => requests'[e] = requests[e]
      /\ \A i \in DOMAIN requests'[d] :
            requests'[d][i] = x \/ (i \in DOMAIN requests[d] /\ requests'[d][i] = requests[d][i])
  BY <1>1, <1>2, AskedIsAdded, StateIsTyped DEF CoreInv
<1>4. Toggles(requests[d]) = {}
  <2>1. IsFiniteSet(Toggles(requests[d])) /\ Cardinality(Toggles(requests[d])) \in Nat
    BY <1>3, TogglesAreFinite
  <2>2. Cardinality(Toggles(requests[d])) < MaxTaps /\ MaxTaps <= 1
    BY DEF clickLikeBtn, SwitchInv, OneTapAtATime
  <2>3. Cardinality(Toggles(requests[d])) = 0
    BY <2>1, <2>2, ConstantsAssumption
  <2> QED
    BY <2>1, <2>3, FS_EmptySet
<1>5. /\ \A i \in Toggles(requests'[d]) : requests'[d][i] = x
      /\ \E i \in Toggles(requests'[d]) : requests'[d][i] = x
  <2>1. \E i \in DOMAIN requests'[d] : requests'[d][i] = x
    <3>1. /\ Len(requests[d]) + 1 \in DOMAIN Append(requests[d], x)
          /\ Append(requests[d], x)[Len(requests[d]) + 1] = x
      BY <1>1, <1>3, AppendAdds, Indices
    <3> QED
      BY <1>3, <3>1
  <2> QED
    BY <1>1, <1>3, <1>4, <2>1 DEF Toggles
<1>6. \A e \in Devices : \A a : Own(e, a)' = Own(e, a)
  BY OwnIsFramed DEF clickLikeBtn
<1>7. Liked' = Liked
  BY <1>6 DEF Liked
<1>8. Waiting' = Waiting \cup {savedId[d]}
  <2>1. \A e \in Devices : e # d => Toggles(requests'[e]) = Toggles(requests[e])
    BY <1>3
  <2>2. ASSUME NEW a \in Accounts
        PROVE  (\E e \in Devices : \E i \in Toggles(requests'[e]) : requests'[e][i].email = a) <=>
                   \/ a = savedId[d]
                   \/ \E e \in Devices : \E i \in Toggles(requests[e]) : requests[e][i].email = a
    <3>1. ASSUME NEW e \in Devices, NEW i \in Toggles(requests'[e])
          PROVE  \/ requests'[e][i].email = savedId[d]
                 \/ i \in Toggles(requests[e]) /\ requests'[e][i] = requests[e][i]
      BY <1>1, <1>3, <1>5, <2>1
    <3>2. ASSUME NEW e \in Devices, NEW i \in Toggles(requests[e])
          PROVE  i \in Toggles(requests'[e]) /\ requests'[e][i] = requests[e][i]
      BY <1>3, <1>4, <2>1
    <3>3. \E i \in Toggles(requests'[d]) : requests'[d][i].email = savedId[d]
      BY <1>1, <1>5
    <3> QED
      BY <3>1, <3>2, <3>3
  <2>3. Waiting' = {a \in Accounts : \E e \in Devices : \E i \in Toggles(requests'[e]) :
                        requests'[e][i].email = a}
    BY DEF Waiting, Toggles
  <2> QED
    BY <1>1, <2>2, <2>3 DEF Waiting
<1>9. savedId[d] \notin Waiting
  <2>1. ASSUME NEW e \in Devices, NEW j \in Toggles(requests[e])
        PROVE  requests[e][j].email # savedId[d]
    <3>1. e # d /\ requests[e][j].email \in MayUse[e]
      BY <1>4, <2>1 DEF CoreInv, WritesAsAllowed, Toggles
    <3> QED
      BY <1>1, <3>1 DEF SwitchInv, OneTapAtATime, Sole
  <2> QED
    BY <2>1 DEF Waiting
<1>10. AnswerIsCurrent'
  <2>1. ASSUME NEW e \in Devices, NEW i \in Toggles(requests'[e]), requests'[e][i].answered
        PROVE  i \in Toggles(requests[e]) /\ requests'[e][i] = requests[e][i]
    BY <1>1, <1>3, <1>5, <2>1 DEF Toggles
  <2>2. ASSUME NEW e \in Devices, NEW i \in Toggles(requests'[e]), requests'[e][i].answered,
               NEW a, a = requests'[e][i].email
        PROVE  requests'[e][i].result = Own(e, a)'
    BY <1>6, <2>1, <2>2 DEF SwitchInv, AnswerIsCurrent
  <2> QED
    BY <2>2 DEF AnswerIsCurrent, Toggles
<1>11. LikesOfUsers' /\ OneTapAtATime'
  BY DEF SwitchInv, LikesOfUsers, OneTapAtATime, clickLikeBtn
<1>12. AnswerIsStored'
  <2>1. ASSUME NEW e \in Devices, NEW i \in Toggles(requests'[e]), requests'[e][i].answered
        PROVE  i \in Toggles(requests[e]) /\ requests'[e][i] = requests[e][i]
    BY <1>1, <1>3, <1>5, <2>1 DEF Toggles
  <2>2. UNCHANGED <<queue, stored>>
    BY DEF clickLikeBtn
  <2> QED
    BY <2>1, <2>2 DEF SwitchInv, AnswerIsStored, Toggles
<1>13. Attended' = Attended /\ savedId[d] \in Attended
  BY <1>1 DEF Attended, CoreInv, PageHasAccount, clickLikeBtn
<1> QED
  BY <1>1, <1>7, <1>8, <1>9, <1>10, <1>11, <1>12, <1>13 DEF SwitchInv, Register!Tap

\* The completion of the tap flips the switch, unless nobody is logged in: then the
\* process traps, and either keeps the write or loses it.
LEMMA CompletionFlips ==
    ASSUME CoreInv, SwitchInv, NEW d \in Devices, Unlike(d) \/ Like(d)
    PROVE  SwitchInv' /\ \E a \in Accounts : Register!Flip(a) \/ Register!Lose(a)
<1>1. PICK a : a = Head(requests[d]).email
  OBVIOUS
<1>2. /\ requests[d] # <<>> /\ Answered(d, "toggle")
      /\ requests[d] \in Seq(Request) /\ queue[d] \in Seq(Write)
      /\ 1 \in DOMAIN requests[d] /\ Head(requests[d]) = requests[d][1]
      /\ UNCHANGED <<favorites, known, savedId>>
  <2>1. /\ requests[d] # <<>> /\ Answered(d, "toggle") /\ UNCHANGED <<favorites, known, savedId>>
    BY DEF Unlike, Like, Answered
  <2> QED
    BY <2>1, StateIsTyped, Indices DEF CoreInv
<1>3. /\ 1 \in Toggles(requests[d]) /\ a \in MayUse[d] /\ a \in Accounts
      /\ Head(requests[d]).result = Own(d, a)
  BY <1>1, <1>2, ConstantsAssumption
     DEF CoreInv, WritesAsAllowed, SwitchInv, AnswerIsCurrent, Toggles, Answered
<1>4. PICK u \in Write :
        /\ checkLikeImage(d, u)
        /\ u.doc \in Favorite /\ u.doc.email = a
        /\ \/ u.op = "add" /\ Own(d, a) = {}
           \/ u.op = "delete" /\ Own(d, a) = {u.doc}
  <2>1. CASE Like(d)
    <3>1. PICK id \in Ids :
            checkLikeImage(d, [op |-> "add", doc |-> [id |-> id, email |-> a, by |-> d]])
      BY <1>1, <2>1 DEF Like, AddLike
    <3> DEFINE w == [op |-> "add", doc |-> [id |-> id, email |-> a, by |-> d]]
    <3>2. w \in Write /\ w.op = "add" /\ w.doc \in Favorite /\ w.doc.email = a
      BY <1>3 DEF Write, Favorite
    <3>3. Own(d, a) = {}
      BY <1>1, <1>3, <2>1 DEF Like
    <3> QED
      BY <3>1, <3>2, <3>3
  <2>2. CASE Unlike(d)
    <3> DEFINE f == First(Own(d, a))
               w == [op |-> "delete", doc |-> f]
    <3>1. checkLikeImage(d, w) /\ Own(d, a) # {}
      BY <1>1, <1>3, <2>2 DEF Unlike
    <3>2. f \in Own(d, a) /\ f \in Favorite /\ f.email = a
      <4>1. f \in Own(d, a)
        BY <3>1, OwnIsTyped, FirstIsThere
      <4> QED
        BY <4>1 DEF Own, View
    <3>3. Own(d, a) = {f}
      <4> HIDE DEF f
      <4> QED
        BY <1>3, <3>2, OneLike
    <3> HIDE DEF f
    <3>4. w \in Write /\ w.op = "delete" /\ w.doc = f
      BY <3>2 DEF Write
    <3> QED
      BY <3>1, <3>2, <3>3, <3>4
  <2> QED
    BY <2>1, <2>2
<1>5. /\ \A e \in Devices : e # d => queue'[e] = queue[e] /\ stored'[e] = stored[e]
      /\ \/ queue'[d] = Append(queue[d], u)
         \/ queue'[d] = queue[d] /\ savedId[d] = Nil
  <2>1. /\ queue \in [Devices -> Seq(Write)] /\ stored \in [Devices -> Nat]
        /\ Len(queue[d]) \in Nat /\ stored[d] = Len(queue[d])
    BY <1>2, <1>3, Indices DEF CoreInv, TypeOK, SwitchInv, AnswerIsStored, Answered
  <2>2. /\ Append(queue[d], u) \in Seq(Write) /\ Len(Append(queue[d], u)) = Len(queue[d]) + 1
        /\ DOMAIN Append(queue[d], u) = 1..(Len(queue[d]) + 1)
        /\ \A i \in 1..Len(queue[d]) : Append(queue[d], u)[i] = queue[d][i]
    BY <1>2, <1>4, AppendAdds
  <2>3. CASE savedId[d] = Nil /\ Die(d, Append(queue[d], u))
    <3>1. PICK n \in stored[d]..Len(Append(queue[d], u)) :
            /\ queue' = [queue EXCEPT ![d] = SubSeq(Append(queue[d], u), 1, n)]
            /\ stored' = [stored EXCEPT ![d] = n]
      BY <2>3 DEF Die
    <3>2. n = Len(queue[d]) \/ n = Len(queue[d]) + 1
      BY <2>1, <2>2, <3>1
    <3>3. SubSeq(Append(queue[d], u), 1, Len(queue[d])) = queue[d]
      BY <1>2, <2>1, <2>2
    <3>4. SubSeq(Append(queue[d], u), 1, Len(queue[d]) + 1) = Append(queue[d], u)
      BY <2>1, <2>2
    <3> QED
      BY <2>1, <2>3, <3>1, <3>2, <3>3, <3>4
  <2>4. CASE queue' = [queue EXCEPT ![d] = Append(queue[d], u)] /\ stored' = stored
    BY <2>1, <2>4
  <2> QED
    BY <1>4, <2>3, <2>4 DEF checkLikeImage
<1>6. \A e \in Devices : \A b : e # d => Own(e, b)' = Own(e, b)
  BY <1>2, <1>5, OwnIsFramed
<1>7. ASSUME queue'[d] = Append(queue[d], u)
      PROVE  /\ \A b : b # a => Own(d, b)' = Own(d, b)
             /\ (Own(d, a)' # {}) <=> (Own(d, a) = {})
  <2>1. \A b : Own(d, b)' = {f \in View(known[d], Append(queue[d], u)) : f.email = b}
    BY <1>2, <1>7 DEF Own, View
  <2>2. \A f \in Favorite : f \in View(known[d], Append(queue[d], u)) <=>
            Adds(u, f) \/ (f \in View(known[d], queue[d]) /\ ~Deletes(u, f))
    BY <1>2, ViewAfterWrite
  <2>3. \A docs, w : View(docs, w) \subseteq Favorite
    BY DEF View
  <2>4. \A b : b # a => Own(d, b)' = Own(d, b)
    BY <1>4, <2>1, <2>2, <2>3 DEF Own, Adds, Deletes
  <2>5. CASE u.op = "add" /\ Own(d, a) = {}
    <3>1. u.doc \in View(known[d], Append(queue[d], u))
      BY <1>4, <2>2, <2>5 DEF Adds
    <3>2. u.doc \in Own(d, a)'
      BY <1>4, <2>1, <3>1
    <3> QED
      BY <2>4, <2>5, <3>2
  <2>6. CASE u.op = "delete" /\ Own(d, a) = {u.doc}
    <3>1. \A f \in Favorite : f.email = a => f \notin View(known[d], Append(queue[d], u))
      BY <2>2, <2>6 DEF Adds, Deletes, Own
    <3>2. Own(d, a)' = {}
      BY <2>1, <2>3, <3>1
    <3> QED
      BY <2>4, <2>6, <3>2
  <2> QED
    BY <1>4, <2>5, <2>6
<1>12. /\ \A e \in Devices : e # d => requests'[e] = requests[e]
       /\ Toggles(requests'[d]) = {}
  <2>1. /\ \A e \in Devices : e # d => requests'[e] = requests[e]
        /\ \A i \in DOMAIN requests'[d] :
              \/ i + 1 \in DOMAIN requests[d] /\ requests'[d][i] = requests[d][i + 1]
              \/ requests'[d][i] = Ask("image", savedId[d], Head(requests[d]).shown)
        /\ requests' \in [Devices -> Seq(Request)]
    BY <1>2, <1>4, FirstIsDone
  <2>2. \A i \in DOMAIN requests'[d] : i \in Nat /\ i # 0
    BY <2>1, Indices
  <2>3. \A i \in Toggles(requests'[d]) : i + 1 \in Toggles(requests[d]) /\ i + 1 # 1
    BY <2>1, <2>2 DEF Toggles, Ask
  <2>4. \A i \in Toggles(requests[d]) : i = 1
    BY <1>3, OneTap
  <2> QED
    BY <2>1, <2>3, <2>4
<1>13. \A e \in Devices : e # d => a \notin MayUse[e]
  BY <1>3 DEF SwitchInv, OneTapAtATime, Sole
<1>14. ASSUME queue'[d] = Append(queue[d], u)
       PROVE  Liked' = [Liked EXCEPT ![a] = ~@]
  <2>1. ASSUME NEW b \in Accounts
        PROVE  (\E e \in Devices : b \in MayUse[e] /\ Own(e, b)' # {}) <=>
                   IF b = a THEN ~ \E e \in Devices : b \in MayUse[e] /\ Own(e, b) # {}
                            ELSE \E e \in Devices : b \in MayUse[e] /\ Own(e, b) # {}
    <3>1. CASE b = a
      <4>1. \A e \in Devices : b \in MayUse[e] <=> e = d
        BY <1>3, <1>13, <3>1
      <4> QED
        BY <1>7, <1>14, <3>1, <4>1
    <3>2. CASE b # a
      BY <1>6, <1>7, <1>14, <3>2
    <3> QED
      BY <3>1, <3>2
  <2>2. Liked' = [b \in Accounts |-> \E e \in Devices : b \in MayUse[e] /\ Own(e, b)' # {}]
    BY DEF Liked
  <2>3. [Liked EXCEPT ![a] = ~@] =
          [b \in Accounts |-> IF b = a THEN ~ \E e \in Devices : b \in MayUse[e] /\ Own(e, b) # {}
                                       ELSE \E e \in Devices : b \in MayUse[e] /\ Own(e, b) # {}]
    BY <1>3 DEF Liked
  <2> QED
    BY <2>1, <2>2, <2>3
<1>15. Waiting' = Waiting \ {a} /\ a \in Waiting
  <2>1. \A e \in Devices : \A i \in Toggles(requests[e]) : requests[e][i].email = a => e = d
    BY <1>1, <1>2, <1>3, OneTap
  <2>2. \A i \in Toggles(requests[d]) : requests[d][i].email = a
    BY <1>1, <1>2, <1>3, OneTap
  <2>3. \A e \in Devices : e # d => Toggles(requests'[e]) = Toggles(requests[e])
    BY <1>12
  <2>4. ASSUME NEW b \in Accounts
        PROVE  (\E e \in Devices : \E i \in Toggles(requests'[e]) : requests'[e][i].email = b) <=>
                   /\ b # a
                   /\ \E e \in Devices : \E i \in Toggles(requests[e]) : requests[e][i].email = b
    BY <1>12, <2>1, <2>2, <2>3
  <2>5. Waiting' = {b \in Accounts : \E e \in Devices : \E i \in Toggles(requests'[e]) :
                        requests'[e][i].email = b}
    BY DEF Waiting, Toggles
  <2>6. a \in Waiting
    BY <1>3, <2>2 DEF Waiting
  <2> QED
    BY <2>4, <2>5, <2>6 DEF Waiting
<1>16. AnswerIsCurrent'
  <2>1. ASSUME NEW e \in Devices, NEW i \in Toggles(requests'[e]), requests'[e][i].answered,
               NEW b, b = requests'[e][i].email
        PROVE  requests'[e][i].result = Own(e, b)'
    <3>1. e # d /\ requests'[e] = requests[e]
      BY <1>12, <2>1
    <3> QED
      BY <1>6, <2>1, <3>1 DEF SwitchInv, AnswerIsCurrent
  <2> QED
    BY <2>1 DEF AnswerIsCurrent, Toggles
<1>17. LikesOfUsers' /\ OneTapAtATime'
  BY <1>2 DEF SwitchInv, LikesOfUsers, OneTapAtATime
<1>18. AnswerIsStored'
  <2>1. \A e \in Devices : \A i \in Toggles(requests'[e]) :
            e # d /\ requests'[e] = requests[e] /\ queue'[e] = queue[e] /\ stored'[e] = stored[e]
    BY <1>5, <1>12
  <2> QED
    BY <2>1 DEF SwitchInv, AnswerIsStored, Toggles
<1>19. Attended' = Attended
  BY <1>2 DEF Attended
<1>20. CASE queue'[d] = Append(queue[d], u)
  BY <1>3, <1>14, <1>15, <1>16, <1>17, <1>18, <1>19, <1>20 DEF SwitchInv, Register!Flip
<1>21. CASE queue'[d] = queue[d] /\ savedId[d] = Nil
  <2>1. Liked' = Liked
    <3>1. \A e \in Devices : \A b : Own(e, b)' = Own(e, b)
      BY <1>2, <1>6, <1>21, OwnIsFramed
    <3> QED
      BY <3>1 DEF Liked
  <2>2. a \notin Attended
    BY <1>13, <1>21 DEF Attended
  <2> QED
    BY <1>3, <1>15, <1>16, <1>17, <1>18, <1>19, <2>1, <2>2 DEF SwitchInv, Register!Lose
<1> QED
  BY <1>5, <1>20, <1>21

\* When a user waits for the answer before the next tap, and no account is in use
\* on two devices, clickLikeBtn's check and the write that follows are one switch:
\* every tap flips the like of its account once, whatever logouts and logins,
\* uploads and answers come between.  Only a tap whose answer finds nobody logged
\* in may be lost: its write is handed over just before the process traps.
THEOREM TogglesAsSwitch ==
    ASSUME OneTapAtATime
    PROVE  Spec => Register!Spec
<1>1. Init => Register!Init /\ SwitchInv
  <2> SUFFICES ASSUME Init PROVE Register!Init /\ SwitchInv
    OBVIOUS
  <2>1. \A d \in Devices : \A a : Own(d, a) = {}
    BY DEF Init, Own, View
  <2>2. \A d \in Devices : Toggles(requests[d]) = {}
    BY DEF Init, Toggles
  <2>3. Liked = [a \in Accounts |-> FALSE] /\ Waiting = {} /\ Attended = {}
    BY <2>1, <2>2 DEF Init, Liked, Waiting, Attended
  <2>4. LikesOfUsers /\ AnswerIsCurrent /\ AnswerIsStored
    BY <2>2 DEF Init, LikesOfUsers, AnswerIsCurrent, AnswerIsStored
  <2> QED
    BY <2>3, <2>4 DEF Register!Init, SwitchInv
<1>2. IInv /\ SwitchInv /\ [Step]_vars => SwitchInv' /\ [Register!Next]_(Register!vars)
  <2> SUFFICES ASSUME CoreInv, SwitchInv, [Step]_vars
               PROVE  /\ SwitchInv'
                      /\ \/ \E a \in Accounts :
                               Register!Tap(a) \/ Register!Flip(a) \/ Register!Lose(a)
                         \/ Register!LogInOrOut
                         \/ UNCHANGED <<Liked, Waiting, Attended>>
    BY DEF IInv, Register!Next, Register!vars
  <2>1. CASE UNCHANGED vars
    BY <2>1, SessionRests DEF vars, Attended
  <2>2. ASSUME NEW d \in Devices,
               \/ Store(d) \/ Upload(d) \/ Refresh(d) \/ Answer(d)
               \/ OpenPage(d) \/ ClosePage(d) \/ ShowLike(d)
        PROVE  SwitchInv' /\ UNCHANGED <<Liked, Waiting, Attended>>
    <3>1. SwitchInv' /\ UNCHANGED <<Liked, Waiting>>
      BY <2>2, StoreRests, UploadRests, RefreshRests, AnswerRests, OpenPageRests, ClosePageRests,
         ShowLikeRests
    <3>2. Attended' = Attended
      BY <2>2 DEF Store, Upload, Refresh, Answer, OpenPage, ClosePage, ShowLike, Attended
    <3> QED
      BY <3>1, <3>2
  <2>3. ASSUME NEW d \in Devices,
               Logout(d) \/ (\E account \in MayUse[d] : Login(d, account)) \/ Relaunch(d)
        PROVE  SwitchInv' /\ Register!LogInOrOut
    <3>1. UNCHANGED <<favorites, known, queue, stored, requests>>
      BY <2>3 DEF Logout, Login, Relaunch
    <3>2. SwitchInv' /\ UNCHANGED <<Liked, Waiting>>
      BY <3>1, SessionRests
    <3>3. Attended' \in SUBSET Accounts
      BY DEF Attended
    <3> QED
      BY <3>2, <3>3 DEF Register!LogInOrOut
  <2>4. ASSUME NEW d \in Devices, Kill(d) \/ ReadError(d)
        PROVE  FALSE
    BY <2>4 DEF SwitchInv, OneTapAtATime, Kill, ReadError
  <2>5. ASSUME NEW d \in Devices, clickLikeBtn(d)
        PROVE  SwitchInv' /\ \E a \in Accounts : Register!Tap(a)
    BY <2>5, TapTaps
  <2>6. ASSUME NEW d \in Devices, Unlike(d) \/ Like(d)
        PROVE  SwitchInv' /\ \E a \in Accounts : Register!Flip(a) \/ Register!Lose(a)
    BY <2>6, CompletionFlips
  <2> QED
    BY <2>1, <2>2, <2>3, <2>4, <2>5, <2>6 DEF Step
<1> QED
  BY <1>1, <1>2, Invariance, PTL DEF Spec, Register!Spec

=============================================================================
