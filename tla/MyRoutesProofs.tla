--------------------------- MODULE MyRoutesProofs ---------------------------
(***************************************************************************)
(* Proofs about the list of own routes (module MyRoutes), for any routes,  *)
(* titles and numbers of queries, deletions and disruptions.               *)
(***************************************************************************)
EXTENDS MyRoutes, FiniteSetTheorems, SequenceTheorems, TLAPS

-----------------------------------------------------------------------------
(* Rows                                                                    *)

\* Taking a row out keeps the others.
LEMMA RemoveAtKeeps ==
    ASSUME NEW S, NEW s \in Seq(S), NEW i \in DOMAIN s
    PROVE  /\ RemoveAt(s, i) \in Seq(S)
           /\ Len(RemoveAt(s, i)) = Len(s) - 1
           /\ \A e : e \in Range(s) => e = s[i] \/ e \in Range(RemoveAt(s, i))
<1> DEFINE a == SubSeq(s, 1, i - 1)
           b == SubSeq(s, i + 1, Len(s))
<1>1. i \in 1..Len(s) /\ Len(s) \in Nat
  OBVIOUS
<1>2. /\ a \in Seq(S) /\ Len(a) = i - 1
      /\ \A k \in 1..(i - 1) : a[k] = s[k]
  BY <1>1
<1>3. /\ b \in Seq(S) /\ Len(b) = Len(s) - i
      /\ \A k \in 1..(Len(s) - i) : b[k] = s[k + i]
  BY <1>1
<1> HIDE DEF a, b
<1>4. /\ a \o b \in Seq(S) /\ Len(a \o b) = Len(s) - 1
      /\ \A k \in 1..(Len(s) - 1) : (a \o b)[k] = IF k <= i - 1 THEN a[k] ELSE b[k - (i - 1)]
  <2>1. /\ a \o b \in Seq(S) /\ Len(a \o b) = Len(a) + Len(b)
        /\ \A k \in 1..(Len(a) + Len(b)) :
             (a \o b)[k] = IF k <= Len(a) THEN a[k] ELSE b[k - Len(a)]
    BY SMTT(30), <1>2, <1>3
  <2>2. Len(a) = i - 1 /\ Len(a) + Len(b) = Len(s) - 1
    BY <1>1, <1>2, <1>3
  <2> QED
    BY <2>1, <2>2
<1>5. ASSUME NEW k \in DOMAIN s, k # i
      PROVE  \E j \in DOMAIN (a \o b) : (a \o b)[j] = s[k]
  <2>1. CASE k < i
    <3>1. k \in 1..(Len(s) - 1) /\ (a \o b)[k] = s[k]
      BY <1>1, <1>2, <1>4, <2>1
    <3> QED
      BY <1>4, <3>1
  <2>2. CASE k > i
    <3>1. /\ k - 1 \in 1..(Len(s) - 1) /\ (k - 1) - (i - 1) \in 1..(Len(s) - i)
          /\ ~ (k - 1 <= i - 1) /\ ((k - 1) - (i - 1)) + i = k
      BY <1>1, <2>2
    <3>2. (a \o b)[k - 1] = b[(k - 1) - (i - 1)]
      BY <1>4, <3>1
    <3>3. b[(k - 1) - (i - 1)] = s[k]
      BY <1>3, <3>1
    <3>4. k - 1 \in DOMAIN (a \o b)
      BY <1>4, <3>1
    <3> QED
      BY <3>2, <3>3, <3>4
  <2> QED
    BY <1>1, <1>5, <2>1, <2>2
<1>6. RemoveAt(s, i) = a \o b
  BY DEF RemoveAt, a, b
<1>7. ASSUME NEW e \in Range(s), e # s[i]
      PROVE  e \in Range(a \o b)
  <2>1. PICK k \in DOMAIN s : e = s[k]
    BY DEF Range
  <2>2. PICK j \in DOMAIN (a \o b) : (a \o b)[j] = s[k]
    BY <1>5, <1>7, <2>1
  <2> QED
    BY <2>1, <2>2 DEF Range
<1> QED
  BY <1>4, <1>6, <1>7

\* Putting one in keeps them all.
LEMMA InsertAtKeeps ==
    ASSUME NEW S, NEW s \in Seq(S), NEW e \in S, NEW i \in Nat, 1 <= i, i <= Len(s) + 1
    PROVE  /\ InsertAt(s, i, e) \in Seq(S)
           /\ Len(InsertAt(s, i, e)) = Len(s) + 1
           /\ e \in Range(InsertAt(s, i, e))
           /\ Range(s) \subseteq Range(InsertAt(s, i, e))
<1> DEFINE a == SubSeq(s, 1, i - 1)
           b == SubSeq(s, i, Len(s))
           t == (a \o <<e>>) \o b
<1>1. Len(s) \in Nat
  OBVIOUS
<1>2. /\ a \in Seq(S) /\ Len(a) = i - 1
      /\ \A k \in 1..(i - 1) : a[k] = s[k]
  BY <1>1
<1>3. /\ b \in Seq(S) /\ Len(b) = Len(s) - i + 1
      /\ \A k \in 1..(Len(s) - i + 1) : b[k] = s[k + i - 1]
  BY <1>1
<1> HIDE DEF a, b
<1>4. /\ a \o <<e>> \in Seq(S) /\ Len(a \o <<e>>) = i
      /\ \A k \in 1..(i - 1) : (a \o <<e>>)[k] = a[k]
      /\ (a \o <<e>>)[i] = e
  BY <1>2
<1>5. /\ t \in Seq(S) /\ Len(t) = Len(s) + 1
      /\ \A k \in 1..(Len(s) + 1) : t[k] = IF k <= i THEN (a \o <<e>>)[k] ELSE b[k - i]
  BY <1>1, <1>3, <1>4
<1>6. InsertAt(s, i, e) = t
  BY DEF InsertAt, a, b
<1> HIDE DEF t
<1>7. DOMAIN t = 1..(Len(s) + 1)
  BY <1>1, <1>5
<1>8. ASSUME NEW k \in DOMAIN s
      PROVE  \E j \in DOMAIN t : t[j] = s[k]
  <2>1. CASE k < i
    <3>1. k \in 1..(i - 1) /\ k \in 1..(Len(s) + 1)
      BY <1>1, <2>1
    <3>2. t[k] = s[k]
      BY <1>2, <1>4, <1>5, <2>1, <3>1
    <3> QED
      BY <1>7, <3>1, <3>2
  <2>2. CASE k >= i
    <3>1. /\ k + 1 \in 1..(Len(s) + 1) /\ (k + 1) - i \in 1..(Len(s) - i + 1)
          /\ ~ (k + 1 <= i) /\ ((k + 1) - i) + i - 1 = k
      BY <1>1, <2>2
    <3>2. t[k + 1] = b[(k + 1) - i] /\ b[(k + 1) - i] = s[k]
      BY <1>3, <1>5, <3>1
    <3>3. k + 1 \in DOMAIN t
      BY <1>1, <1>7, <2>2
    <3> QED
      BY <3>2, <3>3
  <2> QED
    BY <1>1, <2>1, <2>2
<1>9. i \in DOMAIN t /\ t[i] = e
  BY <1>1, <1>4, <1>5, <1>7
<1>10. Range(s) \subseteq Range(t) /\ e \in Range(t)
  BY <1>8, <1>9 DEF Range
<1> QED
  BY <1>5, <1>6, <1>10

\* Sorting shows each element in a row of its own.
LEMMA SortedShowsAll ==
    ASSUME NEW S, IsFiniteSet(S), NEW s \in Sorted(S)
    PROVE  s \in Seq(S) /\ Len(s) = Cardinality(S) /\ Range(s) = S
<1> DEFINE n == Cardinality(S)
<1>1. n \in Nat /\ ExistsBijection(1..n, S)
  BY FS_CardinalityType
<1>2. s \in [1..n -> S] /\ \A i, j \in 1..n : i # j => s[i] # s[j]
  BY DEF Sorted, SetToSeqs
<1>3. s \in Seq(S) /\ Len(s) = n
  BY <1>1, <1>2
<1>4. s \in Injection(1..n, S)
  BY <1>2 DEF Injection, IsInjective
<1>5. IsFiniteSet(1..n) /\ Cardinality(1..n) = n
  BY <1>1, FS_Interval
<1>6. s \in Surjection(1..n, S)
  BY <1>4, <1>5, FS_Injection
<1>7. Range(s) = S
  BY <1>2, <1>6 DEF Surjection, Range
<1> QED
  BY <1>3, <1>7

-----------------------------------------------------------------------------
(* The inductive invariant                                                 *)

LEMMA DocumentsAreFinite == IsFiniteSet(CurrentUserDocument)
<1>1. IsFiniteSet(Routes) /\ IsFiniteSet(Titles \cup {Nil})
  BY ConstantsAssumption, FS_AddElement
<1>2. IsFiniteSet(Routes \X (Titles \cup {Nil}))
  BY <1>1, FS_Product
<1> DEFINE f == [p \in Routes \X (Titles \cup {Nil}) |-> [id |-> p[1], title |-> p[2]]]
<1>3. f \in Surjection(Routes \X (Titles \cup {Nil}), CurrentUserDocument)
  <2>1. f \in [Routes \X (Titles \cup {Nil}) -> CurrentUserDocument]
    BY DEF CurrentUserDocument
  <2>2. ASSUME NEW r \in CurrentUserDocument
        PROVE  \E p \in Routes \X (Titles \cup {Nil}) : f[p] = r
    <3>1. <<r.id, r.title>> \in Routes \X (Titles \cup {Nil})
      BY DEF CurrentUserDocument
    <3>2. f[<<r.id, r.title>>] = r
      BY <3>1 DEF CurrentUserDocument
    <3> QED
      BY <3>1, <3>2
  <2> HIDE DEF f
  <2> QED
    BY <2>1, <2>2 DEF Surjection
<1> QED
  BY <1>2, <1>3, FS_Surjection

LEMMA GatheredIsFinite ==
    ASSUME TypeOK
    PROVE  IsFiniteSet(gathered)
BY DocumentsAreFinite, FS_Subset DEF TypeOK

LEMMA InitInv == Init => IInv
<1> SUFFICES ASSUME Init PROVE IInv
  OBVIOUS
<1> USE DEF Init
<1>1. TypeOK
  <2>1. PICK title \in Titles :
          docs = [d \in Routes |-> IF d \in Old THEN [state |-> "stored", title |-> title]
                                   ELSE [state |-> "unused", title |-> Nil]]
    OBVIOUS
  <2>2. docs \in [Routes -> [state : {"unused", "stored", "gone"}, title : Titles \cup {Nil}]]
    BY <2>1
  <2>3. /\ subs \in [Routes -> SUBSET Subcollections]
        /\ unheld \subseteq Routes \X Subcollections
    BY ConstantsAssumption
  <2>4. 0 \in 0..MaxAsked /\ 0 \in 0..MaxDeletions /\ 0 \in 0..MaxDisruptions
    BY ConstantsAssumption
  <2>5. rows \in Seq(gathered)
    OBVIOUS
  <2> QED
    BY <2>2, <2>3, <2>4, <2>5 DEF TypeOK
<1>2. GatheredWereStored /\ DraftIsStored /\ DeletionIsWhole /\ ListedIsAccounted
      /\ GatheredIsComplete
  BY DEF GatheredWereStored, DraftIsStored, DeletionIsWhole, ListedIsAccounted,
         GatheredIsComplete
<1>3. RoomForTheRow
  BY FS_EmptySet DEF RoomForTheRow
<1>4. SubcollectionsGo /\ PlacesAreHeld
  BY ConstantsAssumption DEF SubcollectionsGo, PlacesAreHeld
<1> QED
  BY <1>1, <1>2, <1>3, <1>4 DEF IInv

LEMMA SelectTabInv ==
    ASSUME IInv, SelectTab
    PROVE  IInv'
<1>0. /\ rows' \in Seq(gathered) /\ Len(rows') = Cardinality(gathered)
      /\ Range(rows') = gathered /\ Cardinality(gathered) \in Nat
  BY GatheredIsFinite, SortedShowsAll, FS_CardinalityType
     DEF IInv, viewWillAppear, SelectTab
<1>1. TypeOK'
  <2>1. asked' \in 0..MaxAsked /\ disruptions' \in 0..MaxDisruptions
    BY ConstantsAssumption
       DEF IInv, TypeOK, viewWillAppear, getCurrentUserDocument, Disrupt, SelectTab
  <2>2. /\ draft' \in Routes \cup {Nil}
        /\ docs' \in [Routes -> [state : {"unused", "stored", "gone"},
                                 title : Titles \cup {Nil}]]
    BY DEF IInv, TypeOK, SelectTab
  <2>3. rows' \in Seq(gathered')
    BY <1>0 DEF viewWillAppear, getCurrentUserDocument, SelectTab
  <2>4. purging' \subseteq Routes \X Subcollections
    BY DEF IInv, TypeOK, DraftIsStored, SelectTab
  <2>5. missed' \in BOOLEAN
    BY DEF viewWillAppear, getCurrentUserDocument, SelectTab
  <2> QED
    BY <2>1, <2>2, <2>3, <2>4, <2>5 DEF IInv, TypeOK, viewWillAppear, SelectTab
<1>2. GatheredWereStored'
  BY DEF IInv, GatheredWereStored, TypeOK, SelectTab, viewWillAppear, getCurrentUserDocument
<1>3. DraftIsStored'
  BY DEF IInv, DraftIsStored, TypeOK, SelectTab, viewWillAppear, getCurrentUserDocument
<1>4. DeletionIsWhole'
  BY DEF IInv, DeletionIsWhole, TypeOK, SelectTab, viewWillAppear, getCurrentUserDocument
<1>5. ListedIsAccounted'
  BY <1>0 DEF ListedIsAccounted, viewWillAppear, getCurrentUserDocument, SelectTab
<1>6. RoomForTheRow'
  BY <1>0 DEF IInv, TypeOK, RoomForTheRow, viewWillAppear, getCurrentUserDocument, SelectTab
<1>7. GatheredIsComplete'
  BY DEF IInv, TypeOK, GatheredIsComplete, viewWillAppear, getCurrentUserDocument, SelectTab
<1>8. SubcollectionsGo'
  BY DEF IInv, SubcollectionsGo, TypeOK, SelectTab, viewWillAppear, getCurrentUserDocument
<1>9. PlacesAreHeld'
  BY DEF IInv, PlacesAreHeld, SelectTab, viewWillAppear
<1> QED
  BY <1>1, <1>2, <1>3, <1>4, <1>5, <1>6, <1>7, <1>8, <1>9 DEF IInv

LEMMA LeaveTabInv ==
    ASSUME IInv, LeaveTab
    PROVE  IInv'
<1>1. TypeOK'
  BY ConstantsAssumption DEF IInv, TypeOK, LeaveTab, history
<1>2. GatheredWereStored'
  BY DEF IInv, GatheredWereStored, TypeOK, LeaveTab, history
<1>3. DraftIsStored'
  BY DEF IInv, DraftIsStored, TypeOK, LeaveTab, history
<1>4. DeletionIsWhole'
  BY DEF IInv, DeletionIsWhole, TypeOK, LeaveTab, history
<1>5. ListedIsAccounted'
  BY DEF IInv, ListedIsAccounted, TypeOK, LeaveTab, history
<1>6. RoomForTheRow'
  BY DEF IInv, RoomForTheRow, TypeOK, LeaveTab, history
<1>7. GatheredIsComplete'
  BY DEF IInv, GatheredIsComplete, TypeOK, LeaveTab, history
<1>8. SubcollectionsGo'
  BY DEF IInv, SubcollectionsGo, TypeOK, LeaveTab, history
<1>9. PlacesAreHeld'
  BY DEF IInv, PlacesAreHeld, LeaveTab, history
<1> QED
  BY <1>1, <1>2, <1>3, <1>4, <1>5, <1>6, <1>7, <1>8, <1>9 DEF IInv

\* An answer leaves room for the row of a refused deletion.
LEMMA GrownGathered ==
    ASSUME TypeOK, TypeOK', RoomForTheRow, gathered \subseteq gathered',
           UNCHANGED <<app, rows, deleting, overlap>>
    PROVE  RoomForTheRow'
<1>1. IsFiniteSet(gathered) /\ IsFiniteSet(gathered')
  <2>1. IsFiniteSet(CurrentUserDocument)
    BY DocumentsAreFinite
  <2> QED
    BY <2>1, FS_Subset DEF TypeOK
<1>2. Cardinality(gathered) <= Cardinality(gathered')
      /\ Cardinality(gathered) \in Nat /\ Cardinality(gathered') \in Nat
  BY <1>1, FS_Subset, FS_CardinalityType
<1>3. Len(rows) \in Nat /\ \A x \in deleting : x.row \in Nat
  BY DEF TypeOK
<1> SUFFICES ASSUME ~overlap PROVE RoomForTheRow'
  BY DEF RoomForTheRow
<1>4. /\ app = "running" /\ \A x, y \in deleting : x = y
      /\ Len(rows) <= Cardinality(gathered') + 1
  BY <1>2, <1>3 DEF RoomForTheRow
<1>5. ASSUME NEW x \in deleting
      PROVE  /\ x.row <= Len(rows) + 1 /\ x.row <= Cardinality(gathered') + 1
             /\ Len(rows) <= Cardinality(gathered')
  <2>1. /\ x.row <= Len(rows) + 1 /\ x.row <= Cardinality(gathered) + 1
        /\ Len(rows) <= Cardinality(gathered)
    BY DEF RoomForTheRow
  <2>2. x.row \in Nat
    BY <1>3
  <2> QED
    BY <1>2, <1>3, <2>1, <2>2
<1> QED
  BY <1>4, <1>5 DEF RoomForTheRow

LEMMA ReplyInv ==
    ASSUME IInv, Reply
    PROVE  IInv'
<1>1. TypeOK'
  <2>1. View \in SUBSET CurrentUserDocument
    BY DEF IInv, TypeOK, View, CurrentUserDocument
  <2>2. rows \in Seq(gathered \cup View)
    BY DEF IInv, TypeOK
  <2> QED
    BY <2>1, <2>2, ConstantsAssumption DEF IInv, TypeOK, Reply, history
<1>2. GatheredWereStored'
  BY DEF IInv, TypeOK, GatheredWereStored, Reply, View, history
<1>3. DraftIsStored'
  BY DEF IInv, DraftIsStored, TypeOK, Reply, history
<1>4. DeletionIsWhole'
  BY DEF IInv, DeletionIsWhole, TypeOK, Reply, history
<1>5. ListedIsAccounted'
  BY DEF IInv, ListedIsAccounted, TypeOK, Reply, history
<1>6. RoomForTheRow'
  BY <1>1, GrownGathered DEF IInv, Reply, history
<1>7. GatheredIsComplete'
  <2>1. ASSUME NEW d \in Routes, docs[d].state = "stored"
        PROVE  \E r \in gathered \cup View : r.id = d
    <3>1. CASE \E x \in deleting : x.doc.id = d
      BY <3>1 DEF IInv, DeletionIsWhole
    <3>2. CASE \A x \in deleting : x.doc.id # d
      <4>1. [id |-> d, title |-> docs[d].title] \in View
        BY <2>1, <3>2 DEF View
      <4> QED
        BY <4>1
    <3> QED
      BY <3>1, <3>2
  <2> QED
    BY <2>1 DEF GatheredIsComplete, Reply, history
<1>8. SubcollectionsGo'
  BY DEF IInv, SubcollectionsGo, TypeOK, Reply, history
<1>9. PlacesAreHeld'
  BY DEF IInv, PlacesAreHeld, Reply, history
<1> QED
  BY <1>1, <1>2, <1>3, <1>4, <1>5, <1>6, <1>7, <1>8, <1>9 DEF IInv

LEMMA ReplyFromCacheInv ==
    ASSUME IInv, ReplyFromCache
    PROVE  IInv'
<1>0. gathered \subseteq gathered' /\ gathered' \subseteq gathered \cup View
  BY DEF ReplyFromCache
<1>1. TypeOK'
  <2>1. View \in SUBSET CurrentUserDocument
    BY DEF IInv, TypeOK, View, CurrentUserDocument
  <2>2. gathered' \subseteq CurrentUserDocument /\ listed \subseteq gathered'
    BY <1>0, <2>1 DEF IInv, TypeOK
  <2>3. rows \in Seq(gathered')
    BY <1>0 DEF IInv, TypeOK
  <2>4. disruptions' \in 0..MaxDisruptions /\ asked' \in 0..MaxAsked
    BY ConstantsAssumption DEF IInv, TypeOK, ReplyFromCache, Disrupt
  <2> QED
    BY <2>2, <2>3, <2>4 DEF IInv, TypeOK, ReplyFromCache
<1>2. GatheredWereStored'
  BY <1>0 DEF IInv, TypeOK, GatheredWereStored, ReplyFromCache, View
<1>3. DraftIsStored'
  BY DEF IInv, DraftIsStored, ReplyFromCache
<1>4. DeletionIsWhole'
  BY <1>0 DEF IInv, DeletionIsWhole, ReplyFromCache
<1>5. ListedIsAccounted'
  BY DEF IInv, ListedIsAccounted, ReplyFromCache
<1>6. RoomForTheRow'
  BY <1>0, <1>1, GrownGathered DEF IInv, ReplyFromCache
<1>7. GatheredIsComplete'
  BY DEF GatheredIsComplete, ReplyFromCache
<1>8. SubcollectionsGo'
  BY DEF IInv, SubcollectionsGo, ReplyFromCache
<1>9. PlacesAreHeld'
  BY DEF IInv, PlacesAreHeld, ReplyFromCache
<1> QED
  BY <1>1, <1>2, <1>3, <1>4, <1>5, <1>6, <1>7, <1>8, <1>9 DEF IInv

LEMMA ReplyErrorInv ==
    ASSUME IInv, ReplyError
    PROVE  IInv'
<1>1. TypeOK'
  BY ConstantsAssumption DEF IInv, TypeOK, ReplyError, Disrupt
<1>2. GatheredWereStored'
  BY DEF IInv, GatheredWereStored, TypeOK, ReplyError, Disrupt
<1>3. DraftIsStored'
  BY DEF IInv, DraftIsStored, TypeOK, ReplyError, Disrupt
<1>4. DeletionIsWhole'
  BY DEF IInv, DeletionIsWhole, TypeOK, ReplyError, Disrupt
<1>5. ListedIsAccounted'
  BY DEF IInv, ListedIsAccounted, TypeOK, ReplyError, Disrupt
<1>6. RoomForTheRow'
  BY DEF IInv, RoomForTheRow, TypeOK, ReplyError, Disrupt
<1>7. GatheredIsComplete'
  BY DEF IInv, GatheredIsComplete, TypeOK, ReplyError, Disrupt
<1>8. SubcollectionsGo'
  BY DEF IInv, SubcollectionsGo, TypeOK, ReplyError, Disrupt
<1>9. PlacesAreHeld'
  BY DEF IInv, PlacesAreHeld, ReplyError, history
<1> QED
  BY <1>1, <1>2, <1>3, <1>4, <1>5, <1>6, <1>7, <1>8, <1>9 DEF IInv

LEMMA DeleteRowInv ==
    ASSUME IInv, NEW i \in DOMAIN rows, deleteRow(i)
    PROVE  IInv'
<1>0. /\ rows \in Seq(gathered) /\ rows' \in Seq(gathered)
      /\ i \in Nat /\ Len(rows) \in Nat /\ i <= Len(rows)
      /\ rows[i] \in gathered /\ rows[i] \in CurrentUserDocument
      /\ Len(rows') = Len(rows) - 1
      /\ \A e : e \in Range(rows) => e = rows[i] \/ e \in Range(rows')
  <2>1. rows \in Seq(gathered) /\ gathered \subseteq CurrentUserDocument
    BY DEF IInv, TypeOK
  <2> QED
    BY <2>1, RemoveAtKeeps DEF deleteRow
<1>1. TypeOK'
  <2>1. deleting' \subseteq [doc : CurrentUserDocument, row : Nat, nth : Nat]
    BY <1>0 DEF IInv, TypeOK, deleteRow
  <2>2. purging' \subseteq Routes \X Subcollections
    BY <1>0 DEF IInv, TypeOK, CurrentUserDocument, deleteRow
  <2>3. deletions' \in 0..MaxDeletions /\ overlap' \in BOOLEAN
    BY ConstantsAssumption DEF IInv, TypeOK, deleteRow
  <2> QED
    BY <1>0, <2>1, <2>2, <2>3 DEF IInv, TypeOK, deleteRow
<1>2. GatheredWereStored'
  BY DEF IInv, GatheredWereStored, TypeOK, deleteRow
<1>3. DraftIsStored'
  BY <1>0 DEF IInv, DraftIsStored, deleteRow
<1>4. DeletionIsWhole'
  <2>1. {rows[i].id} \X subs[rows[i].id] \subseteq purging'
    BY <1>0 DEF IInv, TypeOK, CurrentUserDocument, deleteRow
  <2> QED
    BY <1>0, <2>1 DEF IInv, DeletionIsWhole, deleteRow
<1>5. ListedIsAccounted'
  <2>1. /\ [doc |-> rows[i], row |-> i, nth |-> deletions] \in deleting'
        /\ deleting \subseteq deleting'
    BY DEF deleteRow
  <2>2. ASSUME NEW r \in listed
        PROVE  \/ docs[r.id].state = "gone"
               \/ \E x \in deleting' : x.doc = r
               \/ r \in Range(rows')
    BY <1>0, <2>1 DEF IInv, ListedIsAccounted, deleteRow
  <2> QED
    BY <2>2 DEF ListedIsAccounted, deleteRow
<1>6. RoomForTheRow'
  <2>1. Cardinality(gathered) \in Nat
    BY GatheredIsFinite, FS_CardinalityType DEF IInv
  <2>2. SUFFICES ASSUME ~overlap' PROVE RoomForTheRow'
    BY DEF RoomForTheRow
  <2>3. deleting = {} /\ ~overlap
    BY <2>2 DEF deleteRow
  <2>4. i <= Len(rows) /\ Len(rows) <= Cardinality(gathered) + 1
    BY <1>0, <2>3 DEF IInv, RoomForTheRow
  <2> QED
    BY <1>0, <2>1, <2>3, <2>4 DEF IInv, RoomForTheRow, deleteRow
<1>7. GatheredIsComplete'
  BY DEF IInv, GatheredIsComplete, TypeOK, deleteRow
<1>8. SubcollectionsGo'
  BY DEF IInv, SubcollectionsGo, deleteRow
<1>9. PlacesAreHeld'
  BY DEF IInv, PlacesAreHeld, deleteRow, history
<1> QED
  BY <1>1, <1>2, <1>3, <1>4, <1>5, <1>6, <1>7, <1>8, <1>9 DEF IInv

LEMMA PurgedInv ==
    ASSUME IInv, NEW p \in purging, Purged(p)
    PROVE  IInv'
<1>0. /\ p[1] \in Routes /\ p = <<p[1], p[2]>>
      /\ \A d \in Routes : {d} \X subs'[d] = ({d} \X subs[d]) \ {p}
  <2>1. p \in Routes \X Subcollections
    BY DEF IInv, TypeOK
  <2>2. ASSUME NEW d \in Routes
        PROVE  subs'[d] = IF d = p[1] THEN subs[d] \ {p[2]} ELSE subs[d]
    BY <2>1 DEF IInv, TypeOK, Purged
  <2>3. p[1] \in Routes /\ p = <<p[1], p[2]>>
    BY <2>1
  <2>4. ASSUME NEW d \in Routes
        PROVE  {d} \X subs'[d] = ({d} \X subs[d]) \ {p}
    <3>1. CASE d = p[1]
      <4>1. subs'[d] = subs[d] \ {p[2]}
        BY <2>2, <3>1
      <4>2. \A s : <<d, s>> = p <=> s = p[2]
        BY <2>3, <3>1
      <4> QED
        BY <4>1, <4>2
    <3>2. CASE d # p[1]
      <4>1. \A s : <<d, s>> # p
        BY <2>3, <3>2
      <4> QED
        BY <2>2, <3>2, <4>1
    <3> QED
      BY <3>1, <3>2
  <2> QED
    BY <2>3, <2>4
<1>1. TypeOK'
  <2>1. subs' \in [Routes -> SUBSET Subcollections]
    BY DEF IInv, TypeOK, Purged
  <2> QED
    BY <2>1 DEF IInv, TypeOK, Purged
<1>2. GatheredWereStored'
  BY DEF IInv, GatheredWereStored, TypeOK, Purged, history
<1>3. DraftIsStored'
  BY DEF IInv, DraftIsStored, TypeOK, Purged, history
<1>4. DeletionIsWhole'
  BY <1>0 DEF IInv, DeletionIsWhole, TypeOK, CurrentUserDocument, Purged, history
<1>5. ListedIsAccounted'
  BY DEF IInv, ListedIsAccounted, TypeOK, Purged, history
<1>6. RoomForTheRow'
  BY DEF IInv, RoomForTheRow, TypeOK, Purged, history
<1>7. GatheredIsComplete'
  BY DEF IInv, GatheredIsComplete, TypeOK, Purged, history
<1>8. SubcollectionsGo'
  BY <1>0 DEF IInv, SubcollectionsGo, TypeOK, Purged, history
<1>9. PlacesAreHeld'
  BY DEF IInv, PlacesAreHeld, Purged, history
<1> QED
  BY <1>1, <1>2, <1>3, <1>4, <1>5, <1>6, <1>7, <1>8, <1>9 DEF IInv

LEMMA PurgedFromCacheInv ==
    ASSUME IInv, NEW p \in purging, PurgedFromCache(p)
    PROVE  IInv'
<1>0. p \in Routes \X Subcollections /\ p \in unheld
  BY DEF IInv, TypeOK, PurgedFromCache
<1>1. TypeOK'
  BY <1>0, ConstantsAssumption DEF IInv, TypeOK, PurgedFromCache, Disrupt
<1>2. GatheredWereStored'
  BY DEF IInv, GatheredWereStored, PurgedFromCache
<1>3. DraftIsStored'
  BY DEF IInv, DraftIsStored, PurgedFromCache
<1>4. DeletionIsWhole'
  BY DEF IInv, DeletionIsWhole, PurgedFromCache
<1>5. ListedIsAccounted'
  BY DEF IInv, ListedIsAccounted, PurgedFromCache
<1>6. RoomForTheRow'
  BY DEF IInv, RoomForTheRow, PurgedFromCache
<1>7. GatheredIsComplete'
  BY DEF IInv, GatheredIsComplete, PurgedFromCache
<1>8. SubcollectionsGo'
  BY <1>0 DEF IInv, SubcollectionsGo, PlacesAreHeld, PurgedFromCache
<1>9. PlacesAreHeld'
  BY <1>0 DEF IInv, PlacesAreHeld, PurgedFromCache
<1> QED
  BY <1>1, <1>2, <1>3, <1>4, <1>5, <1>6, <1>7, <1>8, <1>9 DEF IInv

LEMMA OthersAddInv ==
    ASSUME IInv, NEW p \in Routes \X Subcollections, OthersAdd(p)
    PROVE  IInv'
<1>0. /\ p[1] \in Routes /\ p[2] \in Subcollections /\ p = <<p[1], p[2]>> /\ p[2] # "Route"
      /\ unseen \subseteq unseen' /\ unseen' \subseteq unseen \cup {p}
      /\ subs' \in [Routes -> SUBSET Subcollections]
      /\ \A d \in Routes : subs'[d] = IF d = p[1] THEN subs[d] \cup {p[2]} ELSE subs[d]
  <2>1. p[1] \in Routes /\ p[2] \in Subcollections /\ p = <<p[1], p[2]>> /\ p[2] # "Route"
    BY DEF OthersAdd
  <2>2. unseen \subseteq unseen' /\ unseen' \subseteq unseen \cup {p}
    BY DEF OthersAdd
  <2>3. subs' = [subs EXCEPT ![p[1]] = @ \cup {p[2]}] /\ subs \in [Routes -> SUBSET Subcollections]
    BY DEF IInv, TypeOK, OthersAdd
  <2>4. subs' \in [Routes -> SUBSET Subcollections]
    BY <2>1, <2>3
  <2>5. \A d \in Routes : subs'[d] = IF d = p[1] THEN subs[d] \cup {p[2]} ELSE subs[d]
    BY <2>1, <2>3
  <2> QED
    BY <2>1, <2>2, <2>4, <2>5
<1>a. ASSUME docs[p[1]].state = "gone" \/ \E x \in deleting : x.doc.id = p[1]
      PROVE  p \in purging \cup unseen'
  BY <1>a DEF OthersAdd
<1>1. TypeOK'
  <2>1. disruptions' \in 0..MaxDisruptions
    BY ConstantsAssumption DEF IInv, TypeOK, OthersAdd, Disrupt
  <2> QED
    BY <1>0, <2>1 DEF IInv, TypeOK, OthersAdd
<1>2. GatheredWereStored'
  BY DEF IInv, GatheredWereStored, OthersAdd
<1>3. DraftIsStored'
  BY DEF IInv, DraftIsStored, OthersAdd
<1>4. DeletionIsWhole'
  <2> SUFFICES ASSUME NEW x \in deleting
               PROVE  /\ x.doc \in gathered
                      /\ {x.doc.id} \X subs'[x.doc.id] \subseteq purging \cup unread \cup unseen'
    BY DEF DeletionIsWhole, OthersAdd
  <2>1. x.doc \in gathered /\ {x.doc.id} \X subs[x.doc.id] \subseteq purging \cup unread \cup unseen
        /\ x.doc.id \in Routes
    BY DEF IInv, TypeOK, DeletionIsWhole, CurrentUserDocument
  <2>2. CASE x.doc.id = p[1]
    <3>1. /\ subs'[x.doc.id] = subs[x.doc.id] \cup {p[2]}
          /\ <<x.doc.id, p[2]>> \in purging \cup unseen'
      BY <1>0, <1>a, <2>1, <2>2
    <3> QED
      BY <1>0, <2>1, <3>1
  <2>3. CASE x.doc.id # p[1]
    BY <1>0, <2>1, <2>3
  <2> QED
    BY <2>2, <2>3
<1>5. ListedIsAccounted'
  BY DEF IInv, ListedIsAccounted, OthersAdd
<1>6. RoomForTheRow'
  BY DEF IInv, RoomForTheRow, OthersAdd
<1>7. GatheredIsComplete'
  BY DEF IInv, GatheredIsComplete, OthersAdd
<1>8. SubcollectionsGo'
  <2> SUFFICES ASSUME NEW d \in Routes, docs[d].state = "gone"
               PROVE  /\ {d} \X subs'[d] \subseteq purging \cup unread \cup unseen'
                      /\ d \notin Old /\ "Route" \in subs'[d]
                           => <<d, "Route">> \in purging \cup unread
    BY DEF SubcollectionsGo, OthersAdd
  <2>1. /\ {d} \X subs[d] \subseteq purging \cup unread \cup unseen
        /\ d \notin Old /\ "Route" \in subs[d] => <<d, "Route">> \in purging \cup unread
    BY DEF IInv, SubcollectionsGo, OthersAdd
  <2>2. CASE d = p[1]
    <3>1. subs'[d] = subs[d] \cup {p[2]} /\ <<d, p[2]>> \in purging \cup unseen'
      BY <1>0, <1>a, <2>2
    <3> QED
      BY <1>0, <2>1, <3>1
  <2>3. CASE d # p[1]
    BY <1>0, <2>1, <2>3
  <2> QED
    BY <2>2, <2>3
<1>9. PlacesAreHeld'
  <2>1. unheld' = unheld \cup {p} /\ \A d : <<d, "Route">> # p
    BY <1>0 DEF OthersAdd
  <2> QED
    BY <1>0, <2>1 DEF IInv, PlacesAreHeld
<1> QED
  BY <1>1, <1>2, <1>3, <1>4, <1>5, <1>6, <1>7, <1>8, <1>9 DEF IInv

LEMMA PurgeErrorInv ==
    ASSUME IInv, NEW p \in purging, PurgeError(p)
    PROVE  IInv'
<1>1. TypeOK'
  BY ConstantsAssumption DEF IInv, TypeOK, PurgeError, Disrupt
<1>2. GatheredWereStored'
  BY DEF IInv, GatheredWereStored, TypeOK, PurgeError, Disrupt
<1>3. DraftIsStored'
  BY DEF IInv, DraftIsStored, TypeOK, PurgeError, Disrupt
<1>4. DeletionIsWhole'
  BY DEF IInv, DeletionIsWhole, TypeOK, PurgeError, Disrupt
<1>5. ListedIsAccounted'
  BY DEF IInv, ListedIsAccounted, TypeOK, PurgeError, Disrupt
<1>6. RoomForTheRow'
  BY DEF IInv, RoomForTheRow, TypeOK, PurgeError, Disrupt
<1>7. GatheredIsComplete'
  BY DEF IInv, GatheredIsComplete, TypeOK, PurgeError, Disrupt
<1>8. SubcollectionsGo'
  BY DEF IInv, SubcollectionsGo, TypeOK, PurgeError, Disrupt
<1>9. PlacesAreHeld'
  BY DEF IInv, PlacesAreHeld, PurgeError, history
<1> QED
  BY <1>1, <1>2, <1>3, <1>4, <1>5, <1>6, <1>7, <1>8, <1>9 DEF IInv

LEMMA DeletedInv ==
    ASSUME IInv, NEW x \in deleting, Deleted(x)
    PROVE  IInv'
<1>1. TypeOK'
  BY ZenonT(30), ConstantsAssumption DEF IInv, TypeOK, Deleted, history, CurrentUserDocument
<1>2. GatheredWereStored'
  BY DEF IInv, GatheredWereStored, TypeOK, Deleted, history, CurrentUserDocument
<1>3. DraftIsStored'
  BY DEF IInv, DraftIsStored, TypeOK, Deleted, history, CurrentUserDocument
<1>4. DeletionIsWhole'
  BY DEF IInv, DeletionIsWhole, TypeOK, Deleted, history, CurrentUserDocument
<1>5. ListedIsAccounted'
  BY DEF IInv, ListedIsAccounted, TypeOK, Deleted, history, CurrentUserDocument
<1>6. RoomForTheRow'
  BY DEF IInv, RoomForTheRow, TypeOK, Deleted, history, CurrentUserDocument
<1>7. GatheredIsComplete'
  BY DEF IInv, GatheredIsComplete, TypeOK, Deleted, history, CurrentUserDocument
<1>8. SubcollectionsGo'
  <2>1. x.doc.id \in Routes
    BY DEF IInv, TypeOK, CurrentUserDocument
  <2>2. /\ {x.doc.id} \X subs[x.doc.id] \subseteq purging \cup unread \cup unseen
        /\ x.doc.id \notin Old => <<x.doc.id, "Route">> \notin unseen
    BY <2>1 DEF IInv, DeletionIsWhole, PlacesAreHeld
  <2>3. ASSUME NEW d \in Routes, d # x.doc.id
        PROVE  docs'[d] = docs[d]
    BY <2>1, <2>3 DEF IInv, TypeOK, Deleted
  <2> QED
    BY <2>2, <2>3 DEF IInv, SubcollectionsGo, Deleted, history
<1>9. PlacesAreHeld'
  BY DEF IInv, PlacesAreHeld, Deleted, history
<1> QED
  BY <1>1, <1>2, <1>3, <1>4, <1>5, <1>6, <1>7, <1>8, <1>9 DEF IInv

LEMMA DeleteErrorInv ==
    ASSUME IInv, NEW x \in deleting, DeleteError(x)
    PROVE  IInv'
<1>0. /\ rows \in Seq(gathered) /\ Len(rows) \in Nat /\ x.row \in Nat /\ 1 <= x.row
      /\ x.doc \in gathered
  BY DEF IInv, TypeOK, DeletionIsWhole
<1>a. \/ x.row > Len(rows) + 1 /\ app' = "rowOutOfRange" /\ rows' = rows
      \/ /\ x.row <= Len(rows) + 1 /\ app' = app
         /\ rows' \in Seq(gathered) /\ Len(rows') = Len(rows) + 1
         /\ x.doc \in Range(rows') /\ Range(rows) \subseteq Range(rows')
  BY <1>0, InsertAtKeeps DEF DeleteError
<1>1. TypeOK'
  BY <1>0, <1>a, ConstantsAssumption DEF IInv, TypeOK, DeleteError, Disrupt, history
<1>2. GatheredWereStored'
  BY DEF IInv, GatheredWereStored, TypeOK, DeleteError, Disrupt, history
<1>3. DraftIsStored'
  BY DEF IInv, DraftIsStored, TypeOK, DeleteError, Disrupt, history
<1>4. DeletionIsWhole'
  BY DEF IInv, DeletionIsWhole, TypeOK, DeleteError, Disrupt, history
<1>5. ListedIsAccounted'
  BY <1>0, <1>a DEF IInv, ListedIsAccounted, DeleteError, history
<1>6. RoomForTheRow'
  <2>1. SUFFICES ASSUME ~overlap PROVE RoomForTheRow'
    BY DEF RoomForTheRow, DeleteError, history
  <2>2. /\ x.row <= Len(rows) + 1 /\ Len(rows) <= Cardinality(gathered)
        /\ deleting' = {} /\ app = "running"
    BY <2>1 DEF IInv, RoomForTheRow, DeleteError
  <2>3. Cardinality(gathered) \in Nat
    BY GatheredIsFinite, FS_CardinalityType DEF IInv
  <2>4. app' = "running" /\ Len(rows') = Len(rows) + 1
    BY <1>0, <1>a, <2>2
  <2> QED
    BY <1>0, <2>2, <2>3, <2>4 DEF RoomForTheRow, DeleteError, history
<1>7. GatheredIsComplete'
  BY DEF IInv, GatheredIsComplete, TypeOK, DeleteError, Disrupt, history
<1>8. SubcollectionsGo'
  BY DEF IInv, SubcollectionsGo, TypeOK, DeleteError, Disrupt, history
<1>9. PlacesAreHeld'
  BY DEF IInv, PlacesAreHeld, DeleteError, history
<1> QED
  BY <1>1, <1>2, <1>3, <1>4, <1>5, <1>6, <1>7, <1>8, <1>9 DEF IInv

LEMMA NewRouteInv ==
    ASSUME IInv, NewRoute
    PROVE  IInv'
<1>1. TypeOK'
  <2>1. draft' \in Routes \cup {Nil}
        /\ docs' \in [Routes -> [state : {"unused", "stored", "gone"}, title : Titles \cup {Nil}]]
    BY SMTT(30) DEF IInv, TypeOK, NewRoute
  <2> QED
    BY <2>1 DEF IInv, TypeOK, NewRoute, history
<1>2. GatheredWereStored'
  BY DEF IInv, GatheredWereStored, TypeOK, NewRoute, history
<1>3. DraftIsStored'
  <2>1. PICK d \in Routes :
          /\ docs[d].state = "unused"
          /\ draft' = d /\ docs' = [docs EXCEPT ![d].state = "stored"]
    BY DEF NewRoute
  <2>2. docs'[d].state = "stored" /\ d # Nil
    BY <2>1, ConstantsAssumption DEF IInv, TypeOK
  <2>3. \A x \in deleting : x.doc.id # d
    BY <2>1 DEF IInv, GatheredWereStored, DeletionIsWhole
  <2> QED
    BY <2>1, <2>2, <2>3 DEF DraftIsStored, NewRoute
<1>4. DeletionIsWhole'
  BY DEF IInv, DeletionIsWhole, TypeOK, NewRoute, history
<1>5. ListedIsAccounted'
  BY DEF IInv, ListedIsAccounted, TypeOK, NewRoute, history
<1>6. RoomForTheRow'
  BY DEF IInv, RoomForTheRow, TypeOK, NewRoute, history
<1>7. GatheredIsComplete'
  BY DEF IInv, GatheredIsComplete, TypeOK, NewRoute, history
<1>8. SubcollectionsGo'
  BY DEF IInv, SubcollectionsGo, TypeOK, NewRoute, history
<1>9. PlacesAreHeld'
  BY DEF IInv, PlacesAreHeld, NewRoute, history
<1> QED
  BY <1>1, <1>2, <1>3, <1>4, <1>5, <1>6, <1>7, <1>8, <1>9 DEF IInv

LEMMA UpdateTitleInv ==
    ASSUME IInv, NEW title \in Titles, updateTitle(title)
    PROVE  IInv'
<1>1. TypeOK'
  BY ConstantsAssumption DEF IInv, TypeOK, updateTitle, history
<1>2. GatheredWereStored'
  BY DEF IInv, GatheredWereStored, TypeOK, updateTitle, history
<1>3. DraftIsStored'
  BY DEF IInv, DraftIsStored, TypeOK, updateTitle, history
<1>4. DeletionIsWhole'
  BY DEF IInv, DeletionIsWhole, TypeOK, updateTitle, history
<1>5. ListedIsAccounted'
  BY DEF IInv, ListedIsAccounted, TypeOK, updateTitle, history
<1>6. RoomForTheRow'
  BY DEF IInv, RoomForTheRow, TypeOK, updateTitle, history
<1>7. GatheredIsComplete'
  BY DEF IInv, GatheredIsComplete, TypeOK, updateTitle, history
<1>8. SubcollectionsGo'
  BY DEF IInv, SubcollectionsGo, TypeOK, updateTitle, history
<1>9. PlacesAreHeld'
  BY DEF IInv, PlacesAreHeld, updateTitle, history
<1> QED
  BY <1>1, <1>2, <1>3, <1>4, <1>5, <1>6, <1>7, <1>8, <1>9 DEF IInv

LEMMA AddPlaceInv ==
    ASSUME IInv, AddPlace
    PROVE  IInv'
<1>1. TypeOK'
  BY ConstantsAssumption DEF IInv, TypeOK, AddPlace, history, DraftIsStored
<1>2. GatheredWereStored'
  BY DEF IInv, GatheredWereStored, TypeOK, AddPlace, history, DraftIsStored
<1>3. DraftIsStored'
  BY DEF IInv, DraftIsStored, TypeOK, AddPlace, history, DraftIsStored
<1>4. DeletionIsWhole'
  BY DEF IInv, DeletionIsWhole, TypeOK, AddPlace, history, DraftIsStored
<1>5. ListedIsAccounted'
  BY DEF IInv, ListedIsAccounted, TypeOK, AddPlace, history, DraftIsStored
<1>6. RoomForTheRow'
  BY DEF IInv, RoomForTheRow, TypeOK, AddPlace, history, DraftIsStored
<1>7. GatheredIsComplete'
  BY DEF IInv, GatheredIsComplete, TypeOK, AddPlace, history, DraftIsStored
<1>8. SubcollectionsGo'
  BY DEF IInv, SubcollectionsGo, TypeOK, AddPlace, history, DraftIsStored
<1>9. PlacesAreHeld'
  BY DEF IInv, PlacesAreHeld, AddPlace, history
<1> QED
  BY <1>1, <1>2, <1>3, <1>4, <1>5, <1>6, <1>7, <1>8, <1>9 DEF IInv

LEMMA SaveInv ==
    ASSUME IInv, Save
    PROVE  IInv'
<1>0. /\ rows' \in Seq(gathered) /\ Len(rows') = Cardinality(gathered)
      /\ Range(rows') = gathered /\ Cardinality(gathered) \in Nat
  BY GatheredIsFinite, SortedShowsAll, FS_CardinalityType
     DEF IInv, viewWillAppear, Save
<1>1. TypeOK'
  <2>1. asked' \in 0..MaxAsked /\ disruptions' \in 0..MaxDisruptions
    BY ConstantsAssumption
       DEF IInv, TypeOK, viewWillAppear, getCurrentUserDocument, Disrupt, Save
  <2>2. /\ draft' \in Routes \cup {Nil}
        /\ docs' \in [Routes -> [state : {"unused", "stored", "gone"},
                                 title : Titles \cup {Nil}]]
    BY DEF IInv, TypeOK, Save
  <2>3. rows' \in Seq(gathered')
    BY <1>0 DEF viewWillAppear, getCurrentUserDocument, Save
  <2>4. purging' \subseteq Routes \X Subcollections
    BY DEF IInv, TypeOK, DraftIsStored, Save
  <2>5. missed' \in BOOLEAN
    BY DEF viewWillAppear, getCurrentUserDocument, Save
  <2> QED
    BY <2>1, <2>2, <2>3, <2>4, <2>5 DEF IInv, TypeOK, viewWillAppear, Save
<1>2. GatheredWereStored'
  BY DEF IInv, GatheredWereStored, TypeOK, Save, viewWillAppear, getCurrentUserDocument
<1>3. DraftIsStored'
  BY DEF IInv, DraftIsStored, TypeOK, Save, viewWillAppear, getCurrentUserDocument
<1>4. DeletionIsWhole'
  BY DEF IInv, DeletionIsWhole, TypeOK, Save, viewWillAppear, getCurrentUserDocument
<1>5. ListedIsAccounted'
  BY <1>0 DEF ListedIsAccounted, viewWillAppear, getCurrentUserDocument, Save
<1>6. RoomForTheRow'
  BY <1>0 DEF IInv, TypeOK, RoomForTheRow, viewWillAppear, getCurrentUserDocument, Save
<1>7. GatheredIsComplete'
  BY DEF IInv, TypeOK, GatheredIsComplete, viewWillAppear, getCurrentUserDocument, Save
<1>8. SubcollectionsGo'
  BY DEF IInv, SubcollectionsGo, TypeOK, Save, viewWillAppear, getCurrentUserDocument
<1>9. PlacesAreHeld'
  BY DEF IInv, PlacesAreHeld, Save, viewWillAppear
<1> QED
  BY <1>1, <1>2, <1>3, <1>4, <1>5, <1>6, <1>7, <1>8, <1>9 DEF IInv

LEMMA CancelInv ==
    ASSUME IInv, Cancel
    PROVE  IInv'
<1>0. /\ rows' \in Seq(gathered) /\ Len(rows') = Cardinality(gathered)
      /\ Range(rows') = gathered /\ Cardinality(gathered) \in Nat
  BY GatheredIsFinite, SortedShowsAll, FS_CardinalityType
     DEF IInv, viewWillAppear, Cancel
<1>1. TypeOK'
  <2>1. asked' \in 0..MaxAsked /\ disruptions' \in 0..MaxDisruptions
    BY ConstantsAssumption
       DEF IInv, TypeOK, viewWillAppear, getCurrentUserDocument, Disrupt, Cancel
  <2>2. /\ draft' \in Routes \cup {Nil}
        /\ docs' \in [Routes -> [state : {"unused", "stored", "gone"},
                                 title : Titles \cup {Nil}]]
    BY DEF IInv, TypeOK, Cancel
  <2>3. rows' \in Seq(gathered')
    BY <1>0 DEF viewWillAppear, getCurrentUserDocument, Cancel
  <2>4. purging' \subseteq Routes \X Subcollections
    BY DEF IInv, TypeOK, DraftIsStored, Cancel
  <2>5. missed' \in BOOLEAN
    BY DEF viewWillAppear, getCurrentUserDocument, Cancel
  <2> QED
    BY <2>1, <2>2, <2>3, <2>4, <2>5 DEF IInv, TypeOK, viewWillAppear, Cancel
<1>2. GatheredWereStored'
  BY DEF IInv, GatheredWereStored, TypeOK, Cancel, viewWillAppear, getCurrentUserDocument
<1>3. DraftIsStored'
  BY DEF IInv, DraftIsStored, TypeOK, Cancel, viewWillAppear, getCurrentUserDocument
<1>4. DeletionIsWhole'
  BY DEF IInv, DeletionIsWhole, TypeOK, Cancel, viewWillAppear, getCurrentUserDocument
<1>5. ListedIsAccounted'
  BY <1>0 DEF ListedIsAccounted, viewWillAppear, getCurrentUserDocument, Cancel
<1>6. RoomForTheRow'
  BY <1>0 DEF IInv, TypeOK, RoomForTheRow, viewWillAppear, getCurrentUserDocument, Cancel
<1>7. GatheredIsComplete'
  BY DEF IInv, TypeOK, GatheredIsComplete, viewWillAppear, getCurrentUserDocument, Cancel
<1>8. SubcollectionsGo'
  BY DEF IInv, SubcollectionsGo, TypeOK, Cancel, viewWillAppear, getCurrentUserDocument
<1>9. PlacesAreHeld'
  BY DEF IInv, PlacesAreHeld, Cancel, viewWillAppear
<1> QED
  BY <1>1, <1>2, <1>3, <1>4, <1>5, <1>6, <1>7, <1>8, <1>9 DEF IInv

-----------------------------------------------------------------------------
(* The theorems                                                            *)

\* The inductive invariant of the list holds, whatever fails.
THEOREM Invariance == Spec => []IInv
<1>1. Init => IInv
  BY InitInv
<1>2. IInv /\ [Step]_vars => IInv'
  <2> SUFFICES ASSUME IInv, [Step]_vars PROVE IInv'
    OBVIOUS
  <2>1. CASE SelectTab \/ LeaveTab
    BY <2>1, SelectTabInv, LeaveTabInv
  <2>2. CASE Reply \/ ReplyFromCache \/ ReplyError
    BY <2>2, ReplyInv, ReplyFromCacheInv, ReplyErrorInv
  <2>3. ASSUME NEW i \in DOMAIN rows, deleteRow(i) PROVE IInv'
    BY <2>3, DeleteRowInv
  <2>4. ASSUME NEW p \in purging, Purged(p) \/ PurgedFromCache(p) \/ PurgeError(p)
        PROVE  IInv'
    BY <2>4, PurgedInv, PurgedFromCacheInv, PurgeErrorInv
  <2>5. ASSUME NEW x \in deleting, Deleted(x) \/ DeleteError(x) PROVE IInv'
    BY <2>5, DeletedInv, DeleteErrorInv
  <2>6. CASE NewRoute \/ (\E title \in Titles : updateTitle(title)) \/ AddPlace
    BY <2>6, NewRouteInv, UpdateTitleInv, AddPlaceInv
  <2>7. CASE Save \/ Cancel
    BY <2>7, SaveInv, CancelInv
  <2>8. ASSUME NEW p \in Routes \X Subcollections, OthersAdd(p) PROVE IInv'
    BY <2>8, OthersAddInv
  <2>9. CASE UNCHANGED vars
    BY <2>9 DEF vars, history, IInv, TypeOK, GatheredWereStored, DraftIsStored, DeletionIsWhole,
       ListedIsAccounted, RoomForTheRow, GatheredIsComplete, SubcollectionsGo, PlacesAreHeld
  <2> QED
    BY <2>1, <2>2, <2>3, <2>4, <2>5, <2>6, <2>7, <2>8, <2>9 DEF Step
<1> QED
  BY <1>1, <1>2, PTL DEF Spec

\* Type correctness of the list and of what is outstanding.
THEOREM TypeCorrect == Spec => []TypeOK
<1>1. IInv => TypeOK
  BY DEF IInv
<1> QED
  BY <1>1, Invariance, PTL

\* No stored route is lost to the list, whatever answers and deletions overlap.
THEOREM GatheredComplete == Spec => []GatheredIsComplete
<1>1. IInv => GatheredIsComplete
  BY DEF IInv
<1> QED
  BY <1>1, Invariance, PTL

\* A refused deletion brings its row back, also after the rows were sorted anew.
THEOREM RowReturns == Spec => []RefusedRowReturns
<1>1. IInv => RefusedRowReturns
  BY DEF IInv, ListedIsAccounted, RefusedRowReturns
<1> QED
  BY <1>1, Invariance, PTL

\* The row of a refused deletion goes to an index the list has, for any number of
\* deletions that do not overlap.
THEOREM InsertsInRange == Spec => []InsertInRange
<1>1. IInv => InsertInRange
  BY DEF IInv, RoomForTheRow, InsertInRange
<1> QED
  BY <1>1, Invariance, PTL

\* What is under a route does not outlive it, unless reading it failed or missed it;
\* the places of a route made on this device are not missed.
THEOREM SubcollectionsGone == Spec => []SubcollectionsGo
<1>1. IInv => SubcollectionsGo
  BY DEF IInv
<1> QED
  BY <1>1, Invariance, PTL
=============================================================================
