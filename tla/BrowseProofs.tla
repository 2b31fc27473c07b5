---------------------------- MODULE BrowseProofs ----------------------------
(***************************************************************************)
(* Proofs about the feed and the post page (module Browse), for any posts, *)
(* listeners and numbers of reads, changes and failures.                   *)
(***************************************************************************)
EXTENDS Browse, FiniteSetTheorems, TLAPS

-----------------------------------------------------------------------------
(* Lists of rows                                                           *)

\* A listing holds each document once.
LEMMA ListingHoldsAll ==
    ASSUME NEW S, IsFiniteSet(S), NEW s \in Listings(S)
    PROVE  /\ s \in Seq(S) /\ Len(s) = Cardinality(S)
           /\ \A e \in S : \E k \in DOMAIN s : s[k] = e
           /\ \A k, l \in DOMAIN s : s[k] = s[l] => k = l
<1> DEFINE n == Cardinality(S)
<1>1. n \in Nat
  BY FS_CardinalityType
<1>2. s \in [1..n -> S] /\ \A i, j \in 1..n : i # j => s[i] # s[j]
  BY DEF Listings, SetToSeqs
<1>3. s \in Injection(1..n, S)
  BY <1>2 DEF Injection, IsInjective
<1>4. IsFiniteSet(1..n) /\ Cardinality(1..n) = n
  BY <1>1, FS_Interval
<1>5. s \in Surjection(1..n, S)
  BY <1>3, <1>4, FS_Injection
<1>6. DOMAIN s = 1..n /\ s \in Seq(S) /\ Len(s) = n
  BY <1>1, <1>2
<1> QED
  BY <1>2, <1>5, <1>6 DEF Surjection

\* Rows in another order are the same rows.
LEMMA RearrangedKeeps ==
    ASSUME NEW S, NEW rows \in Seq(S), NEW t \in Rearranged(rows)
    PROVE  /\ t \in Seq(S) /\ DOMAIN t = DOMAIN rows /\ Len(t) = Len(rows)
           /\ \A k \in DOMAIN t : \E j \in DOMAIN rows : t[k] = rows[j]
           /\ \A j \in DOMAIN rows : \E k \in DOMAIN t : t[k] = rows[j]
           /\ (\A j, i \in DOMAIN rows : rows[j].id = rows[i].id => j = i)
                 => \A k, l \in DOMAIN t : t[k].id = t[l].id => k = l
<1> DEFINE n == Len(rows)
<1>1. n \in Nat /\ DOMAIN rows = 1..n
  OBVIOUS
<1> HIDE DEF n
<1>2. PICK p \in Bijection(1..n, 1..n) : t = [k \in 1..n |-> rows[p[k]]]
  BY <1>1 DEF Rearranged
<1>3. p \in [1..n -> 1..n] /\ \A w \in 1..n : \E v \in 1..n : p[v] = w
  BY DEF Bijection, Surjection
<1>5. \A k, l \in 1..n : p[k] = p[l] => k = l
  BY <1>3 DEF Bijection, Injection, IsInjective
<1>6. t \in Seq(S) /\ DOMAIN t = 1..n /\ Len(t) = n
  <2>1. t \in [1..n -> S]
    BY <1>1, <1>2, <1>3
  <2> QED
    BY <1>1, <2>1
<1>7. \A k \in 1..n : p[k] \in 1..n /\ t[k] = rows[p[k]]
  BY <1>2, <1>3
<1>8. ASSUME NEW j \in 1..n PROVE \E k \in 1..n : t[k] = rows[j]
  <2>1. PICK k \in 1..n : p[k] = j
    BY <1>3
  <2> QED
    BY <1>7, <2>1
<1>9. ASSUME \A j, i \in DOMAIN rows : rows[j].id = rows[i].id => j = i,
             NEW k \in 1..n, NEW l \in 1..n, t[k].id = t[l].id
      PROVE  k = l
  <2>1. p[k] = p[l]
    BY <1>1, <1>7, <1>9
  <2> QED
    BY <1>5, <2>1
<1>10. \A k \in DOMAIN t : \E j \in DOMAIN rows : t[k] = rows[j]
  BY <1>1, <1>6, <1>7
<1>11. \A j \in DOMAIN rows : \E k \in DOMAIN t : t[k] = rows[j]
  BY <1>1, <1>6, <1>8
<1>12. ASSUME \A j, i \in DOMAIN rows : rows[j].id = rows[i].id => j = i
       PROVE  \A k, l \in DOMAIN t : t[k].id = t[l].id => k = l
  BY <1>6, <1>9, <1>12
<1>13. t \in Seq(S) /\ DOMAIN t = DOMAIN rows /\ Len(t) = Len(rows)
  BY <1>1, <1>6 DEF n
<1> QED
  BY <1>10, <1>11, <1>12, <1>13

\* A list has at most as many rows as there may be posts.
LEMMA PostsAreFinite ==
    ASSUME TypeOK
    PROVE  IsFiniteSet(posts) /\ Cardinality(posts) <= Cardinality(Posts)
           /\ Cardinality(Posts) \in Nat
BY BrowseAssumption, FS_Subset, FS_CardinalityType DEF TypeOK

-----------------------------------------------------------------------------
(* The inductive invariant                                                 *)

LEMMA InitInv == Init => IInv
<1> SUFFICES ASSUME Init PROVE IInv
  OBVIOUS
<1> USE DEF Init
<1>1. TypeOK
  <2>1. /\ likes \in [ToSet(Watched) -> Nat] /\ comments \in [Posts -> SUBSET Nat]
        /\ snapshots \in [DOMAIN Watched -> Seq(Nat)]
    <3>1. <<0>> \in Seq(Nat) /\ <<>> \in Seq(Nat)
      OBVIOUS
    <3>2. {<<0>>, <<>>} \subseteq Seq(Nat)
      BY <3>1
    <3>3. snapshots \in [DOMAIN Watched -> Seq(Nat)]
      BY <3>2
    <3> QED
      BY <3>3
  <2>2. 1 \in 0..MaxAsked /\ 0 \in 0..MaxAsked /\ 0 \in 0..MaxChanges /\ 0 \in 0..MaxFailures
    BY BrowseAssumption
  <2>3. content \in Seq(Row) /\ Len(content) <= Cardinality(Posts)
    BY BrowseAssumption, FS_CardinalityType
  <2> QED
    BY <2>1, <2>2, <2>3 DEF TypeOK
<1>2. OneRowEach /\ PromisedWereStored /\ FeedIsCurrent /\ CommentsAreCurrent
  BY DEF OneRowEach, PromisedWereStored, FeedIsCurrent, CommentsAreCurrent
<1>3. CountsAreReal /\ ShownCountsAreReal /\ DueAreStored
  <2>1. ASSUME NEW i \in DOMAIN Watched PROVE ToSet(snapshots[i]) \subseteq had
    <3>1. snapshots[i] = <<0>> \/ snapshots[i] = <<>>
      OBVIOUS
    <3> QED
      BY <3>1 DEF ToSet
  <2> QED
    BY <2>1 DEF CountsAreReal, ShownCountsAreReal, DueAreStored
<1> QED
  BY <1>1, <1>2, <1>3 DEF IInv

LEMMA OnContentInv ==
    ASSUME IInv, OnContent
    PROVE  IInv'
<1>a. PICK s \in Listings(posts) : content' = [k \in DOMAIN s |-> [id |-> s[k], favorite |-> 0]]
  BY DEF OnContent
<1>b. /\ content' \in Seq(Row) /\ Len(content') <= Cardinality(Posts)
      /\ \A k \in DOMAIN content' : content'[k].favorite = 0
      /\ \A e \in posts : \E k \in DOMAIN content' : content'[k].id = e
      /\ \A k, l \in DOMAIN content' : content'[k].id = content'[l].id => k = l
  <2>1. /\ s \in Seq(posts) /\ Len(s) = Cardinality(posts)
        /\ \A e \in posts : \E k \in DOMAIN s : s[k] = e
        /\ \A k, l \in DOMAIN s : s[k] = s[l] => k = l
    BY PostsAreFinite, ListingHoldsAll DEF IInv
  <2>2. Cardinality(posts) <= Cardinality(Posts) /\ posts \subseteq Posts
    BY PostsAreFinite DEF IInv, TypeOK
  <2>3. DOMAIN content' = DOMAIN s /\ \A k \in DOMAIN s : content'[k] = [id |-> s[k], favorite |-> 0]
    BY <1>a
  <2>4. content' \in Seq(Row) /\ Len(content') = Len(s)
    <3>1. DOMAIN s = 1..Len(s) /\ Len(s) \in Nat
      BY <2>1
    <3>2. content' \in [1..Len(s) -> Row]
      BY <1>a, <2>1, <2>2, <3>1 DEF Row
    <3> QED
      BY <3>1, <3>2
  <2> QED
    BY <2>1, <2>2, <2>3, <2>4
<1>1. TypeOK'
  BY <1>b, BrowseAssumption DEF IInv, TypeOK, OnContent, view, page, history
<1>2. OneRowEach'
  BY <1>b DEF OneRowEach
<1>3. PromisedWereStored'
  BY DEF IInv, PromisedWereStored, TypeOK, OnContent, view, feed, page, history
<1>4. FeedIsCurrent'
  <2>1. posts \subseteq Rows'
    BY <1>b DEF Rows
  <2> QED
    BY <2>1 DEF FeedIsCurrent, OnContent, view, history
<1>5. CountsAreReal'
  BY DEF IInv, CountsAreReal, TypeOK, OnContent, view, feed, page, history
<1>6. ShownCountsAreReal'
  BY <1>b DEF IInv, CountsAreReal, ShownCountsAreReal, OnContent, history
<1>7. DueAreStored'
  BY DEF IInv, DueAreStored, TypeOK, OnContent, view, feed, page, history
<1>8. CommentsAreCurrent'
  BY DEF IInv, CommentsAreCurrent, TypeOK, OnContent, view, feed, page, history
<1> QED
  BY <1>1, <1>2, <1>3, <1>4, <1>5, <1>6, <1>7, <1>8 DEF IInv

LEMMA OnContentErrorInv ==
    ASSUME IInv, OnContentError
    PROVE  IInv'
<1>1. TypeOK'
  BY BrowseAssumption DEF IInv, TypeOK, OnContentError, Fail, view, feed, page, history
<1>2. OneRowEach'
  BY DEF IInv, OneRowEach, TypeOK, OnContentError, Fail, view, feed, page, history
<1>3. PromisedWereStored'
  BY DEF IInv, PromisedWereStored, TypeOK, OnContentError, Fail, view, feed, page, history
<1>4. FeedIsCurrent'
  BY DEF IInv, FeedIsCurrent, TypeOK, Rows, OnContentError, Fail, view, feed, page, history
<1>5. CountsAreReal'
  BY DEF IInv, CountsAreReal, TypeOK, OnContentError, Fail, view, feed, page, history
<1>6. ShownCountsAreReal'
  BY DEF IInv, ShownCountsAreReal, TypeOK, OnContentError, Fail, view, feed, page, history
<1>7. DueAreStored'
  BY DEF IInv, DueAreStored, TypeOK, OnContentError, Fail, view, feed, page, history
<1>8. CommentsAreCurrent'
  BY DEF IInv, CommentsAreCurrent, TypeOK, OnContentError, Fail, view, feed, page, history
<1> QED
  BY <1>1, <1>2, <1>3, <1>4, <1>5, <1>6, <1>7, <1>8 DEF IInv

LEMMA OnFavoritesInv ==
    ASSUME IInv, NEW i \in DOMAIN Watched, OnFavorites(i)
    PROVE  IInv'
<1> DEFINE n == Head(snapshots[i])
<1>0. /\ snapshots[i] \in Seq(Nat) /\ snapshots[i] # <<>>
      /\ n \in Nat /\ n \in had /\ favorite = 0
      /\ Tail(snapshots[i]) \in Seq(Nat) /\ ToSet(Tail(snapshots[i])) \subseteq had
  <2>1. snapshots[i] \in Seq(Nat) /\ snapshots[i] # <<>>
    BY DEF IInv, TypeOK, OnFavorites
  <2>2. ToSet(snapshots[i]) \subseteq had /\ favorite = 0
    BY DEF IInv, CountsAreReal
  <2>3. n \in Nat /\ n \in had
    BY <2>1, <2>2 DEF ToSet
  <2>4. Tail(snapshots[i]) \in Seq(Nat) /\ ToSet(Tail(snapshots[i])) \subseteq had
    BY <2>1, <2>2 DEF ToSet
  <2> QED
    BY <2>1, <2>2, <2>3, <2>4
<1>1. TypeOK'
  <2>1. favoriteCount' \in Seq(Nat) /\ favorite' \in Nat
    BY <1>0 DEF IInv, TypeOK, OnFavorites
  <2>2. snapshots' \in [DOMAIN Watched -> Seq(Nat)]
    BY <1>0 DEF IInv, TypeOK, OnFavorites
  <2> QED
    BY <2>1, <2>2 DEF IInv, TypeOK, OnFavorites, view, page, history
<1>2. OneRowEach'
  BY DEF IInv, OneRowEach, TypeOK, OnFavorites, view, feed, page, history
<1>3. PromisedWereStored'
  BY DEF IInv, PromisedWereStored, TypeOK, OnFavorites, view, feed, page, history
<1>4. FeedIsCurrent'
  BY DEF IInv, FeedIsCurrent, TypeOK, Rows, OnFavorites, view, feed, page, history
<1>5. CountsAreReal'
  <2>1. favoriteCount' = Append(favoriteCount, n)
    BY <1>0 DEF IInv, CountsAreReal, OnFavorites
  <2>2. \A k \in DOMAIN favoriteCount' : favoriteCount'[k] \in had
    <3>1. favoriteCount \in Seq(Nat)
      BY DEF IInv, TypeOK
    <3>2. \A k \in DOMAIN favoriteCount : favoriteCount[k] \in had
      BY DEF IInv, CountsAreReal
    <3> QED
      BY <1>0, <2>1, <3>1, <3>2
  <2>3. ASSUME NEW j \in DOMAIN Watched PROVE ToSet(snapshots'[j]) \subseteq had
    <3>1. snapshots'[j] = IF j = i THEN Tail(snapshots[i]) ELSE snapshots[j]
      BY DEF IInv, TypeOK, OnFavorites
    <3>2. ToSet(snapshots[j]) \subseteq had
      BY DEF IInv, CountsAreReal
    <3> QED
      BY <1>0, <3>1, <3>2
  <2> QED
    BY <2>2, <2>3 DEF IInv, CountsAreReal, OnFavorites, view, history
<1>6. ShownCountsAreReal'
  BY DEF IInv, ShownCountsAreReal, TypeOK, OnFavorites, view, feed, page, history
<1>7. DueAreStored'
  BY DEF IInv, DueAreStored, TypeOK, OnFavorites, view, feed, page, history
<1>8. CommentsAreCurrent'
  BY DEF IInv, CommentsAreCurrent, TypeOK, OnFavorites, view, feed, page, history
<1> QED
  BY <1>1, <1>2, <1>3, <1>4, <1>5, <1>6, <1>7, <1>8 DEF IInv

LEMMA OnFavoritesErrorInv ==
    ASSUME IInv, NEW i \in DOMAIN Watched, OnFavoritesError(i)
    PROVE  IInv'
<1>1. TypeOK'
  BY SMTT(30), BrowseAssumption DEF IInv, TypeOK, OnFavoritesError, Fail, view, feed, page, history
<1>2. OneRowEach'
  BY DEF IInv, OneRowEach, TypeOK, OnFavoritesError, Fail, view, feed, page, history
<1>3. PromisedWereStored'
  BY DEF IInv, PromisedWereStored, TypeOK, OnFavoritesError, Fail, view, feed, page, history
<1>4. FeedIsCurrent'
  BY DEF IInv, FeedIsCurrent, TypeOK, Rows, OnFavoritesError, Fail, view, feed, page, history
<1>5. CountsAreReal'
  BY DEF IInv, CountsAreReal, TypeOK, OnFavoritesError, Fail, view, feed, page, history
<1>6. ShownCountsAreReal'
  BY DEF IInv, ShownCountsAreReal, TypeOK, OnFavoritesError, Fail, view, feed, page, history
<1>7. DueAreStored'
  BY DEF IInv, DueAreStored, TypeOK, OnFavoritesError, Fail, view, feed, page, history
<1>8. CommentsAreCurrent'
  BY DEF IInv, CommentsAreCurrent, TypeOK, OnFavoritesError, Fail, view, feed, page, history
<1> QED
  BY <1>1, <1>2, <1>3, <1>4, <1>5, <1>6, <1>7, <1>8 DEF IInv

LEMMA SelectHotInv ==
    ASSUME IInv, SelectHot
    PROVE  IInv'
<1>0. /\ content' \in Seq(Row) /\ Len(content') <= Cardinality(Posts)
      /\ app' \in {"running", "indexOutOfRange"}
      /\ \A k, l \in DOMAIN content' : content'[k].id = content'[l].id => k = l
      /\ \A k \in DOMAIN content' : content'[k].favorite \in had
      /\ \A k \in DOMAIN content' : \E j \in DOMAIN content : content'[k].id = content[j].id
      /\ \A j \in DOMAIN content : \E k \in DOMAIN content' : content'[k].id = content[j].id
  <2>1. /\ content \in Seq(Row) /\ Len(content) <= Cardinality(Posts)
        /\ \A k, l \in DOMAIN content : content[k].id = content[l].id => k = l
        /\ \A k \in DOMAIN content : content[k].favorite \in had
        /\ app \in {"running", "indexOutOfRange"}
    BY DEF IInv, TypeOK, OneRowEach, ShownCountsAreReal
  <2>2. CASE Len(favoriteCount) > Len(content)
    BY <2>1, <2>2 DEF SelectHot
  <2>3. CASE ~ (Len(favoriteCount) > Len(content))
    <3>1. content' \in Rearranged(Counted) /\ app' = app
      BY <2>3 DEF SelectHot, ByLikes
    <3>2. /\ Counted \in Seq(Row) /\ DOMAIN Counted = DOMAIN content
          /\ Len(Counted) = Len(content)
          /\ \A k \in DOMAIN content : Counted[k].id = content[k].id
          /\ \A k \in DOMAIN content : Counted[k].favorite \in had
      <4>1. ASSUME NEW k \in DOMAIN content
            PROVE  /\ Counted[k] \in Row /\ Counted[k].id = content[k].id
                   /\ Counted[k].favorite \in had
        <5>1. content[k] \in Row /\ content[k].favorite \in had
          BY <2>1
        <5>2. k \in DOMAIN favoriteCount => favoriteCount[k] \in Nat /\ favoriteCount[k] \in had
          BY DEF IInv, TypeOK, CountsAreReal
        <5> QED
          BY <5>1, <5>2 DEF Counted, Row
      <4>2. DOMAIN Counted = DOMAIN content
        BY DEF Counted
      <4>3. Counted \in [1..Len(content) -> Row] /\ Len(content) \in Nat
        BY <2>1, <4>1 DEF Counted
      <4>4. Counted \in Seq(Row) /\ Len(Counted) = Len(content)
        BY <4>3
      <4> QED
        BY <4>1, <4>2, <4>4
    <3>3. /\ content' \in Seq(Row) /\ DOMAIN content' = DOMAIN Counted /\ Len(content') = Len(Counted)
          /\ \A k \in DOMAIN content' : \E j \in DOMAIN Counted : content'[k] = Counted[j]
          /\ \A j \in DOMAIN Counted : \E k \in DOMAIN content' : content'[k] = Counted[j]
          /\ \A k, l \in DOMAIN content' : content'[k].id = content'[l].id => k = l
      <4>1. \A j, i \in DOMAIN Counted : Counted[j].id = Counted[i].id => j = i
        BY <2>1, <3>2
      <4> HIDE DEF Counted
      <4> QED
        BY ZenonT(30), <3>1, <3>2, <4>1, RearrangedKeeps
    <3>4. /\ content' \in Seq(Row) /\ DOMAIN content' = DOMAIN content /\ Len(content') = Len(content)
          /\ \A k, l \in DOMAIN content' : content'[k].id = content'[l].id => k = l
      BY <3>2, <3>3
    <3>5. ASSUME NEW k \in DOMAIN content'
          PROVE  content'[k].favorite \in had /\ \E j \in DOMAIN content : content'[k].id = content[j].id
      <4>1. PICK j \in DOMAIN content : content'[k] = Counted[j]
        BY <3>2, <3>3
      <4> QED
        BY <3>2, <4>1
    <3>6. ASSUME NEW j \in DOMAIN content
          PROVE  \E k \in DOMAIN content' : content'[k].id = content[j].id
      <4>1. PICK k \in DOMAIN content' : content'[k] = Counted[j]
        BY <3>2, <3>3
      <4> QED
        BY <3>2, <4>1
    <3> QED
      BY <2>1, <3>1, <3>4, <3>5, <3>6
  <2> QED
    BY <2>2, <2>3
<1>1. TypeOK'
  BY <1>0 DEF IInv, TypeOK, SelectHot, view, page, history
<1>2. OneRowEach'
  BY <1>0 DEF OneRowEach
<1>3. PromisedWereStored'
  BY DEF IInv, PromisedWereStored, TypeOK, SelectHot, view, feed, page, history
<1>4. FeedIsCurrent'
  <2>1. Rows' = Rows
    BY <1>0 DEF Rows
  <2> QED
    BY <2>1 DEF IInv, FeedIsCurrent, SelectHot, view, history
<1>5. CountsAreReal'
  BY DEF IInv, CountsAreReal, TypeOK, SelectHot, view, feed, page, history
<1>6. ShownCountsAreReal'
  BY <1>0 DEF ShownCountsAreReal, SelectHot, history
<1>7. DueAreStored'
  BY DEF IInv, DueAreStored, TypeOK, SelectHot, view, feed, page, history
<1>8. CommentsAreCurrent'
  BY DEF IInv, CommentsAreCurrent, TypeOK, SelectHot, view, feed, page, history
<1> QED
  BY <1>1, <1>2, <1>3, <1>4, <1>5, <1>6, <1>7, <1>8 DEF IInv

LEMMA SelectNewInv ==
    ASSUME IInv, SelectNew
    PROVE  IInv'
<1>0. /\ content' \in Seq(Row) /\ Len(content') <= Cardinality(Posts)
      /\ app' \in {"running", "indexOutOfRange"}
      /\ \A k, l \in DOMAIN content' : content'[k].id = content'[l].id => k = l
      /\ \A k \in DOMAIN content' : content'[k].favorite \in had
      /\ \A k \in DOMAIN content' : \E j \in DOMAIN content : content'[k].id = content[j].id
      /\ \A j \in DOMAIN content : \E k \in DOMAIN content' : content'[k].id = content[j].id
  <2>1. /\ content \in Seq(Row) /\ Len(content) <= Cardinality(Posts)
        /\ \A k, l \in DOMAIN content : content[k].id = content[l].id => k = l
        /\ \A k \in DOMAIN content : content[k].favorite \in had
        /\ app \in {"running", "indexOutOfRange"}
    BY DEF IInv, TypeOK, OneRowEach, ShownCountsAreReal
  <2>2. content' \in Rearranged(content) /\ app' = app
    BY DEF SelectNew, ByTime
  <2>3. /\ content' \in Seq(Row) /\ DOMAIN content' = DOMAIN content /\ Len(content') = Len(content)
        /\ \A k \in DOMAIN content' : \E j \in DOMAIN content : content'[k] = content[j]
        /\ \A j \in DOMAIN content : \E k \in DOMAIN content' : content'[k] = content[j]
        /\ \A k, l \in DOMAIN content' : content'[k].id = content'[l].id => k = l
    BY <2>1, <2>2, RearrangedKeeps
  <2> QED
    BY ZenonT(30), <2>1, <2>2, <2>3
<1>1. TypeOK'
  BY <1>0 DEF IInv, TypeOK, SelectNew, view, page, history
<1>2. OneRowEach'
  BY <1>0 DEF OneRowEach
<1>3. PromisedWereStored'
  BY DEF IInv, PromisedWereStored, TypeOK, SelectNew, view, feed, page, history
<1>4. FeedIsCurrent'
  <2>1. Rows' = Rows
    BY <1>0 DEF Rows
  <2> QED
    BY <2>1 DEF IInv, FeedIsCurrent, SelectNew, view, history
<1>5. CountsAreReal'
  BY DEF IInv, CountsAreReal, TypeOK, SelectNew, view, feed, page, history
<1>6. ShownCountsAreReal'
  BY <1>0 DEF ShownCountsAreReal, SelectNew, history
<1>7. DueAreStored'
  BY DEF IInv, DueAreStored, TypeOK, SelectNew, view, feed, page, history
<1>8. CommentsAreCurrent'
  BY DEF IInv, CommentsAreCurrent, TypeOK, SelectNew, view, feed, page, history
<1> QED
  BY <1>1, <1>2, <1>3, <1>4, <1>5, <1>6, <1>7, <1>8 DEF IInv

LEMMA LeaveTabInv ==
    ASSUME IInv, LeaveTab
    PROVE  IInv'
<1>1. TypeOK'
  BY BrowseAssumption DEF IInv, TypeOK, LeaveTab, On, view, feed, page, history
<1>2. OneRowEach'
  BY DEF IInv, OneRowEach, TypeOK, LeaveTab, On, view, feed, page, history
<1>3. PromisedWereStored'
  BY DEF IInv, PromisedWereStored, TypeOK, LeaveTab, On, view, feed, page, history
<1>4. FeedIsCurrent'
  BY DEF IInv, FeedIsCurrent, TypeOK, Rows, LeaveTab, On, view, feed, page, history
<1>5. CountsAreReal'
  BY DEF IInv, CountsAreReal, TypeOK, LeaveTab, On, view, feed, page, history
<1>6. ShownCountsAreReal'
  BY DEF IInv, ShownCountsAreReal, TypeOK, LeaveTab, On, view, feed, page, history
<1>7. DueAreStored'
  BY DEF IInv, DueAreStored, TypeOK, LeaveTab, On, view, feed, page, history
<1>8. CommentsAreCurrent'
  BY DEF IInv, CommentsAreCurrent, TypeOK, LeaveTab, On, view, feed, page, history
<1> QED
  BY <1>1, <1>2, <1>3, <1>4, <1>5, <1>6, <1>7, <1>8 DEF IInv

LEMMA SelectTabInv ==
    ASSUME IInv, SelectTab
    PROVE  IInv'
<1>1. TypeOK'
  BY BrowseAssumption DEF IInv, TypeOK, SelectTab, viewWillAppear, view, feed, page, history
<1>2. OneRowEach'
  BY DEF IInv, OneRowEach, TypeOK, SelectTab, viewWillAppear, view, feed, page, history
<1>3. PromisedWereStored'
  BY DEF PromisedWereStored, SelectTab, viewWillAppear, view
<1>4. FeedIsCurrent'
  BY DEF IInv, TypeOK, FeedIsCurrent, SelectTab, viewWillAppear
<1>5. CountsAreReal'
  BY DEF IInv, CountsAreReal, TypeOK, SelectTab, viewWillAppear, view, feed, page, history
<1>6. ShownCountsAreReal'
  BY DEF IInv, ShownCountsAreReal, TypeOK, SelectTab, viewWillAppear, view, feed, page, history
<1>7. DueAreStored'
  BY DEF IInv, DueAreStored, TypeOK, SelectTab, viewWillAppear, view, feed, page, history
<1>8. CommentsAreCurrent'
  BY DEF IInv, CommentsAreCurrent, TypeOK, SelectTab, viewWillAppear, view, feed, page, history
<1> QED
  BY <1>1, <1>2, <1>3, <1>4, <1>5, <1>6, <1>7, <1>8 DEF IInv

LEMMA OpenPostInv ==
    ASSUME IInv, NEW k \in DOMAIN content, OpenPost(k)
    PROVE  IInv'
<1>0. content[k].id \in Posts /\ comments[content[k].id] \subseteq Nat
  <2>1. content[k] \in Row
    BY DEF IInv, TypeOK
  <2> QED
    BY <2>1 DEF IInv, TypeOK, Row
<1>1. TypeOK'
  <2>1. 1 \in 0..MaxAsked /\ missed' \subseteq {"feed", "post"}
    BY BrowseAssumption DEF IInv, TypeOK, OpenPost
  <2> QED
    BY <1>0, <2>1 DEF IInv, TypeOK, OpenPost, view, feed
<1>2. OneRowEach'
  BY DEF IInv, OneRowEach, TypeOK, OpenPost, On, view, feed, page, history
<1>3. PromisedWereStored'
  BY DEF IInv, PromisedWereStored, TypeOK, OpenPost, On, view, feed, page, history
<1>4. FeedIsCurrent'
  BY DEF IInv, FeedIsCurrent, TypeOK, Rows, OpenPost, On, view, feed, page, history
<1>5. CountsAreReal'
  BY DEF IInv, CountsAreReal, TypeOK, OpenPost, On, view, feed, page, history
<1>6. ShownCountsAreReal'
  BY DEF IInv, ShownCountsAreReal, TypeOK, OpenPost, On, view, feed, page, history
<1>7. DueAreStored'
  BY <1>0 DEF DueAreStored, OpenPost, view
<1>8. CommentsAreCurrent'
  BY DEF IInv, CommentsAreCurrent, TypeOK, OpenPost, On, view, feed, page, history
<1> QED
  BY <1>1, <1>2, <1>3, <1>4, <1>5, <1>6, <1>7, <1>8 DEF IInv

LEMMA OnReviewInv ==
    ASSUME IInv, OnReview
    PROVE  IInv'
<1>1. TypeOK'
  <2>1. review' \subseteq Nat
    BY DEF IInv, TypeOK, DueAreStored, OnReview, On
  <2>2. reviewAsked' \in 0..MaxAsked
    BY BrowseAssumption DEF IInv, TypeOK, OnReview
  <2> QED
    BY <2>1, <2>2 DEF IInv, TypeOK, OnReview, view, feed, history
<1>2. OneRowEach'
  BY DEF IInv, OneRowEach, TypeOK, OnReview, On, view, feed, page, history
<1>3. PromisedWereStored'
  BY DEF IInv, PromisedWereStored, TypeOK, OnReview, On, view, feed, page, history
<1>4. FeedIsCurrent'
  BY DEF IInv, FeedIsCurrent, TypeOK, Rows, OnReview, On, view, feed, page, history
<1>5. CountsAreReal'
  BY DEF IInv, CountsAreReal, TypeOK, OnReview, On, view, feed, page, history
<1>6. ShownCountsAreReal'
  BY DEF IInv, ShownCountsAreReal, TypeOK, OnReview, On, view, feed, page, history
<1>7. DueAreStored'
  BY DEF IInv, DueAreStored, TypeOK, OnReview, On, view, feed, page, history
<1>8. CommentsAreCurrent'
  BY DEF IInv, DueAreStored, CommentsAreCurrent, OnReview, On, history
<1> QED
  BY <1>1, <1>2, <1>3, <1>4, <1>5, <1>6, <1>7, <1>8 DEF IInv

LEMMA OnReviewErrorInv ==
    ASSUME IInv, OnReviewError
    PROVE  IInv'
<1>1. TypeOK'
  BY SMTT(30), BrowseAssumption DEF IInv, TypeOK, OnReviewError, Fail, On, view, feed, page, history
<1>2. OneRowEach'
  BY DEF IInv, OneRowEach, TypeOK, OnReviewError, Fail, On, view, feed, page, history
<1>3. PromisedWereStored'
  BY DEF IInv, PromisedWereStored, TypeOK, OnReviewError, Fail, On, view, feed, page, history
<1>4. FeedIsCurrent'
  BY DEF IInv, FeedIsCurrent, TypeOK, Rows, OnReviewError, Fail, On, view, feed, page, history
<1>5. CountsAreReal'
  BY DEF IInv, CountsAreReal, TypeOK, OnReviewError, Fail, On, view, feed, page, history
<1>6. ShownCountsAreReal'
  BY DEF IInv, ShownCountsAreReal, TypeOK, OnReviewError, Fail, On, view, feed, page, history
<1>7. DueAreStored'
  BY DEF IInv, DueAreStored, TypeOK, OnReviewError, Fail, On, view, feed, page, history
<1>8. CommentsAreCurrent'
  BY DEF IInv, CommentsAreCurrent, TypeOK, OnReviewError, Fail, On, view, feed, page, history
<1> QED
  BY <1>1, <1>2, <1>3, <1>4, <1>5, <1>6, <1>7, <1>8 DEF IInv

LEMMA WriteReviewInv ==
    ASSUME IInv, writeReview
    PROVE  IInv'
<1>0. /\ contentId \in Posts
      /\ comments' \in [Posts -> SUBSET Nat] /\ due' \subseteq Nat
  <2>1. contentId \in Posts /\ changes \in Nat
    BY DEF IInv, TypeOK, DueAreStored, writeReview, On
  <2>2. comments' \in [Posts -> SUBSET Nat]
    BY <2>1 DEF IInv, TypeOK, writeReview
  <2> QED
    BY <2>1, <2>2 DEF writeReview
<1>1. TypeOK'
  BY SMTT(30), <1>0, BrowseAssumption DEF IInv, TypeOK, writeReview, Change, feed
<1>2. OneRowEach'
  BY DEF IInv, OneRowEach, TypeOK, writeReview, Change, On, view, feed, page, history
<1>3. PromisedWereStored'
  BY DEF IInv, PromisedWereStored, TypeOK, writeReview, Change, On, view, feed, page, history
<1>4. FeedIsCurrent'
  BY DEF IInv, FeedIsCurrent, TypeOK, Rows, writeReview, Change, On, view, feed, page, history
<1>5. CountsAreReal'
  BY DEF IInv, CountsAreReal, TypeOK, writeReview, Change, On, view, feed, page, history
<1>6. ShownCountsAreReal'
  BY DEF IInv, ShownCountsAreReal, TypeOK, writeReview, Change, On, view, feed, page, history
<1>7. DueAreStored'
  BY <1>0 DEF DueAreStored, writeReview
<1>8. CommentsAreCurrent'
  BY DEF IInv, CommentsAreCurrent, TypeOK, writeReview, Change, On, view, feed, page, history
<1> QED
  BY <1>1, <1>2, <1>3, <1>4, <1>5, <1>6, <1>7, <1>8 DEF IInv

LEMMA ClosePostInv ==
    ASSUME IInv, ClosePost
    PROVE  IInv'
<1>1. TypeOK'
  BY BrowseAssumption DEF IInv, TypeOK, ClosePost, viewWillAppear, On, view, feed, page, history
<1>2. OneRowEach'
  BY DEF IInv, OneRowEach, TypeOK, ClosePost, viewWillAppear, On, view, feed, page, history
<1>3. PromisedWereStored'
  BY DEF PromisedWereStored, ClosePost, viewWillAppear, view
<1>4. FeedIsCurrent'
  BY DEF IInv, TypeOK, FeedIsCurrent, ClosePost, viewWillAppear
<1>5. CountsAreReal'
  BY DEF IInv, CountsAreReal, TypeOK, ClosePost, viewWillAppear, On, view, feed, page, history
<1>6. ShownCountsAreReal'
  BY DEF IInv, ShownCountsAreReal, TypeOK, ClosePost, viewWillAppear, On, view, feed, page, history
<1>7. DueAreStored'
  BY DEF IInv, DueAreStored, TypeOK, ClosePost, viewWillAppear, On, view, feed, page, history
<1>8. CommentsAreCurrent'
  BY DEF IInv, CommentsAreCurrent, TypeOK, ClosePost, viewWillAppear, On, view, feed, page, history
<1> QED
  BY <1>1, <1>2, <1>3, <1>4, <1>5, <1>6, <1>7, <1>8 DEF IInv

LEMMA PublishInv ==
    ASSUME IInv, NEW p \in Posts, Publish(p)
    PROVE  IInv'
<1>1. TypeOK'
  BY SMTT(30), BrowseAssumption DEF IInv, TypeOK, Publish, Change, view, feed, page, history
<1>2. OneRowEach'
  BY DEF IInv, OneRowEach, TypeOK, Publish, Change, view, feed, page, history
<1>3. PromisedWereStored'
  BY DEF IInv, PromisedWereStored, TypeOK, Publish, Change, view, feed, page, history
<1>4. FeedIsCurrent'
  BY DEF IInv, FeedIsCurrent, PromisedWereStored, Rows, Publish, feed, history
<1>5. CountsAreReal'
  BY DEF IInv, CountsAreReal, TypeOK, Publish, Change, view, feed, page, history
<1>6. ShownCountsAreReal'
  BY DEF IInv, ShownCountsAreReal, TypeOK, Publish, Change, view, feed, page, history
<1>7. DueAreStored'
  BY DEF IInv, DueAreStored, TypeOK, Publish, Change, view, feed, page, history
<1>8. CommentsAreCurrent'
  BY DEF IInv, CommentsAreCurrent, TypeOK, Publish, Change, view, feed, page, history
<1> QED
  BY <1>1, <1>2, <1>3, <1>4, <1>5, <1>6, <1>7, <1>8 DEF IInv

LEMMA DeleteInv ==
    ASSUME IInv, NEW p \in Posts, Delete(p)
    PROVE  IInv'
<1>1. TypeOK'
  BY SMTT(30), BrowseAssumption DEF IInv, TypeOK, Delete, Change, view, feed, page, history
<1>2. OneRowEach'
  BY DEF IInv, OneRowEach, TypeOK, Delete, Change, view, feed, page, history
<1>3. PromisedWereStored'
  BY DEF IInv, PromisedWereStored, TypeOK, Delete, Change, view, feed, page, history
<1>4. FeedIsCurrent'
  BY DEF IInv, FeedIsCurrent, Rows, Delete, feed
<1>5. CountsAreReal'
  BY DEF IInv, CountsAreReal, TypeOK, Delete, Change, view, feed, page, history
<1>6. ShownCountsAreReal'
  BY DEF IInv, ShownCountsAreReal, TypeOK, Delete, Change, view, feed, page, history
<1>7. DueAreStored'
  BY DEF IInv, DueAreStored, TypeOK, Delete, Change, view, feed, page, history
<1>8. CommentsAreCurrent'
  BY DEF IInv, CommentsAreCurrent, TypeOK, Delete, Change, view, feed, page, history
<1> QED
  BY <1>1, <1>2, <1>3, <1>4, <1>5, <1>6, <1>7, <1>8 DEF IInv

LEMMA LikedInv ==
    ASSUME IInv, NEW w \in DOMAIN likes, NEW n \in Nat, Liked(w, n)
    PROVE  IInv'
<1>0. ASSUME NEW i \in DOMAIN Watched
      PROVE  /\ snapshots[i] \in Seq(Nat) /\ ToSet(snapshots[i]) \subseteq had
             /\ snapshots'[i] = Append(snapshots[i], n) \/ snapshots'[i] = snapshots[i]
             /\ snapshots'[i] \in Seq(Nat) /\ ToSet(snapshots'[i]) \subseteq had'
  <2>1. snapshots[i] \in Seq(Nat) /\ ToSet(snapshots[i]) \subseteq had
    BY DEF IInv, TypeOK, CountsAreReal
  <2>2. snapshots'[i] = Append(snapshots[i], n) \/ snapshots'[i] = snapshots[i]
    BY DEF Liked
  <2>3. had' = had \cup {n}
    BY DEF Liked
  <2>4. ToSet(Append(snapshots[i], n)) \subseteq had \cup {n}
    BY <2>1 DEF ToSet
  <2>5. Append(snapshots[i], n) \in Seq(Nat)
    BY <2>1
  <2> QED
    <3>1. snapshots'[i] \in Seq(Nat)
      BY <2>1, <2>2, <2>5
    <3>2. ToSet(snapshots'[i]) \subseteq had'
      BY <2>1, <2>2, <2>3, <2>4
    <3> QED
      BY <2>1, <2>2, <3>1, <3>2
<1>1. TypeOK'
  <2>1. snapshots' \in [DOMAIN Watched -> Seq(Nat)]
    BY <1>0 DEF Liked
  <2>2. likes' \in [ToSet(Watched) -> Nat] /\ had' \subseteq Nat
    BY DEF IInv, TypeOK, Liked
  <2>3. changes' \in 0..MaxChanges
    BY BrowseAssumption DEF IInv, TypeOK, Liked, Change
  <2> QED
    BY <2>1, <2>2, <2>3 DEF IInv, TypeOK, Liked, page
<1>2. OneRowEach'
  BY DEF IInv, OneRowEach, TypeOK, Liked, Change, view, feed, page, history
<1>3. PromisedWereStored'
  BY DEF IInv, PromisedWereStored, TypeOK, Liked, Change, view, feed, page, history
<1>4. FeedIsCurrent'
  BY DEF IInv, FeedIsCurrent, TypeOK, Rows, Liked, Change, view, feed, page, history
<1>5. CountsAreReal'
  BY <1>0 DEF IInv, CountsAreReal, TypeOK, Liked, Change, view, feed, page, history
<1>6. ShownCountsAreReal'
  BY DEF IInv, ShownCountsAreReal, TypeOK, Liked, Change, view, feed, page, history
<1>7. DueAreStored'
  BY DEF IInv, DueAreStored, TypeOK, Liked, Change, view, feed, page, history
<1>8. CommentsAreCurrent'
  BY DEF IInv, CommentsAreCurrent, TypeOK, Liked, Change, view, feed, page, history
<1> QED
  BY <1>1, <1>2, <1>3, <1>4, <1>5, <1>6, <1>7, <1>8 DEF IInv

LEMMA CommentedInv ==
    ASSUME IInv, NEW p \in posts, Commented(p)
    PROVE  IInv'
<1>1. TypeOK'
  <2>1. comments' \in [Posts -> SUBSET Nat]
    BY DEF IInv, TypeOK, Commented
  <2> QED
    BY SMTT(30), <2>1, BrowseAssumption DEF IInv, TypeOK, Commented, Change, feed, page, history
<1>2. OneRowEach'
  BY DEF IInv, OneRowEach, TypeOK, Commented, Change, view, feed, page, history
<1>3. PromisedWereStored'
  BY DEF IInv, PromisedWereStored, TypeOK, Commented, Change, view, feed, page, history
<1>4. FeedIsCurrent'
  BY DEF IInv, FeedIsCurrent, TypeOK, Rows, Commented, Change, view, feed, page, history
<1>5. CountsAreReal'
  BY DEF IInv, CountsAreReal, TypeOK, Commented, Change, view, feed, page, history
<1>6. ShownCountsAreReal'
  BY DEF IInv, ShownCountsAreReal, TypeOK, Commented, Change, view, feed, page, history
<1>7. DueAreStored'
  BY DEF IInv, DueAreStored, TypeOK, Commented, Change, view, feed, page, history
<1>8. CommentsAreCurrent'
  BY DEF IInv, CommentsAreCurrent, TypeOK, Commented, Change, view, feed, page, history
<1> QED
  BY <1>1, <1>2, <1>3, <1>4, <1>5, <1>6, <1>7, <1>8 DEF IInv

-----------------------------------------------------------------------------
(* The theorems                                                            *)

\* The inductive invariant of the feed and the post page holds, whatever fails.
THEOREM Invariance == Spec => []IInv
<1>1. Init => IInv
  BY InitInv
<1>2. IInv /\ [Next]_vars => IInv'
  <2> SUFFICES ASSUME IInv, [Next]_vars PROVE IInv'
    OBVIOUS
  <2>1. CASE OnContent \/ OnContentError
    BY <2>1, OnContentInv, OnContentErrorInv
  <2>2. CASE SelectHot \/ SelectNew
    BY <2>2, SelectHotInv, SelectNewInv
  <2>3. CASE LeaveTab \/ SelectTab
    BY <2>3, LeaveTabInv, SelectTabInv
  <2>4. ASSUME NEW i \in DOMAIN Watched, OnFavorites(i) \/ OnFavoritesError(i) PROVE IInv'
    BY <2>4, OnFavoritesInv, OnFavoritesErrorInv
  <2>5. ASSUME NEW k \in DOMAIN content, OpenPost(k) PROVE IInv'
    BY <2>5, OpenPostInv
  <2>6. CASE OnReview \/ OnReviewError
    BY <2>6, OnReviewInv, OnReviewErrorInv
  <2>7. CASE writeReview \/ ClosePost
    BY <2>7, WriteReviewInv, ClosePostInv
  <2>8. ASSUME NEW p \in Posts, Publish(p) \/ Delete(p) PROVE IInv'
    BY <2>8, PublishInv, DeleteInv
  <2>9. ASSUME NEW w \in DOMAIN likes, NEW n \in (likes[w] - 1 .. likes[w] + 1) \cap Nat, Liked(w, n)
        PROVE  IInv'
    BY <2>9, LikedInv
  <2>10. ASSUME NEW p \in posts, Commented(p) PROVE IInv'
    BY <2>10, CommentedInv
  <2>11. CASE UNCHANGED vars
    BY <2>11 DEF vars, view, feed, page, history, IInv, TypeOK, OneRowEach, PromisedWereStored,
       FeedIsCurrent, Rows, CountsAreReal, ShownCountsAreReal, DueAreStored, CommentsAreCurrent
  <2> QED
    BY <2>1, <2>2, <2>3, <2>4, <2>5, <2>6, <2>7, <2>8, <2>9, <2>10, <2>11 DEF Next
<1> QED
  BY <1>1, <1>2, PTL DEF Spec

\* Type correctness; the feed never has more rows than there may be posts.
THEOREM TypeCorrect == Spec => []TypeOK
<1>1. IInv => TypeOK
  BY DEF IInv
<1> QED
  BY <1>1, Invariance, PTL

\* Once the reads are answered, the feed shows every post that was there when it
\* appeared and still is.
THEOREM FeedCurrent == Spec => []FeedIsCurrent
<1>1. IInv => FeedIsCurrent
  BY DEF IInv
<1> QED
  BY <1>1, Invariance, PTL

\* No post has two rows, however many answers overlap.
THEOREM RowsDistinct == Spec => []RowsAreDistinct
<1>1. ASSUME IInv PROVE RowsAreDistinct
  <2> DEFINE n == Len(content)
             f == [k \in 1..n |-> content[k].id]
  <2>1. n \in Nat /\ DOMAIN content = 1..n
    BY <1>1 DEF IInv, TypeOK
  <2>2. f \in Surjection(1..n, Rows)
    BY <2>1 DEF Rows, Surjection
  <2>3. f \in Injection(1..n, Rows)
    BY <1>1, <2>1, <2>2 DEF IInv, OneRowEach, Surjection, Injection, IsInjective
  <2>4. IsFiniteSet(1..n) /\ Cardinality(1..n) = n
    <3> HIDE DEF n
    <3> QED
      BY <2>1, FS_Interval
  <2> HIDE DEF f
  <2>5. Cardinality(Rows) = n
    BY <2>2, <2>3, <2>4, FS_Surjection
  <2> QED
    BY <2>5 DEF RowsAreDistinct
<1>2. IInv => RowsAreDistinct
  BY <1>1
<1> QED
  BY <1>2, Invariance, PTL

\* A row shows a count that a watched document really had, in whatever order the
\* listeners are heard.
THEOREM CountsReal == Spec => []ShownCountsAreReal
<1>1. IInv => ShownCountsAreReal
  BY DEF IInv
<1> QED
  BY <1>1, Invariance, PTL

\* The page ends up with every comment that was known when it asked last.
THEOREM CommentsCurrent == Spec => []CommentsAreCurrent
<1>1. IInv => CommentsAreCurrent
  BY DEF IInv
<1> QED
  BY <1>1, Invariance, PTL
=============================================================================
