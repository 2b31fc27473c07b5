------------------------------- MODULE Browse -------------------------------
(***************************************************************************)
(* Reading routes: the feed of the first tab (FirstTab/ViewController) and *)
(* the comments of the post opened from it (ContentViewController).        *)
(*                                                                         *)
(* The feed asks for all posts at each appearance and shows the last       *)
(* answer.  Besides it listens to the likes of five documents with fixed   *)
(* names; each snapshot appends a count to favoriteCount, which the HOT    *)
(* segment gives to the rows in their order.  A post page asks for its     *)
(* comments when it opens and after each comment of the user.              *)
(*                                                                         *)
(* posts, likes and comments are the device's local view: own writes are   *)
(* in it at once, and others' come whenever the view is refreshed.  The    *)
(* likes and the heart of a post page are in LikeToggle.                   *)
(***************************************************************************)
EXTENDS Integers, FiniteSets, Sequences, SequencesExt

CONSTANTS
    Posts,       \* names of the posts there may be; a query answers in their order
    Stamp,       \* when each post was made
    Watched,     \* the documents "doc1" to "doc5", as a sequence of names
    MaxAsked,    \* bound: reads of the feed or of a page outstanding
    MaxChanges,  \* bound: changes of the view
    MaxFailures, \* bound: reads and listeners that fail
    Nil

ASSUME BrowseAssumption ==
    /\ Posts \subseteq Nat /\ IsFiniteSet(Posts)
    /\ Watched \in Seq(Nat)
    /\ Nil \notin Nat
    /\ Stamp \in [Posts -> Nat]
    /\ MaxAsked \in Nat \ {0}
    /\ MaxChanges \in Nat
    /\ MaxFailures \in Nat

VARIABLES
    app,            \* "running", or what ended it
    where,          \* the page on top: "feed", "post" or "away" in another tab
    posts,          \* the Content collection
    likes,          \* sizes of the Favorite collections
    comments,       \* the Comment collections: the numbers of their comments
    asked,          \* reads of getContent not answered
    content,        \* the rows
    snapshots,      \* counts of the snapshots raised and not delivered, per listener
    deaf,           \* listeners that failed
    favorite,       \* self.favorite, shared by the listeners
    favoriteCount,
    contentId,      \* the post opened
    reviewAsked,    \* reads of getReview not answered
    review,         \* the comments shown
    promised,       \* history: posts known when the feed last appeared
    had,            \* history: how many likes a watched document ever had
    due,            \* history: comments known when the page last asked
    missed,         \* history: of which pages a read failed since they appeared
    gone,           \* history: deleted posts, whose names are not used again
    changes, failures

view == <<posts, likes, comments>>
feed == <<asked, content, snapshots, deaf, favorite, favoriteCount>>
page == <<contentId, reviewAsked, review>>
history == <<promised, had, due, missed, gone>>

vars == <<app, where, view, feed, page, history, changes, failures>>

-----------------------------------------------------------------------------

Row == [id: Posts, favorite: Nat]

TypeOK ==
    /\ app \in {"running", "indexOutOfRange"}
    /\ where \in {"feed", "post", "away"}
    /\ posts \subseteq Posts
    /\ likes \in [ToSet(Watched) -> Nat]
    /\ comments \in [Posts -> SUBSET Nat]
    /\ asked \in 0..MaxAsked
    /\ content \in Seq(Row) /\ Len(content) <= Cardinality(Posts)
    /\ snapshots \in [DOMAIN Watched -> Seq(Nat)] /\ deaf \subseteq DOMAIN Watched
    /\ favorite \in Nat
    /\ favoriteCount \in Seq(Nat)
    /\ contentId \in Posts \cup {Nil}
    /\ reviewAsked \in 0..MaxAsked
    /\ review \subseteq Nat
    /\ promised \subseteq Posts
    /\ had \subseteq Nat
    /\ due \subseteq Nat
    /\ missed \subseteq {"feed", "post"} /\ gone \subseteq Posts
    /\ changes \in 0..MaxChanges /\ failures \in 0..MaxFailures

\* viewDidLoad has added the listeners, and viewWillAppear asked for the first time.
\* A listener has raised its first snapshot already, or raises it with the first change.
Init ==
    /\ app = "running" /\ where = "feed"
    /\ posts \in SUBSET Posts
    /\ likes = [w \in ToSet(Watched) |-> 0]
    /\ comments = [p \in Posts |-> {}]
    /\ asked = 1 /\ content = <<>>
    /\ snapshots \in [DOMAIN Watched -> {<<0>>, <<>>}] /\ deaf = {}
    /\ favorite = 0 /\ favoriteCount = <<>>
    /\ contentId = Nil /\ reviewAsked = 0 /\ review = {}
    /\ promised = posts /\ had = {0} /\ due = {} /\ missed = {} /\ gone = {}
    /\ changes = 0 /\ failures = 0

On(page_) == app = "running" /\ where = page_

Fail == failures < MaxFailures /\ failures' = failures + 1

Change == changes < MaxChanges /\ changes' = changes + 1

-----------------------------------------------------------------------------
(* The feed                                                                *)

viewWillAppear ==
    /\ asked < MaxAsked /\ asked' = asked + 1
    /\ promised' = posts
    /\ missed' = missed \ {"feed"}

\* Documents in the order of a query.
Listings(docs) ==
    {s \in SetToSeqs(docs) : \A i, j \in DOMAIN s : i < j => s[i] < s[j]}

\* Mutant: the rows are emptied when they are asked for.
AppendRows ==
    /\ app = "running" /\ asked > 0
    /\ asked' = asked - 1
    /\ \E s \in Listings(posts) :
          content' = content \o [k \in DOMAIN s |-> [id |-> s[k], favorite |-> 0]]
    /\ UNCHANGED <<app, where, view, snapshots, deaf, favorite, favoriteCount, page, history,
                   changes, failures>>

\* The completion of getContent.
OnContent ==
    /\ app = "running" /\ asked > 0
    /\ asked' = asked - 1
    /\ \E s \in Listings(posts) :
          content' = [k \in DOMAIN s |-> [id |-> s[k], favorite |-> 0]]
    /\ UNCHANGED <<app, where, view, snapshots, deaf, favorite, favoriteCount, page, history,
                   changes, failures>>

OnContentError ==
    /\ app = "running" /\ asked > 0 /\ Fail
    /\ asked' = asked - 1
    /\ missed' = missed \cup {"feed"}
    /\ UNCHANGED <<app, where, view, content, snapshots, deaf, favorite, favoriteCount, page,
                   promised, had, due, gone, changes>>

\* Mutant: self.favorite = [] is missing.
OnFavoritesKept(i) ==
    /\ app = "running" /\ snapshots[i] # <<>>
    /\ snapshots' = [snapshots EXCEPT ![i] = Tail(@)]
    /\ favorite' = favorite + Head(snapshots[i])
    /\ favoriteCount' = Append(favoriteCount, favorite + Head(snapshots[i]))
    /\ UNCHANGED <<app, where, view, asked, content, deaf, page, history,
                   changes, failures>>

\* The i-th listener's closure runs, for the oldest snapshot it has not seen.
OnFavorites(i) ==
    /\ app = "running" /\ snapshots[i] # <<>>
    /\ snapshots' = [snapshots EXCEPT ![i] = Tail(@)]
    /\ favoriteCount' = Append(favoriteCount, favorite + Head(snapshots[i]))
    /\ favorite' = 0
    /\ UNCHANGED <<app, where, view, asked, content, deaf, page, history,
                   changes, failures>>

\* A listener that failed hears what was raised before, and nothing after.
OnFavoritesError(i) ==
    /\ app = "running" /\ i \notin deaf /\ Fail
    /\ deaf' = deaf \cup {i}
    /\ UNCHANGED <<app, where, view, asked, content, snapshots, favorite, favoriteCount,
                   page, history, changes>>

Rearranged(rows) ==
    {[k \in DOMAIN rows |-> rows[p[k]]] : p \in Bijection(DOMAIN rows, DOMAIN rows)}

\* Swift's sort promises no order among equals.
ByLikes(rows) ==
    {s \in Rearranged(rows) : \A i, j \in DOMAIN s : i < j => s[i].favorite >= s[j].favorite}

ByTime(rows) ==
    {s \in Rearranged(rows) : \A i, j \in DOMAIN s : i < j => Stamp[s[i].id] >= Stamp[s[j].id]}

Counted ==
    [k \in DOMAIN content |->
        IF k \in DOMAIN favoriteCount
        THEN [content[k] EXCEPT !.favorite = favoriteCount[k]] ELSE content[k]]

\* The HOT segment: the counts go to the first rows, as many as there are.
SelectHot ==
    /\ On("feed")
    /\ IF Len(favoriteCount) > Len(content)
       THEN app' = "indexOutOfRange" /\ UNCHANGED content
       ELSE /\ content' \in ByLikes(Counted)
            /\ UNCHANGED app
    /\ UNCHANGED <<where, view, asked, snapshots, deaf, favorite, favoriteCount, page, history,
                   changes, failures>>

SelectNew ==
    /\ On("feed")
    /\ content' \in ByTime(content)
    /\ UNCHANGED <<app, where, view, asked, snapshots, deaf, favorite, favoriteCount, page,
                   history, changes, failures>>

LeaveTab ==
    /\ On("feed") /\ where' = "away"
    /\ UNCHANGED <<app, view, feed, page, history, changes, failures>>

\* Mutant: the feed asks when it loads, and not when it appears again.
SelectTabQuietly ==
    /\ On("away") /\ where' = "feed"
    /\ promised' = posts
    /\ missed' = missed \ {"feed"}
    /\ UNCHANGED <<app, view, feed, page, had, due, gone, changes, failures>>

SelectTab ==
    /\ On("away") /\ where' = "feed"
    /\ viewWillAppear
    /\ UNCHANGED <<app, view, content, snapshots, deaf, favorite, favoriteCount, page, had,
                   due, gone, changes, failures>>

-----------------------------------------------------------------------------
(* The page of a post                                                      *)

\* A tap on a row: prepare(for:), then viewDidLoad of the page.
OpenPost(k) ==
    /\ On("feed")
    /\ where' = "post"
    /\ contentId' = content[k].id
    /\ reviewAsked' = 1 /\ review' = {}
    /\ due' = comments[content[k].id] /\ missed' = missed \ {"post"}
    /\ UNCHANGED <<app, view, feed, promised, had, gone, changes, failures>>

\* The completion of getReview.
OnReview ==
    /\ On("post") /\ reviewAsked > 0
    /\ reviewAsked' = reviewAsked - 1
    /\ review' = comments[contentId]
    /\ UNCHANGED <<app, where, view, feed, contentId, history, changes, failures>>

OnReviewError ==
    /\ On("post") /\ reviewAsked > 0 /\ Fail
    /\ reviewAsked' = reviewAsked - 1
    /\ missed' = missed \cup {"post"}
    /\ UNCHANGED <<app, where, view, feed, contentId, review, promised, had, due,
                   gone, changes>>

\* Mutant: the comments are not asked for again.
writeReviewOnly ==
    /\ On("post") /\ Change
    /\ comments' = [comments EXCEPT ![contentId] = @ \cup {changes}]
    /\ due' = due \cup {changes}
    /\ UNCHANGED <<app, where, posts, likes, feed, page, promised, had, missed, gone,
                   failures>>

\* The button does nothing with an empty text.
writeReview ==
    /\ On("post") /\ Change
    /\ comments' = [comments EXCEPT ![contentId] = @ \cup {changes}]
    /\ reviewAsked < MaxAsked /\ reviewAsked' = reviewAsked + 1
    /\ due' = comments'[contentId] /\ missed' = missed \ {"post"}
    /\ UNCHANGED <<app, where, posts, likes, feed, contentId, review, promised, had, gone,
                   failures>>

\* The completions of the page that is left change nothing that can be seen.
ClosePost ==
    /\ On("post") /\ where' = "feed"
    /\ viewWillAppear
    /\ contentId' = Nil /\ reviewAsked' = 0 /\ review' = {}
    /\ UNCHANGED <<app, view, content, snapshots, deaf, favorite, favoriteCount, had, due,
                   gone, changes, failures>>

-----------------------------------------------------------------------------
(* What comes into the view                                                *)

Publish(p) ==
    /\ app = "running" /\ p \notin posts \cup gone /\ Change
    /\ posts' = posts \cup {p}
    /\ UNCHANGED <<app, where, likes, comments, feed, page, history, failures>>

Delete(p) ==
    /\ app = "running" /\ p \in posts /\ Change
    /\ posts' = posts \ {p} /\ gone' = gone \cup {p}
    /\ UNCHANGED <<app, where, likes, comments, feed, page, promised, had, due,
                   missed, failures>>

\* The likes of w change, perhaps not in number; its listeners raise a snapshot.
Liked(w, n) ==
    /\ app = "running" /\ Change
    /\ likes' = [likes EXCEPT ![w] = n] /\ had' = had \cup {n}
    /\ snapshots' = [i \in DOMAIN Watched |->
                        IF Watched[i] = w /\ i \notin deaf
                        THEN Append(snapshots[i], n) ELSE snapshots[i]]
    /\ UNCHANGED <<app, where, posts, comments, asked, content, deaf, favorite,
                   favoriteCount, page, promised, due, missed, gone, failures>>

Commented(p) ==
    /\ app = "running" /\ Change
    /\ comments' = [comments EXCEPT ![p] = @ \cup {changes}]
    /\ UNCHANGED <<app, where, posts, likes, feed, page, history, failures>>

-----------------------------------------------------------------------------

Next ==
    \/ OnContent \/ OnContentError \/ SelectHot \/ SelectNew \/ LeaveTab \/ SelectTab
    \/ \E i \in DOMAIN Watched : OnFavorites(i) \/ OnFavoritesError(i)
    \/ \E k \in DOMAIN content : OpenPost(k)
    \/ OnReview \/ OnReviewError \/ writeReview \/ ClosePost
    \/ \E p \in Posts : Publish(p) \/ Delete(p)
    \/ \E w \in DOMAIN likes : \E n \in (likes[w] - 1 .. likes[w] + 1) \cap Nat : Liked(w, n)
    \/ \E p \in posts : Commented(p)

Spec == Init /\ [][Next]_vars

-----------------------------------------------------------------------------

Rows == {content[k].id : k \in DOMAIN content}

\* Reads of several appearances overlap and fail; once all are answered, the
\* feed shows every post that was there when it appeared and still is.
FeedIsCurrent ==
    where = "feed" /\ asked = 0 /\ "feed" \notin missed =>
        promised \cap posts \subseteq Rows

\* However answers overlap, no post has two rows.
RowsAreDistinct == Cardinality(Rows) = Len(content)

\* Five listeners count in one array; whatever the order of their snapshots, a
\* row shows a number of likes that one of the documents really had.
ShownCountsAreReal == \A k \in DOMAIN content : content[k].favorite \in had

\* The page asks when it opens and after each own comment, and answers overlap
\* and fail: in the end every comment that was known when it asked last is shown,
\* the own one first of all.
CommentsAreCurrent ==
    where = "post" /\ reviewAsked = 0 /\ "post" \notin missed => due \subseteq review

-----------------------------------------------------------------------------
(* The inductive invariant behind them.                                    *)

OneRowEach == \A k, l \in DOMAIN content : content[k].id = content[l].id => k = l

PromisedWereStored == promised \subseteq posts \cup gone

\* Counts start from an empty array, in whatever order the listeners are heard.
CountsAreReal ==
    /\ favorite = 0 /\ 0 \in had
    /\ \A w \in DOMAIN likes : likes[w] \in had
    /\ \A i \in DOMAIN Watched : ToSet(snapshots[i]) \subseteq had
    /\ \A k \in DOMAIN favoriteCount : favoriteCount[k] \in had

DueAreStored == where = "post" => contentId \in Posts /\ due \subseteq comments[contentId]

IInv ==
    /\ TypeOK /\ OneRowEach /\ PromisedWereStored /\ FeedIsCurrent
    /\ CountsAreReal /\ ShownCountsAreReal /\ DueAreStored /\ CommentsAreCurrent
=============================================================================
