------------------------------- MODULE MyRoutes -------------------------------
(***************************************************************************)
(* SecondTabViewController: the list of the user's own routes, and their   *)
(* deletion, beside the wizard that is pushed over it.                     *)
(*                                                                         *)
(* At each appearance the routes are asked for again; the rows are sorted  *)
(* before the answer, from what earlier answers gathered.  A deleted row   *)
(* goes at once, its document when the server agrees, its subcollections   *)
(* when they have been read.  Offline a query is answered all the same,    *)
(* with what the cache of the device holds.                                *)
(***************************************************************************)
EXTENDS Integers, FiniteSets, Sequences, SequencesExt

CONSTANTS
    Routes,         \* Content documents of the user, in the order of their timestamps
    Old,            \* those that were stored on other days
    Titles,
    Unheld,         \* subcollections of old routes of which the cache of this device lacks
                    \* documents at first
    Subcollections, \* which of "Route", "Favorite" and "Comment" are looked at
    MaxAsked,       \* bound: queries outstanding
    MaxDeletions,   \* rows the user deletes
    MaxDisruptions, \* bound: deletions refused, reads that fail or that the cache answers,
                    \* appearances without a user, and what others add
    Nil             \* the empty title, no draft

ASSUME ConstantsAssumption ==
    /\ Routes \subseteq Nat /\ Old \subseteq Routes
    /\ IsFiniteSet(Routes) /\ IsFiniteSet(Titles)
    /\ \A d \in Old, e \in Routes \ Old : d < e
    /\ Nil \notin Titles \cup Routes
    /\ Subcollections \subseteq {"Route", "Favorite", "Comment"}
    /\ Unheld \subseteq Old \X Subcollections
    /\ MaxAsked \in Nat /\ MaxDeletions \in Nat /\ MaxDisruptions \in Nat

VARIABLES
    app,       \* "running" or "rowOutOfRange"
    where,     \* what is on screen: the list, another tab, or the wizard
    draft,     \* the route the wizard is about
    docs,      \* the Content documents on the server
    subs,      \* their subcollections that hold documents
    unheld,    \* those of which the cache of this device lacks documents
    gathered,  \* currentUserDocument and setDocument
    rows,      \* filteredDocument, the rows shown
    asked,     \* queries of getCurrentUserDocument outstanding
    deleting,  \* deletions the server has not answered, with their row
    purging,   \* subcollections being read in order to be deleted
    deletions, \* rows deleted so far, for the bound
    disruptions, \* so far, for the bound
    listed,    \* history: what was gathered when the list appeared last
    missed,    \* history: since the list appeared last a query failed, was answered by
               \* a cache that lacks routes, or was not asked for want of a user
    unread,    \* history: subcollections a read failed of, and which are not read again
    unseen,    \* history: those of which the read for their deletion missed documents,
               \* which the cache lacks, or which others add after it
    overlap    \* history: a row was deleted while another deletion was outstanding

history == <<deletions, listed, missed, unread, unseen, overlap>>
vars == <<app, where, draft, docs, subs, unheld, gathered, rows, asked, deleting, purging,
          history, disruptions>>

-----------------------------------------------------------------------------

CurrentUserDocument == [id : Routes, title : Titles \cup {Nil}]

TypeOK ==
    /\ app \in {"running", "rowOutOfRange"}
    /\ where \in {"list", "tabs", "wizard"}
    /\ draft \in Routes \cup {Nil}
    /\ docs \in [Routes -> [state : {"unused", "stored", "gone"}, title : Titles \cup {Nil}]]
    /\ subs \in [Routes -> SUBSET Subcollections]
    /\ unheld \subseteq Routes \X Subcollections
    /\ gathered \subseteq CurrentUserDocument
    /\ rows \in Seq(gathered)
    /\ asked \in 0 .. MaxAsked
    /\ deleting \subseteq [doc : CurrentUserDocument, row : Nat \ {0}, nth : Nat]
    /\ purging \subseteq Routes \X Subcollections
    /\ deletions \in 0 .. MaxDeletions
    /\ disruptions \in 0 .. MaxDisruptions
    /\ listed \subseteq gathered
    /\ missed \in BOOLEAN
    /\ unread \subseteq Routes \X Subcollections
    /\ unseen \subseteq Routes \X Subcollections
    /\ overlap \in BOOLEAN

\* Others have liked the old routes and commented on them.
Init ==
    /\ app = "running"
    /\ where = "tabs"
    /\ draft = Nil
    /\ \E title \in Titles :
          docs = [d \in Routes |-> IF d \in Old THEN [state |-> "stored", title |-> title]
                                   ELSE [state |-> "unused", title |-> Nil]]
    /\ subs = [d \in Routes |-> IF d \in Old THEN Subcollections ELSE {}]
    /\ unheld = Unheld
    /\ gathered = {}
    /\ rows = <<>>
    /\ asked = 0
    /\ deleting = {}
    /\ purging = {}
    /\ deletions = 0
    /\ disruptions = 0
    /\ listed = {}
    /\ missed = FALSE
    /\ unread = {}
    /\ unseen = {}
    /\ overlap = FALSE

\* What a query sees that the server answers: own deletions at once.
View == {[id |-> d, title |-> docs[d].title] : d \in
            {e \in Routes : docs[e].state = "stored" /\ \A x \in deleting : x.doc.id # e}}

Disrupt == disruptions < MaxDisruptions /\ disruptions' = disruptions + 1

-----------------------------------------------------------------------------
(* The list                                                                *)

\* Newest first; a route gathered twice, before and after an edit, has two rows
\* in either order.
Sorted(set) ==
    {s \in SetToSeqs(set) : \A i, j \in DOMAIN s : i < j => s[i].id >= s[j].id}

\* Nothing is asked when Firebase has no current user.
getCurrentUserDocument ==
    \/ asked < MaxAsked /\ asked' = asked + 1 /\ missed' = FALSE /\ UNCHANGED disruptions
    \/ Disrupt /\ UNCHANGED asked /\ missed' = TRUE

\* Mutant: what is deleted is forgotten.
viewWillAppearPruned ==
    /\ getCurrentUserDocument
    /\ where' = "list"
    /\ rows' \in Sorted({r \in gathered : docs[r.id].state = "stored"
                                            /\ \A x \in deleting : x.doc.id # r.id})
    /\ listed' = gathered
    /\ UNCHANGED <<gathered, deletions, unread, unseen, overlap>>

viewWillAppear ==
    /\ getCurrentUserDocument
    /\ where' = "list"
    /\ rows' \in Sorted(gathered)
    /\ listed' = gathered
    /\ UNCHANGED <<gathered, deletions, unread, unseen, overlap>>

SelectTab ==
    /\ app = "running" /\ where = "tabs"
    /\ viewWillAppear
    /\ UNCHANGED <<app, draft, docs, subs, unheld, deleting, purging>>

LeaveTab ==
    /\ app = "running" /\ where = "list"
    /\ where' = "tabs"
    /\ UNCHANGED <<app, draft, docs, subs, unheld, gathered, rows, asked, deleting, purging,
                   history, disruptions>>

\* Mutant: later answers are ignored.
ReplyOnce ==
    /\ app = "running" /\ asked > 0
    /\ asked' = asked - 1
    /\ gathered' = IF gathered = {} THEN View ELSE gathered
    /\ UNCHANGED <<app, where, draft, docs, subs, unheld, rows, deleting, purging, history,
                   disruptions>>

\* Mutant: each answer replaces the last, whatever rows are shown.
ReplyReplaces ==
    /\ app = "running" /\ asked > 0
    /\ asked' = asked - 1
    /\ gathered' = View
    /\ UNCHANGED <<app, where, draft, docs, subs, unheld, rows, deleting, purging, history,
                   disruptions>>

\* The answer to the query of getCurrentUserDocument; nothing is ever taken out.
Reply ==
    /\ app = "running" /\ asked > 0
    /\ asked' = asked - 1
    /\ gathered' = gathered \cup View
    /\ UNCHANGED <<app, where, draft, docs, subs, unheld, rows, deleting, purging, history,
                   disruptions>>

\* Offline the cache answers; it may lack old routes no answer brought so far.
ReplyFromCache ==
    /\ app = "running" /\ asked > 0 /\ Disrupt
    /\ \E lacking \in SUBSET {d \in Old : \A r \in gathered : r.id # d} :
          /\ lacking # {}
          /\ gathered' = gathered \cup {r \in View : r.id \notin lacking}
    /\ asked' = asked - 1
    /\ missed' = TRUE
    /\ UNCHANGED <<app, where, draft, docs, subs, unheld, rows, deleting, purging, deletions,
                   listed, unread, unseen, overlap>>

ReplyError ==
    /\ app = "running" /\ asked > 0 /\ Disrupt
    /\ asked' = asked - 1
    /\ missed' = TRUE
    /\ UNCHANGED <<app, where, draft, docs, subs, unheld, gathered, rows, deleting, purging,
                   deletions, listed, unread, unseen, overlap>>

-----------------------------------------------------------------------------
(* Deletion of a row                                                       *)

\* Mutant: the places are left to the server.
deleteRowOnly(i) ==
    /\ app = "running" /\ where = "list"
    /\ deletions < MaxDeletions
    /\ deletions' = deletions + 1
    /\ rows' = RemoveAt(rows, i)
    /\ deleting' = deleting \cup {[doc |-> rows[i], row |-> i, nth |-> deletions]}
    /\ overlap' = (overlap \/ deleting # {})
    /\ UNCHANGED <<app, where, draft, docs, subs, unheld, gathered, asked, purging, listed,
                   missed, unread, unseen, disruptions>>

deleteRow(i) ==
    /\ app = "running" /\ where = "list"
    /\ deletions < MaxDeletions
    /\ deletions' = deletions + 1
    /\ rows' = RemoveAt(rows, i)
    /\ deleting' = deleting \cup {[doc |-> rows[i], row |-> i, nth |-> deletions]}
    /\ purging' = purging \cup ({rows[i].id} \X Subcollections)
    /\ unread' = unread \ purging' /\ unseen' = unseen \ purging'
    /\ overlap' = (overlap \/ deleting # {})
    /\ UNCHANGED <<app, where, draft, docs, subs, unheld, gathered, asked, listed, missed,
                   disruptions>>

\* The read finds all documents there are: the server answers, or a cache that
\* lacks none.
Purged(p) ==
    /\ app = "running" /\ p \in purging
    /\ subs' = [subs EXCEPT ![p[1]] = @ \ {p[2]}]
    /\ purging' = purging \ {p}
    /\ unheld' = unheld \ {p} /\ unread' = unread \ {p} /\ unseen' = unseen \ {p}
    /\ UNCHANGED <<app, where, draft, docs, gathered, rows, asked, deleting, deletions,
                   listed, missed, overlap, disruptions>>

\* Offline: what the cache lacks stays.
PurgedFromCache(p) ==
    /\ app = "running" /\ p \in purging \cap unheld /\ Disrupt
    /\ purging' = purging \ {p}
    /\ unseen' = unseen \cup {p}
    /\ UNCHANGED <<app, where, draft, docs, subs, unheld, gathered, rows, asked, deleting,
                   deletions, listed, missed, unread, overlap>>

\* snapshot?.documents is nil, and the subcollection stays.
PurgeError(p) ==
    /\ app = "running" /\ p \in purging /\ Disrupt
    /\ purging' = purging \ {p}
    /\ unread' = unread \cup {p}
    /\ UNCHANGED <<app, where, draft, docs, subs, unheld, gathered, rows, asked, deleting,
                   deletions, listed, missed, unseen, overlap>>

Deleted(x) ==
    /\ app = "running" /\ x \in deleting
    /\ docs' = [docs EXCEPT ![x.doc.id].state = "gone"]
    /\ deleting' = deleting \ {x}
    /\ UNCHANGED <<app, where, draft, subs, unheld, gathered, rows, asked, purging, history,
                   disruptions>>

\* Mutant: the row stays away until the next appearance.
DeleteErrorIgnored(x) ==
    /\ app = "running" /\ x \in deleting /\ Disrupt
    /\ deleting' = deleting \ {x}
    /\ UNCHANGED <<app, where, draft, docs, subs, unheld, gathered, rows, asked, purging,
                   history>>

\* The row is inserted where it was, whatever the rows are now.
DeleteError(x) ==
    /\ app = "running" /\ x \in deleting /\ Disrupt
    /\ deleting' = deleting \ {x}
    /\ \/ x.row > Len(rows) + 1 /\ app' = "rowOutOfRange" /\ UNCHANGED rows
       \/ x.row <= Len(rows) + 1 /\ rows' = InsertAt(rows, x.row, x.doc) /\ UNCHANGED app
    /\ UNCHANGED <<where, draft, docs, subs, unheld, gathered, asked, purging, history>>

-----------------------------------------------------------------------------
(* Other users, and the wizard, as far as the list can tell (module        *)
(* Authoring)                                                              *)

\* A like or a comment from another device, which may not know of the deletion yet.
OthersAdd(p) ==
    /\ app = "running" /\ docs[p[1]].state # "unused" /\ p[2] # "Route" /\ Disrupt
    /\ subs' = [subs EXCEPT ![p[1]] = @ \cup {p[2]}]
    /\ unheld' = unheld \cup {p}
    /\ unseen' = IF docs[p[1]].state = "gone" \/ \E x \in deleting : x.doc.id = p[1]
                    THEN unseen \cup ({p} \ purging) ELSE unseen
    /\ UNCHANGED <<app, where, draft, docs, gathered, rows, asked, deleting, purging,
                   deletions, listed, missed, unread, overlap>>

NewRoute ==
    /\ app = "running" /\ where = "list"
    /\ \E d \in Routes :
          /\ docs[d].state = "unused"
          /\ \A e \in Routes : docs[e].state = "unused" => d <= e
          /\ draft' = d
          /\ docs' = [docs EXCEPT ![d].state = "stored"]
    /\ where' = "wizard"
    /\ UNCHANGED <<app, subs, unheld, gathered, rows, asked, deleting, purging, history,
                   disruptions>>

updateTitle(title) ==
    /\ app = "running" /\ where = "wizard"
    /\ docs' = [docs EXCEPT ![draft].title = title]
    /\ UNCHANGED <<app, where, draft, subs, unheld, gathered, rows, asked, deleting, purging,
                   history, disruptions>>

AddPlace ==
    /\ app = "running" /\ where = "wizard"
    /\ subs' = [subs EXCEPT ![draft] = @ \cup ({"Route"} \cap Subcollections)]
    /\ UNCHANGED <<app, where, draft, docs, unheld, gathered, rows, asked, deleting, purging,
                   history, disruptions>>

\* Save, or back.
Save ==
    /\ app = "running" /\ where = "wizard"
    /\ draft' = Nil
    /\ viewWillAppear
    /\ UNCHANGED <<app, docs, subs, unheld, deleting, purging>>

Cancel ==
    /\ app = "running" /\ where = "wizard"
    /\ draft' = Nil
    /\ docs' = [docs EXCEPT ![draft].state = "gone"]
    /\ purging' = purging \cup ({draft} \X Subcollections)
    /\ viewWillAppear
    /\ UNCHANGED <<app, subs, unheld, deleting>>

-----------------------------------------------------------------------------

Step ==
    \/ SelectTab \/ LeaveTab \/ Reply \/ ReplyFromCache \/ ReplyError
    \/ \E i \in DOMAIN rows : deleteRow(i)
    \/ \E p \in purging : Purged(p) \/ PurgedFromCache(p) \/ PurgeError(p)
    \/ \E p \in Routes \X Subcollections : OthersAdd(p)
    \/ \E x \in deleting : Deleted(x) \/ DeleteError(x)
    \/ NewRoute \/ (\E title \in Titles : updateTitle(title)) \/ AddPlace \/ Save \/ Cancel

Spec == Init /\ [][Step]_vars

-----------------------------------------------------------------------------

\* Once the queries of the list are answered, and none failed, went unasked or was
\* answered by a cache that lacks routes since it appeared, every route the server
\* keeps for the user has been gathered, so that it has a row at the next appearance:
\* a new one, though answers come while the wizard is over the list, and one whose
\* deletion was refused after an answer that did not hold it.
GatheredIsComplete ==
    where = "list" /\ asked = 0 /\ ~missed =>
        \A d \in Routes : docs[d].state = "stored" => \E r \in gathered : r.id = d

\* A route that was listed and is still stored has its row, unless it is being
\* deleted: a refused deletion brings the row back, once the list has been sorted
\* anew as well.
RefusedRowReturns ==
    app = "running" =>
        \A r \in listed :
            \/ docs[r.id].state = "gone"
            \/ \E x \in deleting : x.doc.id = r.id
            \/ r \in Range(rows)

\* The index a refused deletion inserts its row at is valid as long as deletions
\* do not overlap, though the rows may have been sorted anew meanwhile.
InsertInRange == app = "rowOutOfRange" => overlap

\* While the app runs, places, likes and comments do not outlive their route unless
\* their deletion is on its way, reading them failed, or the read missed them: an
\* offline read sees only what the device holds, and no read sees what others add
\* after it.  This goes for a route deleted from the list, a cancelled one, and one
\* whose row came back and was deleted again.  The places of a route made on this
\* device are never missed, offline either.
SubcollectionsGo ==
    app = "running" =>
        \A d \in Routes :
            docs[d].state = "gone" =>
                /\ {d} \X subs[d] \subseteq purging \cup unread \cup unseen
                /\ d \notin Old /\ "Route" \in subs[d] => <<d, "Route">> \in purging \cup unread

-----------------------------------------------------------------------------
(* The inductive invariant behind the safety properties.                   *)

GatheredWereStored == \A r \in gathered : docs[r.id].state # "unused"

\* The wizard is about a stored route that is not being deleted.
DraftIsStored ==
    /\ where = "wizard" <=> draft # Nil
    /\ draft # Nil =>
          docs[draft].state = "stored" /\ \A x \in deleting : x.doc.id # draft

\* A row being deleted was gathered, and what its route has is on its way as well.
DeletionIsWhole ==
    \A x \in deleting :
        /\ x.doc \in gathered
        /\ {x.doc.id} \X subs[x.doc.id] \subseteq purging \cup unread \cup unseen

\* The cache of the device holds the places added on it.
PlacesAreHeld == \A d \in Routes \ Old : <<d, "Route">> \notin unheld \cup unseen

\* Each listed row is shown or is itself being deleted.
ListedIsAccounted ==
    app = "running" =>
        \A r \in listed :
            docs[r.id].state = "gone" \/ (\E x \in deleting : x.doc = r) \/ r \in Range(rows)

\* Without overlap there is one deletion at most, the rows are at most one more
\* than what was gathered, and the row being deleted counts as one of them.
RoomForTheRow ==
    ~overlap =>
        /\ app = "running"
        /\ \A x, y \in deleting : x = y
        /\ Len(rows) <= Cardinality(gathered) + 1
        /\ \A x \in deleting :
              /\ x.row <= Len(rows) + 1 /\ x.row <= Cardinality(gathered) + 1
              /\ Len(rows) <= Cardinality(gathered)

IInv ==
    /\ TypeOK /\ GatheredWereStored /\ DraftIsStored /\ DeletionIsWhole
    /\ PlacesAreHeld /\ ListedIsAccounted /\ RoomForTheRow /\ GatheredIsComplete
    /\ SubcollectionsGo

=============================================================================
