----------------------------- MODULE LikeToggle -----------------------------
(***************************************************************************)
(* The heart of ContentViewController, for one post seen from several      *)
(* devices.  A tap asks for the Favorite documents of the account, and the *)
(* answer decides whether one is deleted or added: check, then act.        *)
(*                                                                         *)
(* Firestore computes an answer on its own queue, from what it knows of    *)
(* the server and the writes still waiting to be sent, and runs the        *)
(* completion later on the main queue: a tap or a write in between makes   *)
(* the answer stale.  All requests below are for the same query, so they   *)
(* are answered and delivered in order.  Closures keep their controller    *)
(* alive: completions run after the page, and even the session, is gone.   *)
(*                                                                         *)
(* A write is handed to Firestore's worker queue, and in the queue on disk *)
(* only once the worker has run it: a process that ends before loses it.   *)
(***************************************************************************)
EXTENDS Integers, FiniteSets, Sequences, SequencesExt

CONSTANTS
    Devices,
    Accounts,      \* what savedId can hold
    MayUse,        \* the accounts people log in with on each device
    Ids,           \* names of Favorite documents, ordered as Firestore orders them
    MaxTaps,       \* taps whose answer is outstanding, per device
    MaxRequests,   \* bound: requests outstanding, per device
    Faults,        \* which of "kill" (the process is killed), "readError" (a
                   \* read fails) and "leaveEarly" (the page is left before the
                   \* answer to a tap) happen
    Nil

ASSUME ConstantsAssumption ==
    /\ Nil \notin Accounts
    /\ MayUse \in [Devices -> SUBSET Accounts]
    /\ Ids \subseteq Nat
    /\ MaxTaps \in Nat /\ MaxRequests \in Nat
    /\ Faults \subseteq {"kill", "readError", "leaveEarly"}

VARIABLES
    favorites,  \* the collection Favorite on the server
    known,      \* what each device last heard of it
    queue,      \* writes handed to Firestore and not sent yet
    stored,     \* how many of them, from the first, are on disk
    savedId,    \* UserDefaults: the account in use
    page,       \* the post is open
    heart,      \* the like button shows a filled heart
    requests,   \* getDocuments calls whose completion has not run
    crashed,    \* the process trapped and was not started again
    tapped      \* history: accounts that ever tapped the heart

vars == <<favorites, known, queue, stored, savedId, page, heart, requests, crashed, tapped>>

-----------------------------------------------------------------------------

\* The device that added a document is not stored; it is here for the properties.
Favorite == [id: Ids, email: Accounts, by: Devices]

Write == [op: {"add", "delete"}, doc: Favorite]

Request == [kind: {"toggle", "image"}, email: Accounts, shown: BOOLEAN,
            answered: BOOLEAN, result: SUBSET Favorite]

TypeOK ==
    /\ favorites \subseteq Favorite
    /\ known \in [Devices -> SUBSET Favorite]
    /\ queue \in [Devices -> Seq(Write)]
    /\ stored \in [Devices -> Nat] /\ \A d \in Devices : stored[d] <= Len(queue[d])
    /\ savedId \in [Devices -> Accounts \cup {Nil}]
    /\ page \in [Devices -> BOOLEAN]
    /\ heart \in [Devices -> BOOLEAN]
    /\ requests \in [Devices -> Seq(Request)]
    /\ crashed \in [Devices -> BOOLEAN]
    /\ tapped \subseteq Accounts

Init ==
    /\ favorites = {}
    /\ known = [d \in Devices |-> {}]
    /\ queue = [d \in Devices |-> <<>>]
    /\ stored = [d \in Devices |-> 0]
    /\ savedId = [d \in Devices |-> Nil]
    /\ page = [d \in Devices |-> FALSE]
    /\ heart = [d \in Devices |-> FALSE]
    /\ requests = [d \in Devices |-> <<>>]
    /\ crashed = [d \in Devices |-> FALSE]
    /\ tapped = {}

-----------------------------------------------------------------------------
(* The client library                                                      *)

Written(docs, w) == IF w.op = "add" THEN docs \cup {w.doc} ELSE docs \ {w.doc}

Adds(w, f) == w.op = "add" /\ w.doc = f

Deletes(w, f) == w.op = "delete" /\ w.doc = f

\* Own writes are visible at once: the last one about a document counts.
View(docs, writes) ==
    {f \in Favorite :
        \/ f \in docs /\ \A i \in DOMAIN writes : ~Deletes(writes[i], f)
        \/ \E i \in DOMAIN writes :
              /\ Adds(writes[i], f)
              /\ \A j \in DOMAIN writes : j > i => ~Deletes(writes[j], f)}

Own(d, email) == {f \in View(known[d], queue[d]) : f.email = email}

\* What is left of it when the process ends.
OwnStored(d, email) ==
    {f \in View(known[d], SubSeq(queue[d], 1, stored[d])) : f.email = email}

Ask(kind, email, shown) ==
    [kind |-> kind, email |-> email, shown |-> shown, answered |-> FALSE, result |-> {}]

\* The taps whose answer has not been handled.
Toggles(asked) == {i \in DOMAIN asked : asked[i].kind = "toggle"}

\* Documents come in the order of their names.
First(docs) == CHOOSE f \in docs : \A g \in docs : f.id <= g.id

\* addDocument picks a name nobody uses.
Unused(id) ==
    \A d \in Devices :
        /\ \A f \in favorites \cup known[d] : f.id # id
        /\ \A i \in DOMAIN queue[d] : queue[d][i].doc.id # id
        /\ \A i \in DOMAIN requests[d] : \A f \in requests[d][i].result : f.id # id

\* The worker queue runs the write and stores it.
Store(d) ==
    /\ ~crashed[d] /\ stored[d] < Len(queue[d])
    /\ stored' = [stored EXCEPT ![d] = @ + 1]
    /\ UNCHANGED <<favorites, known, queue, savedId, page, heart, requests, crashed, tapped>>

\* The server takes the writes of a device in order.
Upload(d) ==
    /\ ~crashed[d] /\ stored[d] > 0
    /\ favorites' = Written(favorites, Head(queue[d]))
    /\ known' = [known EXCEPT ![d] = Written(@, Head(queue[d]))]
    /\ queue' = [queue EXCEPT ![d] = Tail(@)]
    /\ stored' = [stored EXCEPT ![d] = @ - 1]
    /\ UNCHANGED <<savedId, page, heart, requests, crashed, tapped>>

\* The server's state reaches a device that is online.
Refresh(d) ==
    /\ ~crashed[d] /\ known[d] # favorites
    /\ known' = [known EXCEPT ![d] = favorites]
    /\ UNCHANGED <<favorites, queue, stored, savedId, page, heart, requests, crashed, tapped>>

\* The worker runs reads and writes in order, so that a read sees the writes handed
\* before it.  (One computed while a later write waits for the worker counts as computed
\* before that was handed: the screens cannot tell.)
Answer(d) ==
    /\ stored[d] = Len(queue[d])
    /\ \E i \in DOMAIN requests[d] :
          /\ \A j \in DOMAIN requests[d] : requests[d][j].answered <=> j < i
          /\ requests' = [requests EXCEPT
                ![d][i].answered = TRUE, ![d][i].result = Own(d, requests[d][i].email)]
    /\ UNCHANGED <<favorites, known, queue, stored, savedId, page, heart, crashed, tapped>>

-----------------------------------------------------------------------------
(* The session and the page                                                *)

\* viewDidLoad: getLikeCount, and through it checkLikeImage.
OpenPage(d) ==
    /\ ~crashed[d] /\ savedId[d] # Nil /\ ~page[d]
    /\ Len(requests[d]) < MaxRequests
    /\ page' = [page EXCEPT ![d] = TRUE]
    /\ heart' = [heart EXCEPT ![d] = FALSE]
    /\ requests' = [requests EXCEPT ![d] = Append(@, Ask("image", savedId[d], TRUE))]
    /\ UNCHANGED <<favorites, known, queue, stored, savedId, crashed, tapped>>

ClosePage(d) ==
    /\ ~crashed[d] /\ page[d]
    /\ "leaveEarly" \in Faults \/ Toggles(requests[d]) = {}
    /\ page' = [page EXCEPT ![d] = FALSE]
    /\ requests' = [requests EXCEPT ![d] =
                      [i \in DOMAIN @ |-> [@[i] EXCEPT !.shown = FALSE]]]
    /\ UNCHANGED <<favorites, known, queue, stored, savedId, heart, crashed, tapped>>

Login(d, account) ==
    /\ ~crashed[d] /\ savedId[d] = Nil
    /\ savedId' = [savedId EXCEPT ![d] = account]
    /\ UNCHANGED <<favorites, known, queue, stored, page, heart, requests, crashed, tapped>>

\* UserSettingController.logout, from the tab bar under the page.
Logout(d) ==
    /\ ~crashed[d] /\ ~page[d] /\ savedId[d] # Nil
    /\ savedId' = [savedId EXCEPT ![d] = Nil]
    /\ UNCHANGED <<favorites, known, queue, stored, page, heart, requests, crashed, tapped>>

\* The completions die with the process.  Of the writes handed to the worker, it
\* stores as many as it still comes to.
Die(d, writes) ==
    /\ crashed' = [crashed EXCEPT ![d] = TRUE]
    /\ page' = [page EXCEPT ![d] = FALSE]
    /\ requests' = [requests EXCEPT ![d] = <<>>]
    /\ \E n \in stored[d]..Len(writes) :
          /\ queue' = [queue EXCEPT ![d] = SubSeq(writes, 1, n)]
          /\ stored' = [stored EXCEPT ![d] = n]

Kill(d) ==
    /\ "kill" \in Faults
    /\ ~crashed[d]
    /\ Die(d, queue[d])
    /\ UNCHANGED <<favorites, known, savedId, heart, tapped>>

Relaunch(d) ==
    /\ crashed[d]
    /\ crashed' = [crashed EXCEPT ![d] = FALSE]
    /\ UNCHANGED <<favorites, known, queue, stored, savedId, page, heart, requests, tapped>>

-----------------------------------------------------------------------------
(* The heart                                                               *)

\* clickLikeBtn: getExistLikeLocation captures the account and asks.
clickLikeBtn(d) ==
    /\ ~crashed[d] /\ page[d]
    /\ Cardinality(Toggles(requests[d])) < MaxTaps /\ Len(requests[d]) < MaxRequests
    /\ requests' = [requests EXCEPT ![d] = Append(@, Ask("toggle", savedId[d], TRUE))]
    /\ tapped' = tapped \cup {savedId[d]}
    /\ UNCHANGED <<favorites, known, queue, stored, savedId, page, heart, crashed>>

Answered(d, kind) ==
    requests[d] # <<>> /\ Head(requests[d]).answered /\ Head(requests[d]).kind = kind

Show(d, filled) ==
    heart' = IF Head(requests[d]).shown THEN [heart EXCEPT ![d] = filled] ELSE heart

\* Mutant: savedId is not unwrapped.
checkLikeImageUnsafe(d, w) ==
    /\ queue' = [queue EXCEPT ![d] = Append(@, w)]
    /\ requests' = [requests EXCEPT ![d] =
          Append(Tail(@), Ask("image", savedId[d], Head(@).shown))]
    /\ UNCHANGED <<stored, page, crashed>>

\* Mutant: the heart is not looked up again after the write.
checkLikeImageNot(d, w) ==
    /\ queue' = [queue EXCEPT ![d] = Append(@, w)]
    /\ requests' = [requests EXCEPT ![d] = Tail(@)]
    /\ UNCHANGED <<stored, page, crashed>>

\* The write is handed to Firestore; then getLikeCount calls checkLikeImage, which
\* unwraps savedId.
checkLikeImage(d, w) ==
    \/ savedId[d] = Nil /\ Die(d, Append(queue[d], w))
    \/ /\ savedId[d] # Nil
       /\ queue' = [queue EXCEPT ![d] = Append(@, w)]
       /\ requests' = [requests EXCEPT ![d] =
             Append(Tail(@), Ask("image", savedId[d], Head(@).shown))]
       /\ UNCHANGED <<stored, page, crashed>>

Unlike(d) ==
    /\ Answered(d, "toggle")
    /\ Head(requests[d]).result # {}
    /\ Show(d, FALSE)
    /\ checkLikeImage(d, [op |-> "delete", doc |-> First(Head(requests[d]).result)])
    /\ UNCHANGED <<favorites, known, savedId, tapped>>

\* addDocument of the account.
AddLike(d, email) ==
    \E id \in Ids :
        /\ Unused(id)
        /\ checkLikeImage(d, [op |-> "add", doc |-> [id |-> id, email |-> email, by |-> d]])

\* Mutant: the loop over the answer has no return.
LikeAlways(d) ==
    /\ Answered(d, "toggle")
    /\ Show(d, TRUE)
    /\ AddLike(d, Head(requests[d]).email)
    /\ UNCHANGED <<favorites, known, savedId, tapped>>

\* Mutant: the account is read when the answer comes.
LikeAsCurrent(d) ==
    /\ Answered(d, "toggle")
    /\ Head(requests[d]).result = {}
    /\ Show(d, TRUE)
    /\ AddLike(d, savedId[d])
    /\ UNCHANGED <<favorites, known, savedId, tapped>>

Like(d) ==
    /\ Answered(d, "toggle")
    /\ Head(requests[d]).result = {}
    /\ Show(d, TRUE)
    /\ AddLike(d, Head(requests[d]).email)
    /\ UNCHANGED <<favorites, known, savedId, tapped>>

\* The completion of checkLikeImage.
ShowLike(d) ==
    /\ Answered(d, "image")
    /\ Show(d, Head(requests[d]).result # {})
    /\ requests' = [requests EXCEPT ![d] = Tail(@)]
    /\ UNCHANGED <<favorites, known, queue, stored, savedId, page, crashed, tapped>>

\* Both completions print an error and leave everything as it is.
ReadError(d) ==
    /\ "readError" \in Faults
    /\ requests[d] # <<>> /\ ~Head(requests[d]).answered
    /\ requests' = [requests EXCEPT ![d] = Tail(@)]
    /\ UNCHANGED <<favorites, known, queue, stored, savedId, page, heart, crashed, tapped>>

-----------------------------------------------------------------------------

Step ==
    \E d \in Devices :
        \/ Store(d) \/ Upload(d) \/ Refresh(d) \/ Answer(d)
        \/ OpenPage(d) \/ ClosePage(d) \/ Logout(d)
        \/ \E account \in MayUse[d] : Login(d, account)
        \/ Kill(d) \/ Relaunch(d)
        \/ clickLikeBtn(d) \/ Unlike(d) \/ Like(d) \/ ShowLike(d) \/ ReadError(d)

\* The worker runs, completions run, and writes are sent when the network is back;
\* no user acts.
Fairness ==
    \A d \in Devices :
        /\ WF_vars(Store(d)) /\ WF_vars(Upload(d))
        /\ WF_vars(Answer(d))
        /\ WF_vars(Unlike(d)) /\ WF_vars(Like(d)) /\ WF_vars(ShowLike(d))

Spec == Init /\ [][Step]_vars

FairSpec == Spec /\ Fairness

-----------------------------------------------------------------------------

\* However taps, answers, devices and accounts interleave, the likes that one
\* device has stored for one account are never more than the taps it lets the
\* user make before the first is answered: a double tap may like twice, and
\* repeating it does not pile up.
LikesBounded ==
    \A d \in Devices, a \in Accounts :
        Cardinality({f \in favorites : f.by = d /\ f.email = a}) <= MaxTaps

\* A completion that runs after a logout and a login of somebody else acts for
\* the account that tapped: an account that never tapped has no like.
OnlyTappersLike == \A f \in favorites : f.email \in tapped

Sole(d, account) == \A e \in Devices \ {d} : account \notin MayUse[e]

\* Once every completion has run, the heart tells whether the account likes the
\* post, and what it tells is on disk: a device killed then finds it so again.
\* Each completion sets the heart from an answer that may be stale, but the last
\* one to run is a check asked for after the last write.  A tap whose answer comes
\* after its page was left has its check run for that page only, so the promise is
\* made to a user who waits before leaving.
HeartAgreesWhenIdle ==
    Faults \subseteq {"kill"} =>
        \A d \in Devices :
            page[d] /\ requests[d] = <<>> /\ Sole(d, savedId[d]) =>
                heart[d] = (OwnStored(d, savedId[d]) # {})

\* A heart that has come to rest on a filled one is a like every device will see,
\* unless the account taps again: the write behind it is lost neither on its way
\* to the server nor with the process, however often that ends, if only it is
\* started again in the end.
FilledHeartIsStored ==
    \A d \in Devices, a \in Accounts : Sole(d, a) /\ <>[](~crashed[d]) =>
        (page[d] /\ savedId[d] = a /\ requests[d] = <<>> /\ heart[d]) ~>
            (\/ \E f \in favorites : f.email = a
             \/ \E i \in Toggles(requests[d]) : requests[d][i].email = a)

-----------------------------------------------------------------------------
(* The inductive invariant behind the safety properties.                   *)

PageHasAccount == \A d \in Devices : page[d] => savedId[d] # Nil /\ ~crashed[d]

\* Every document on its way, and every tap, is of an account that tapped.
AllTapped ==
    /\ \A d \in Devices :
          /\ \A f \in known[d] : f.email \in tapped
          /\ \A i \in DOMAIN queue[d] : queue[d][i].doc.email \in tapped
          /\ \A i \in DOMAIN requests[d] :
                /\ requests[d][i].kind = "toggle" => requests[d][i].email \in tapped
                /\ \A f \in requests[d][i].result : f.email \in tapped

\* A device knows the likes it stored, as long as they are there.
OwnLikesKnown == \A d \in Devices : \A f \in favorites : f.by = d => f \in known[d]

\* A device adds its own documents, and none it has deleted before.
AddsAreNew ==
    \A d \in Devices : \A i \in DOMAIN queue[d] : queue[d][i].op = "add" =>
        /\ queue[d][i].doc.by = d
        /\ \A j \in DOMAIN queue[d] : j < i => queue[d][j].doc # queue[d][i].doc

\* The likes of d for account once the server has taken k of the writes of d.
Kept(docs, writes, d, account, k) ==
    {f \in Favorite :
        /\ f.by = d /\ f.email = account
        /\ f \in docs \/ \E i \in 1..k : Adds(writes[i], f)
        /\ \A i \in 1..k : ~Deletes(writes[i], f)}

\* The taps that will like.
Likers(asked, account) ==
    {i \in Toggles(asked) : /\ asked[i].email = account
                            /\ asked[i].answered /\ asked[i].result = {}}

\* Whatever part of its queue the server has taken, a device has no more likes
\* than taps, and the taps that will like count as likes: they were answered
\* when there was none.
Bounded(docs, writes, asked, d) ==
    /\ Cardinality(Toggles(asked)) <= MaxTaps
    /\ \A a \in Accounts :
          /\ \A k \in 0..Len(writes) :
                /\ IsFiniteSet(Kept(docs, writes, d, a, k))
                /\ Cardinality(Kept(docs, writes, d, a, k)) <= MaxTaps
          /\ Cardinality(Kept(docs, writes, d, a, Len(writes)))
                + Cardinality(Likers(asked, a)) <= MaxTaps

KeptIsBounded ==
    \A d \in Devices : Bounded(favorites, queue[d], requests[d], d)

\* A device writes for the accounts that log in there.
WritesAsAllowed ==
    \A d \in Devices :
        /\ savedId[d] \in MayUse[d] \cup {Nil}
        /\ \A i \in DOMAIN queue[d] : queue[d][i].doc.email \in MayUse[d]
        /\ \A i \in DOMAIN requests[d] :
              /\ requests[d][i].email \in MayUse[d]
              /\ \A f \in requests[d][i].result : f.email \in MayUse[d]

\* What the server has of an account that logs in on one device is what it knows.
SoleIsKnown ==
    \A d \in Devices, a \in Accounts : Sole(d, a) =>
        \A f \in Favorite : f.email = a => (f \in favorites <=> f \in known[d])

\* No tap of d is left behind, and the last request of its page will set the
\* heart to what the user sees.
WillAgree(d) ==
    /\ \A i \in Toggles(requests[d]) :
          page[d] /\ requests[d][i].shown /\ requests[d][i].email = savedId[d]
    /\ page[d] /\ requests[d] # <<>> /\ Last(requests[d]).kind = "image" =>
          /\ Last(requests[d]).shown /\ Last(requests[d]).email = savedId[d]
          /\ Last(requests[d]).answered /\ Sole(d, savedId[d]) =>
                (Last(requests[d]).result # {} <=> Own(d, savedId[d]) # {})

HeartWillAgree == Faults \subseteq {"kill"} => \A d \in Devices : WillAgree(d)

\* The same of all the writes handed to Firestore.
HeartIsRight ==
    Faults \subseteq {"kill"} =>
        \A d \in Devices :
            page[d] /\ requests[d] = <<>> /\ Sole(d, savedId[d]) =>
                heart[d] = (Own(d, savedId[d]) # {})

\* A write is followed by a check, whose answer waits for it to be stored.
UnstoredIsAsked ==
    "readError" \notin Faults =>
        \A d \in Devices : stored[d] # Len(queue[d]) =>
            requests[d] # <<>> /\ ~Last(requests[d]).answered

CoreInv ==
    /\ TypeOK /\ PageHasAccount /\ AllTapped /\ OnlyTappersLike
    /\ OwnLikesKnown /\ AddsAreNew /\ KeptIsBounded
    /\ WritesAsAllowed /\ SoleIsKnown /\ HeartWillAgree /\ HeartIsRight

IInv == CoreInv /\ UnstoredIsAsked

-----------------------------------------------------------------------------
(* When a user waits for the answer before the next tap, and nobody else is *)
(* logged in with the account, the heart is a switch: every tap flips it   *)
(* once, also when its answer finds another account logged in, as long as  *)
(* no read fails and the process is not killed.  Only a tap whose answer   *)
(* finds nobody logged in may be lost, with the process that traps.        *)

Liked == [a \in Accounts |-> \E d \in Devices : a \in MayUse[d] /\ Own(d, a) # {}]

Waiting == {a \in Accounts : \E d \in Devices : \E i \in Toggles(requests[d]) :
               requests[d][i].email = a}

Attended == {a \in Accounts : \E d \in Devices : a \in MayUse[d] /\ savedId[d] # Nil}

Register == INSTANCE LikeRegister WITH
                liked <- Liked, waiting <- Waiting, attended <- Attended

\* The check-then-act toggle implements the switch, with its fairness.
SwitchesLike == Register!FairSpec

\* What the switch needs.
OneTapAtATime ==
    /\ MaxTaps <= 1 /\ Faults \subseteq {"leaveEarly"}
    /\ \A d \in Devices : \A a \in MayUse[d] : Sole(d, a)

\* A like is of an account that logs in where it was added.
LikesOfUsers == \A f \in favorites : f.email \in MayUse[f.by]

\* No write comes between the answer to a tap and its completion.
AnswerIsCurrent ==
    \A d \in Devices : \A i \in Toggles(requests[d]) :
        requests[d][i].answered => requests[d][i].result = Own(d, requests[d][i].email)

\* When a tap has its answer, the writes before it are on disk.
AnswerIsStored ==
    \A d \in Devices : \A i \in Toggles(requests[d]) :
        requests[d][i].answered => stored[d] = Len(queue[d])

=============================================================================
