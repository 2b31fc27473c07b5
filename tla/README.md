# Groute, in TLA+

Groute is an iOS app for sharing travel routes. Its code (`src/Groute/Groute`, about 2900 lines
of Swift) is a set of view controllers over Firebase: each reads and writes Firestore documents
asynchronously, and each completion acts on the state it finds when it runs. The repository also
holds the source of the libraries it is built with (`src/Groute/Pods`), among them the Firestore
client. The modules here model the screens - what the user does, what is answered later, and what
another screen, account, device or process did in between - and, below them, what the Firestore
client makes of the writes nobody waits for.

## The system

All state of the app lives in four places:

- **Firestore**: `User` documents (named by account), `Content` documents (one per route: id,
  title, memo, city, picture, e-mail of the owner) and under each the subcollections `Route`
  (places, with their day), `Favorite` (one document per like) and `Comment`.
- **Firebase Auth**: `currentUser`, whose e-mail owns new routes.
- **UserDefaults**: `savedId` (the account that likes, comments and logs in automatically),
  `firstDate`, `lastDate`, `days`. They outlive the process.
- **View controllers**, created by a segue and dropped when popped; a completion keeps its
  controller alive.

The storyboard connects them: Login -> (Signup -> Nickname) -> a tab bar in a navigation
controller with three tabs, *feed*, *my routes*, *settings*. Feed -> post page. My routes ->
title -> city search -> days -> place list -> place: the *wizard*, pushed over the tab bar.

| Component | State | Operations | What is hard | What makes it correct |
|---|---|---|---|---|
| Route wizard (`TitleViewController`, `SearchViewController`, `AddRouteViewController`, `RouteListViewController`, `DetailTourViewController`) | the draft's document and places; the name of the draft in five controllers, two of which look it up again; dates | new, next, pick a city, dates, confirm, pick a day, pick and add a place, save, cancel, back | `viewDidAppear` against answers; writes nobody waits for; cancel = document at once, places after a read | one draft is written and no other; what is shown and saved is what is stored; a cancelled draft stays deleted and leaves nothing |
| Heart (`ContentViewController`) | `Favorite` documents, the heart's image, outstanding reads | tap, completions, open and leave the page | check-then-act on stale answers, two devices, leaving, logout, kill | likes do not pile up; the heart tells the truth once it rests; a like belongs to who tapped |
| Session (`LoginViewController`, `SignupViewController`, `SetNicknameViewController`, `UserSettingController`) | `savedId`, `currentUser`, `User` documents, what is presented over what | automatic, e-mail and Google login, signup, nickname, logout | completions that read text fields and present screens as they are by then; two records of the account; signups cut short | one account, one tab bar, a logout that lasts |
| My routes (`SecondTabViewController`) | `currentUserDocument`, `setDocument`, rows | appear, delete a row | rows sorted before the answer; a list that only grows; a deletion that fails later | no stored route is missing; a refused row comes back at a valid index; deletion takes the subcollections |
| Feed (`FirstTab/ViewController`) | `content`, `favoriteCount`, five listeners | appear, snapshots, HOT, NEW, open a post | overlapping reads; five listeners append counts to one array in any order | the last list is complete, without doubles; counts are counts of something |
| Post page (`ContentViewController`) | comments read from Firestore | open, comment | own comments and reads overlap | the last list is complete; the age of a comment has the right label |
| Firestore client, write path (`SyncEngine`, `LocalStore`, `LevelDbMutationQueue`, `RemoteStore`, `Stream`, `WriteStream`, `FirebaseCredentialsProvider`) | a persistent queue of batches per user, completions by user and batch id, the pipeline, the write stream and its timers | a write, a change of user, tokens, handshake, answers, errors, idle, restart | answers that only their order links to writes; resending; ids used again; tokens that come late; a queue swapped under an open stream; kills between two steps | writes reach the server in order, as the user who made them, and every one is settled |
| City and place lists | list, filtered list | type, answer | a list answered after typing | rows match the text |
| Unreachable | `ContentRouteViewController`, `MapViewController` | | no segue leads to them | |

The screens call the Firestore client, which answers reads from its local view - own writes
included - and queues writes; `LikeToggle` models a device's queue in the abstract, and
`FirestoreWrites` what implements it. The session owns `savedId`, which the heart reads at each
tap; the wizard writes the documents that *my routes* and the feed list.

`PROJECT.json` lists the hazards with their lines, and the properties about each.

## Modules

| Module | What it is |
|---|---|
| `Authoring`, `MCAuthoring` | the wizard: five controllers as one state machine over `docs` (Content) and `routes` (Route) |
| `AuthoringProofs` | proofs about the wizard, and about its day count |
| `LikeToggle`, `MCLikeToggle` | the heart on several devices, with Firestore's local view and write queue |
| `LikeRegister` | what the heart promises: a switch per account. `LikeToggle` implements it |
| `LikeToggleProofs` | proofs about the heart, the refinement among them |
| `Session`, `MCSession` | who is logged in, by both records |
| `SessionProofs` | proofs about the session |
| `MyRoutes`, `MCMyRoutes` | the list of own routes and the deletion of rows, beside the wizard reduced to what the list can tell |
| `MyRoutesProofs` | proofs about the list |
| `Browse`, `MCBrowse` | the feed and the comments of the post opened from it |
| `BrowseProofs` | proofs about them |
| `Ages`, `AgesProofs` | the age labels of comments as an operator, what a label means, and the proof that they agree |
| `FirestoreWrites`, `MCFirestoreWrites` | the write path of the Firestore client, with Auth, the server and kills |
| `Outbox` | what the write path promises: an outbox per user. `FirestoreWrites` implements it |
| `FirestoreWritesProofs` | proofs about the write path: types, owners, tokens, answers |
| `OutboxProofs` | proofs about the order of writes, the refinement of `Outbox` among them |

The `MC` modules hold the instances for TLC. Definitions that end in a remark "Mutant" are broken
variants of the definition they precede; nothing uses them. Each stands for a plausible mistake,
and each property of a passing run is violated when its mutant replaces the original.

### How the code of the app maps to actions

- A step of the user (a tap with all its handler does, up to the calls it leaves outstanding) is
  one action, guarded by `At(screen)`, `On(page)` or `page[d]`. UIKit delivers it only to the
  screen on top and not during a transition (`appearing` in `Authoring`).
- A completion is one action: main-queue closures are not interleaved. What was asked is a
  variable (`add.asked`, `purging`, `requests`, `auto`, `asked`, `signup`, `naming`, `deleting`,
  `reviewAsked`).
- `viewDidAppear` is an action of its own, since answers may arrive during the transition.
- `prepare(for:)` and the new controller's `viewDidLoad` belong to the tap that causes them.
- A force-unwrap, a cast, an index or a Firestore assertion that fails ends the process (`Crash`,
  `Die`, or a value of `app`).
- `Kill` ends the process at any time and `Relaunch` starts it with UserDefaults and Firestore's
  cache. Completions and controllers are gone, and so may be the writes handed over last, which
  Firestore's worker had not stored yet. `LikeToggle` has these explicitly (`stored`, `Die`). In
  `Authoring` losing them is the same as a kill a little earlier, since the screens are gone as
  well; in `Session` the one such write, the `User` document of a signup, may be refused anyway.
- A completion called with an error is an action or disjunct of its own, guarded by `Faults` or
  by a number of failures (in `Session`, which has neither, it may always happen).

**Firestore, as the screens see it.** A client sees its own writes at once (latency compensation)
and its writes are kept until they reach the server. `Authoring` is about one device and its own
drafts: `docs` and `routes` are that device's view. A listener's closure (`SearchSnapshot`,
`RoutesSnapshot`) fires while it has something new to tell. In `Browse`, `posts`, `likes` and
`comments` are the local view as well: others' changes come into it at any time (`Publish`,
`Delete`, `Liked`, `Commented`), and a read is answered from it. Its five listeners raise a snapshot
for each change of what they watch, also for one that leaves the count as it was, and the closure
runs later, once for each in their order (`snapshots`, `OnFavorites`).

`LikeToggle` needs more: `favorites` is the server's collection, `known` what a device last heard,
`queue` the writes it was handed, of which the first `stored` are on disk and may be sent. A read is
first computed (`Answer`), on the same worker and so after the writes handed before it, and later
delivered (`Like`, `Unlike`, `ShowLike`). Between the handing over and the storing of a write lies
the trap of `checkLikeImage`: the completion of a tap writes, unwraps `savedId` and dies after a
logout, so that the like it just made may be lost. The queue belongs to the device: Firestore keeps
one per Firebase user, but a logout of this app clears `savedId` only and does not change that user.

Without a network a query is answered from the cache, without an error, even if the cache is empty.
`MyRoutes` has this: the list may be answered without routes no earlier answer brought
(`ReplyFromCache`), and the read of a deletion may miss what others added (`PurgedFromCache`);
`unheld` are the subcollections of which the cache lacks documents. It never lacks what the device
wrote itself.

**Firebase Auth.** Auth stores the user on disk on its own queue and then hands the completion,
which saves `savedId` and opens the tabs, to the main queue. `Session` has two steps for each login
and signup: `updateCurrentUser` before `LoggedIn` or `GoogleAnswered`, `AccountCreated` before
`UserCreated`; a kill may fall between them.

**Firestore, inside.** Everything in `FirestoreWrites` but Auth and the server runs on the client's
worker queue, so that each of its handlers is one action; `tasks` is what other threads have put on
that queue. What a handler does in the end is part of it: a write, an acknowledgement and a change
of user all end in `FillWritePipeline`, which loads batches, sends them if the stream takes them,
marks an idle stream and starts one that is needed. `Close` is `Stream::Stop`: it invalidates
outstanding tokens by `closeCount` and cancels the idle timer. Two threads meet in `GetToken`:
Auth's thread compares the user counter, and the token reaches the worker later.

The server takes what is on the wire in order, and applies, refuses (a permanent error, which ends
the stream) or aborts. When a stream goes, of what was on its way the server may have taken a first
part, whose answers are lost (`Disconnect`); it takes nothing of an old stream after it has taken
from a later one. A kill may fall between telling the application and removing the batch, in the
order the code has for a success and in the other one for a rejection.

**Data.** Title and memo are one value and "" is `Nil`. A place keeps its name, day and picture (the
tour it came from). A table row is the day it belongs to. Dates and ages are numbers: days are
computed from two instants as the code does, with Swift's truncating conversion. An account is its
name; a login with Google is named by its ID token, which is what `savedId` takes. A tap with the
wrong password is `LoginFailed`. A comment is its number. Swift's `sort` is not stable, so `ByLikes`
and `ByTime` leave the order of equals open. A write is the number it was made at: what it writes is
left out, and so is the stream token, which the handshake never sends.

## Runs

| Run | Question | Bounds |
|---|---|---|
| `wizard_safety` | Is the saved route the one typed, are shown places stored, do places have a city and the picture a place, does a step write to one draft only, does a deleted one stay deleted? With kills and failing reads | 2 drafts (a pass and an earlier one to mistake it for), 2 titles, 2 places, 2 days, dates in both orders |
| `wizard_cancel` | Does a cancel take the places, and does every stored place of the first days show up? | 2 drafts, 2 places, the first day and a sixth without section, dates in both orders, no faults |
| `likes_two_devices` | Do likes pile up? One account on two devices (symmetric), failing reads, traps after a logout | 3 documents, one tap outstanding per device |
| `likes_heart` | Does the heart come to rest on what is on disk, and does a like it shows then reach the server, however often the process is killed? | 1 device, 2 taps outstanding, 3 requests, 3 documents |
| `likes_session` | Whose like is it when accounts change before the answer? Is the heart a switch, which loses a tap only when nobody is logged in? | 1 device, 2 accounts, one tap outstanding, pages left early |
| `session_accounts` | Is there one tab bar, whatever is outstanding? Do User documents keep their e-mail? Is a user one account in both records, and does a logout last? With kills, those between Firebase storing a user and the completion among them, signups cut short and refused credentials | 2 e-mail accounts, 1 Google login, one login outstanding beside the automatic one and a signup |
| `session_nickname` (violation) | Does the nickname screen have a saved account? | 1 account |
| `session_race` (violation) | Do the tabs have a saved account? | 1 account, acts before answers |
| `my_routes` | Is every stored route gathered, does a refused row come back, and at a valid index, and is what is under a deleted route deleted as well, or what exactly can stay? Online, offline, with refusals, failing reads, and while others comment | an old route with a comment the cache lacks and a new one, one title typed, 2 subcollections, 2 deletions, 2 queries outstanding, 2 disruptions |
| `feed` | Do the feed and the comments end up complete, without doubles, with real counts? With overlapping and failing reads, and listeners' closures that run late | 2 posts, one listened to and one not, a listened document without post, 2 reads outstanding, 3 changes, 1 failure |
| `writes` | Do writes reach the server in order and as their owner, do completions and answers stay with their writes, is some step due while one waits, and is every write settled? Does the path implement `Outbox`? With broken streams, failing and late tokens, changes of user, refusals, aborts and kills | 2 users, 3 writes, a pipeline of 2, 2 disruptions |
| `writes_misattributed` (violation) | Is a write that is reported as failed one the server refused? | 1 user, 3 writes, no disruption |

Not everything is promised to everybody. `Session` keeps two history variables: `hasty`, the user
acted again before an answer came, and `unfinished`, since the last login that went through Firebase
refused a Google credential, a signup was left between its steps, or the app was killed between
Firebase storing a user and the completion. In that last case a user who waited and finished
everything finds the tabs under the account saved before, with Firebase's user of the new login; the
next login joins the two again. `OneAccount`, `LogoutSticks` and `UserKeepsEmail` name the ones they
exclude; `OneTabBar` holds for all. `MyRoutes` keeps `overlap` (a row was deleted while another
deletion was outstanding), `unread` (reads of subcollections that failed), `unseen` (reads that
missed documents the cache lacks, or that others added after them), `missed` (since the list
appeared a query failed, was not asked for want of a Firebase user, or was answered by a cache that
lacks routes) and `listed` (what the list was last sorted from). A row of the same route may be
deleted twice there: once refused, or because what was gathered is never forgotten. The three
subcollections are treated alike by the code, but only this device writes `Route`, and others write
`Favorite` and `Comment`: the run has one of each kind. `Browse` keeps what was known when a page
asked (`promised`, `due`) and whether a read failed since (`missed`), since a failed read is not
repeated by the code.

Why the bounds are enough: two drafts are enough for mistaking one for another; two taps and two
writers make every race of check-then-act; a third document lets likes pile up if they could; two
deletions overlap, and the second may delete again what the first did; two disruptions refuse both,
or let an offline read miss what was added before it. With the new route listed before and after its
title is typed, two routes make three rows. A pipeline of two leaves the third write waiting for
room (`kMaxPendingWrites` is ten in the code), two users and two disruptions let a change of user,
or a kill, meet a broken stream and a resend, and let batch ids start over. Two reads make an answer
late. Outstanding requests are bounded by constants (`MaxTaps`, `MaxRequests`, `MaxAsked`), rows
deleted by `MaxDeletions`, the rest by `MaxChanges`, `MaxFailures`, `MaxWrites` and
`MaxDisruptions`, each named in its module and a guard of its actions; `MaxTaps` is also what
`LikesBounded` speaks of. Drafts, Favorite names, changes and writes are used up, so runs end where
they are: `CHECK_DEADLOCK FALSE`. A user may also simply stop.

**Fairness** is weak, on completions only. In the screens: Firestore answers every request, from its
cache when there is no network, transitions end, and a queue of writes is sent when the network is
back. In `FirestoreWrites`: the worker queue runs what is on it, the backoff timer elapses, Auth
answers a request for a token, and the server answers what it is sent; in `LikeToggle`, the worker
also stores what it was handed - each a queue or a call that is never dropped by the code. Neither
the user nor disruptions are fair: leads-to properties of the wizard have an escape (another screen,
the process gone), `FilledHeartIsStored` is asked of devices whose process is in the end started and
stays up, with no escape for the kills before, and `WritesSettle` is asked of behaviours whose
disruptions end (`MaxDisruptions`). `Session`, `MyRoutes` and `Browse` have no liveness property: a
login or a deletion may never be answered there.

### Findings

- **The nickname screen after a logout** (`SavedIdPresent`). After a signup the tab bar lies over
  the nickname screen; the logout clears `savedId` and leads back to it; its button unwraps nil, and
  so does the completion of a query it asked before the logout.
- **The automatic login after a logout** (`TabsHaveAccount`). Answered late, it presents the tab
  bar although the account was logged out meanwhile; the first heart or comment unwraps nil.
- **A success told as a failure** (`FailedWasRefused`). `RemoteStore::HandleWriteError` gives up the
  front of the pipeline, on the ground that answers come in the order of requests
  (`remote_store.h:296-298`). A stream ends as soon as a write operation on it fails, though, and
  the answers read before but still on the worker queue are dropped (`grpc_stream.cc`). One read is
  outstanding at a time, so that the case is clearest with a second acknowledgement still to be read
  when the write fails. So write 1 may be applied, write 2 refused while write 3 is being sent, and
  the refusal falls on write 1: its completion is told of a failure and the batch is removed. Write
  2, still in the queue, is sent again, so that the order of writes holds (`LastWriteWins`,
  `ImplementsOutbox`).

The models also reach crashes that the code does nothing to exclude, and the hazards list them: an
empty title form, which `prepare(for:)` cannot hold back, so that the city search asserts on
`document("")`; the cast of a missing start date; `savedId!` in a completion after a logout, which
may take the like just written with it; a `User` document named after an emptied text field; a row
that a refused deletion inserts out of range when deletions overlap; HOT before the list has as many
rows as there were snapshots. And the completion of a Google login tests the Google user, which is
never nil there, so that a credential Firebase refuses opens the app with `savedId` set and no
Firebase user: `OneAccount` excludes it by `unfinished`.

Where comment and code of the client differ, the model follows the code: the diagram in `stream.h`
leads from any state to `Initial` when the stream is stopped, while `Stream::Close` returns at once
when it is not started and leaves `Error` as it is; the next start then goes through a backoff.

## Proofs

Six inductive invariants, each called `IInv` and defined at the end of the component's module, and
checked by TLC on the constants of the run before it was proved; so was `OrderInv`, a second one of
the write path that is inductive together with the first. Each proof is laid out alike: `InitInv`,
one lemma per action with one step per part of `IInv`, `Invariance` (`Spec => []IInv`), and the
properties as consequences. They assume only the named assumptions on the constants: that `Nil` (and
the empty string) is no account, draft or place, that sets which are counted are finite, that bounds
and document names are naturals. `TogglesAsSwitch` has an assumption of its own, given below.

| Module | Theorems |
|---|---|
| `AuthoringProofs` | `Invariance`, `TypeCorrect`, `SaveableTitled`, `ShownStored`, `PlacesLocated`, `ImageOfFirstDay`, `CancelPurges`; the action properties `WritesOwnDraft`, `DeletedStays`; about the day count, `TripDaysForward` and `TripDaysBackward` |
| `LikeToggleProofs` | `Invariance`, `TypeCorrect`, `OnlyTappers`, `LikesStayBounded`, `HeartAgrees`, `TogglesAsSwitch` |
| `SessionProofs` | `Invariance`, `TypeCorrect`, `OneTabBarOnly`, `OneAccountOnly`, `LogoutLasts`, `EmailsKept` |
| `MyRoutesProofs` | `Invariance`, `TypeCorrect`, `GatheredComplete`, `RowReturns`, `InsertsInRange`, `SubcollectionsGone` |
| `BrowseProofs` | `Invariance`, `TypeCorrect`, `FeedCurrent`, `RowsDistinct`, `CountsReal`, `CommentsCurrent` |
| `FirestoreWritesProofs` | `Invariance`, `TypeCorrect`, `CompletionsAreTheirs`, `AnswersAreForTheFront`, `NoWriteIsStranded`, `TokenOfCurrentUser`, `AppliedAsOwner` |
| `OutboxProofs` | `OrderInvariance`, `PipelineIsHead`, `NewestWins`, `WritesKeepMoving`, `WritePathIsOutbox` |
| `AgesProofs` | `LabelsFit`, `LabelsAreUnique` |

**The wizard.** `OwnDraft`: every document name a controller holds is `createId` or still empty,
along the chain title -> search -> days -> place list, and that draft is live. It makes every write
a write to the draft of this pass. `Stack`: which controllers exist on which screen, and what must
have been answered to be there; the crash on an empty name is what makes the later screens safe.
`Titled` and `Located`: the title is written before the days can be reached, the city before the
place list. `Untouched`: an unused name has no places, so that a new route starts blank.
`PurgingIsDeleted`: a late purge never empties the draft being edited. `StepWrites` says what a step
may write and yields the two action properties. The day count divides by 86399, not 86400: the two
`TripDays` theorems say that midnights 24 hours apart are still counted right below 86399 days, in
both directions.

**The heart.** That likes do not pile up cannot be seen from what the server has alone: a device's
writes reach it one by one, and between them it may have any first part of the queue.
`KeptIsBounded` therefore bounds what there is after *every* first part (`Kept`), and counts the
taps that were answered "no like" and will add one as likes of the full queue (`Likers`): these were
asked when the device's own view was empty, so that there are no more of them than taps.
`AddsAreNew` and `OwnLikesKnown` keep the view of a device from missing its own likes. `AllTapped`
carries who tapped through answers, requests and queue. `UnstoredIsAsked`: while a write is not
stored yet, the request asked after it is not answered, so that no answer on screen rests on a write
a kill can take. For the heart's image, `WillAgree` says that the last request of a page is still to
come, asks about the account on that page, and is answered by what the device sees; it needs
`SoleIsKnown`, since another device may change the truth behind an account's back, and is promised
to users who leave no tap behind (`Faults` at most `"kill"`), as `HeartAgreesWhenIdle` is.

`TogglesAsSwitch` is the refinement: `Spec => Register!Spec`, where an account counts as liked if
the device it logs in on sees a like of it, and as waiting while a tap of it has not been handled.
It assumes `OneTapAtATime` - one tap outstanding, no kills or failing reads, no account on two
devices - which is what `likes_session` has; without it the code is no switch, as two quick taps
both see "no like" and add two. Its proof adds to `IInv` that an answer is what the device still
sees when its completion runs (`AnswerIsCurrent`), that its writes are on disk then
(`AnswerIsStored`), so that the trap can lose the new write only, and that a like is of an account
of the device that added it (`LikesOfUsers`). An account then has one like at most (`OneLike`, from
`KeptIsBounded`), so that deleting the first document deletes them all. A tap answered with nobody
logged in runs into the trap: it flips the like or is the register's `Lose`, which no account with
somebody logged in on its device (`attended`) can take. The register's fairness is left to TLC
(`SwitchesLike`).

**The session.** `StackIsNested`: the tab bar and the last alert of a signup are only ever on top,
because UIKit ignores a presentation by a controller that presents already. This is why completions
that all present the tab bar leave one, and why a dismissal never uncovers another. For a user who
waits, `OneAtATime` (one call outstanding) and `AnswersAreTheirs` (it is about the account saved, or
typed) make each completion write what was asked; `SignupIsTheirs` allows the two records of the
account to differ only from the storing of a new user to the completion of the login, or to the last
alert of the signup; a kill in between is `unfinished`, and a login that goes through
(`WentThrough`) ends it.

**My routes.** `DeletionIsWhole`: a row being deleted was gathered, and what its route has is
already being purged, was missed by a read or came after it. `PlacesAreHeld`: the cache of a device
lacks no place added on it, which is why the places of a new route are never missed.
`ListedIsAccounted`: each listed row is shown, being deleted, or of a deleted route.
`RoomForTheRow`: without overlap there is one deletion at most, and the row it took out counts as
one of the gathered, which bounds the index.

**The feed.** `OneRowEach` (a read fills the rows anew, a sort rearranges them),
`PromisedWereStored`, `CountsAreReal` (the shared array is empty between snapshots, and those that
wait were real), `DueAreStored`. `ListingHoldsAll` and `RearrangedKeeps` are the two lemmas about
lists the rest needs.

**The write path.** `AnswersMatchPipeline` (what is on the wire and in the answers is the pipeline,
in order) and `PipelineIsServed` are inductive with `TimerIsIdle` (the idle timer runs on an empty
pipeline only) and `OneToken`: a stream that starts has exactly one token asked for or on its way,
and all others carry an older `closeCount`. `CallbacksBelong` rests on `IdsAreTaken`: ids in use are
below the next one though they start over. `SentAsOwner` rests on `StreamOfUser` (the token of a
stream is the current user's, `TokenOfCurrentUser`), which needs to know what is still on the worker
queue: `UserIsComing` (a change of user not yet handled is there) and `TokenIsOfUser` (a token ahead
of every such change is the current user's). `OwnersKnown` turns that into `AppliedAsOwner`.

**The order of writes.** Ids start over, resent writes are applied twice, a kill falls between two
steps, and a refusal may fall on the wrong write; `OrderInv` says what survives all of it.
`PipelineIsOldest` says without counting what `PipelineIsQueueHead` says with `NthId`: the pipeline
holds batches of the queue in ascending order, none after one it lacks (`IsHead`), and lacks none it
has room for (`IsFilled`). `HeadIsNext` proves that such a pipeline is what `NextBatches` computes
(a batch of a head has as many ids below it as batches before it, and an id is determined by that
number), and `HeadOfLonger`, `HeadOfShorter` and `HeadFilled` that a new write, a settled front and
`FillWritePipeline` keep it one. `QueuesInOrder` ties ids to the order of the writes.
`JudgedInOrder`: what the server has judged, applied or refused, has no gap among a user's writes,
since what is on the wire follows the answers, and they follow what has left (`WireInOrder`).
`AnswersAreTrue`: an answer that waits says what happened, only the last can be a refusal, and the
front it settles is therefore judged, even where the refusal was another write's (`FrontJudged`).
`NewerWait` is the heart of `LastWriteWins`: a resend may put an older write last for a while, but
then the newer ones are still in the queue. `WaitingAreUntold` and `CallbacksBelong` give the one
completion per write.

`WritesKeepMoving` is the safety half of `WritesSettle`: while a write of the user waits, the guard
of some step holds that neither the application nor a disruption takes (`StepIsDue`).
`PipelineIsOldest` says that the pipeline is not empty then, `PipelineIsServed` that its stream is
on the way to the handshake or past it, and `AnswersMatchPipeline` that past it an answer or a
request for the front exists; `AnswersAreTrue` adds that an answer which does not let the front go
ends the stream. That such steps lead to the end of the queue needs fairness, and is left to TLC.

`WritePathIsOutbox` is the refinement: `Spec => ImplementsOutbox`, with `AppliedWrites` and
`SettledWrites` (made, and in no queue) for what the outbox calls applied and settled. Each action
is a `Make`, a `Judge`, a `Settle`, a `TellOnly` (a kill after the completion is called and before
the batch is removed) or a stutter. An answer lost with the stream is a `Judge` the client does not
notice, so a `TellOnly` carries verdicts as well: the kill cuts the connection.

**The age labels.** `LabelsFit`: the ranges of `calTime` leave no gap, an age gets the label that
fits it. A comment of this very second, or of a clock ahead, is "unknown": that is what `Fits` says
as well.

What stays with TLC: liveness, and the fairness of the refinement of the register
(`CancelCompletes`, `StoredPlaceShown`, `FilledHeartIsStored`, `SwitchesLike`, `WritesSettle`),
since ENABLED and fairness are out of the prover's reach. Every invariant, every action property and
both refinements' safety have a theorem.

## Not modelled

- Filtering of the city and place lists: a list answered after typing stays empty until the next
  keystroke. The description and the places of a post, which are plain reads nothing else touches.
- Garbage collection of Firestore's cache: `MyRoutes` lets the cache lack what the device never read
  or wrote, and what others added, but never forget. In `Authoring` and `LikeToggle`, about
  documents the device wrote itself or asks for again, an answer of the cache is one of an older
  view of the server.
- A kill while rows are being deleted, or in the feed: it loses reads, as in `Authoring`.
- Favorite and Comment documents under a cancelled draft, which others may have stored since the
  feed shows drafts: the cancel purges them with the same code as Route, the one `CancelSave`
  models.
- In the write path: disabling the network, which the app never asks for; malformed answers of the
  server; transforms, overlays and the content of mutations. A refusal whose report is lost with the
  stream counts as one that did not happen: the write is sent again.
- The watch path of Firestore (targets, resume tokens, limbo documents, garbage collection): the
  screens see it as a local view refreshed at any time.
- Firestore's security rules, which are not in the repository. A write the server refuses is
  modelled where the code reacts to it (signup, deletion of a row, the write path).
- `ContentRouteViewController` and `MapViewController`, which nothing opens; maps, images, layout,
  keyboard, wording.
- The rest of `Pods` - gRPC, BoringSSL, leveldb, nanopb, Abseil, about 560 000 lines of C and C++ -
  is other people's general-purpose code with no logic of this system. The maps therefore cover most
  of the app's Swift files with state and the write path of the client, and a small share of the
  repository's lines.
