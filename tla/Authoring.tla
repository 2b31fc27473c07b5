------------------------------ MODULE Authoring ------------------------------
(***************************************************************************)
(* The route wizard: TitleViewController creates a Content document,       *)
(* SearchViewController looks its name up and stores title and memo,       *)
(* AddRouteViewController looks it up again, takes the dates and shows the *)
(* places by day, RouteListViewController stores city and picture, and     *)
(* DetailTourViewController adds a place to the Route subcollection.       *)
(*                                                                         *)
(* Every read of Firestore is answered later, on the main queue, between   *)
(* two steps of the user.  A reply only touches the view controller that   *)
(* asked, so what a popped controller still waits for is dropped with it.  *)
(* Own writes are visible to own reads at once (latency compensation): the *)
(* collections below are this device's view of the database.               *)
(***************************************************************************)
EXTENDS Integers

CONSTANTS
    Drafts,     \* names of Content documents
    Texts,      \* what can be typed as title and memo
    Cities,     \* rows of the city list (collection tour2)
    Tours,      \* rows of the place list (collection tour)
    PlaceIds,   \* names of Route documents
    Dates,      \* instants the date picker can yield, in seconds
    Rows,       \* days whose table section the user may tap
    Faults,     \* which of "kill" and "readError" the environment commits
    Nil         \* the empty string, a missing value

ASSUME ConstantsAssumption ==
    /\ Nil \notin Drafts \cup Texts \cup Cities \cup Tours \cup Dates \cup Rows
    /\ Dates \subseteq Int
    /\ Rows \subseteq Nat
    /\ Faults \subseteq {"kill", "readError"}

VARIABLES
    app,        \* "running", or why the process is gone
    screen,     \* the view controller on top of the navigation stack
    appearing,  \* its transition is running: viewDidAppear is still to come
    docs,       \* the collection Content
    routes,     \* the subcollection Route of each Content document
    purging,    \* drafts whose Route documents a cancel is about to delete
    createId,   \* TitleViewController.createId
    search,     \* the fields of SearchViewController
    add,        \* the fields of AddRouteViewController
    visit,      \* the fields of RouteListViewController and DetailTour...
    defaults    \* UserDefaults, which outlives the process

vars == <<app, screen, appearing, docs, routes, purging, createId,
          search, add, visit, defaults>>

-----------------------------------------------------------------------------

Place == [id: PlaceIds, day: Rows, tour: Tours \cup {Nil}]

Content == [status: {"unused", "live", "deleted"}, title: Texts \cup {Nil},
            location: Cities \cup {Nil}, image: Tours \cup {Nil}]

Search == [createId: Drafts \cup {Nil}, text: Texts \cup {Nil},
           id: Drafts \cup {Nil}]

AddRoute == [location: Cities \cup {Nil}, newDocumentId: Drafts \cup {Nil},
             asked: BOOLEAN, listening: BOOLEAN, sections: SUBSET Place,
             endPicked: BOOLEAN, tableShown: BOOLEAN]

Visit == [documentId: Drafts \cup {Nil}, section: Rows \cup {Nil},
          tour: Tours \cup {Nil}, loaded: BOOLEAN]

Defaults == [firstDate: Dates \cup {Nil}, lastDate: Dates \cup {Nil}, days: Int]

Screens == {"list", "title", "search", "addRoute", "routeList", "detail"}

AppStates == {"running", "killed", "emptyPath", "noStartDate", "nilSnapshot"}

TypeOK ==
    /\ app \in AppStates
    /\ screen \in Screens
    /\ appearing \in BOOLEAN
    /\ docs \in [Drafts -> Content]
    /\ routes \in [Drafts -> SUBSET Place]
    /\ purging \subseteq Drafts
    /\ createId \in Drafts \cup {Nil}
    /\ search \in Search
    /\ add \in AddRoute
    /\ visit \in Visit
    /\ defaults \in Defaults

-----------------------------------------------------------------------------
(* View controllers as they are instantiated.                              *)

NoSearch == [createId |-> Nil, text |-> Nil, id |-> Nil]

NoAddRoute == [location |-> Nil, newDocumentId |-> Nil, asked |-> FALSE,
               listening |-> FALSE, sections |-> {},
               endPicked |-> FALSE, tableShown |-> FALSE]

NoVisit == [documentId |-> Nil, section |-> Nil, tour |-> Nil, loaded |-> FALSE]

Init ==
    /\ app = "running"
    /\ screen = "list"
    /\ appearing = FALSE
    /\ docs = [d \in Drafts |-> [status |-> "unused", title |-> Nil,
                                 location |-> Nil, image |-> Nil]]
    /\ routes = [d \in Drafts |-> {}]
    /\ purging = {}
    /\ createId = Nil
    /\ search = NoSearch
    /\ add = NoAddRoute
    /\ visit = NoVisit
    /\ defaults = [firstDate |-> Nil, lastDate |-> Nil, days |-> 0]

\* The user can act on screen s: the app runs and no transition is running.
At(s) == app = "running" /\ screen = s /\ ~appearing

\* A Swift trap or an Objective-C exception ends the process.
Crash(cause) ==
    /\ app' = cause
    /\ UNCHANGED <<screen, appearing, docs, routes, purging, createId,
                   search, add, visit, defaults>>

Live(d) == d # Nil /\ docs[d].status = "live"

\* updateData fails on a document that is gone.
updateData(d, updated) == IF Live(d) THEN updated ELSE docs

-----------------------------------------------------------------------------
(* TitleViewController                                                     *)

\* "+" on the route list; viewDidLoad stores a blank document at once.
NewRoute ==
    /\ At("list")
    /\ \E d \in Drafts :
          /\ docs[d].status = "unused"
          /\ docs' = [docs EXCEPT ![d].status = "live"]
          /\ createId' = d
    /\ screen' = "title"
    /\ UNCHANGED <<app, appearing, routes, purging, search, add, visit, defaults>>

\* prepare(for:) returns early on an empty form and the segue goes on without
\* the values it would have passed.
Next(text) ==
    /\ At("title")
    /\ search' = IF text = Nil THEN NoSearch
                 ELSE [createId |-> createId, text |-> text, id |-> Nil]
    /\ screen' = "search"
    /\ appearing' = TRUE
    /\ UNCHANGED <<app, docs, routes, purging, createId, add, visit, defaults>>

-----------------------------------------------------------------------------
(* SearchViewController                                                    *)

\* It stays on the stack, listening, until the user is back at the title.
SearchAlive == app = "running" /\ screen \in {"search", "addRoute", "routeList", "detail"}

SearchSnapshot ==
    /\ SearchAlive
    /\ Live(search.createId)
    /\ search.id # search.createId
    /\ search' = [search EXCEPT !.id = search.createId]
    /\ UNCHANGED <<app, screen, appearing, docs, routes, purging, createId,
                   add, visit, defaults>>

\* The closure unwraps the snapshot without looking at the error.
SearchSnapshotError ==
    /\ "readError" \in Faults
    /\ SearchAlive
    /\ Crash("nilSnapshot")

\* Mutant: only a blank title is filled in.
updateTitleOnce(d) == IF docs[d].title = Nil
                      THEN [docs EXCEPT ![d].title = search.text] ELSE docs

updateTitle(d) == [docs EXCEPT ![d].title = search.text]

\* viewDidAppear: Firestore refuses an empty document path.
SearchAppeared ==
    /\ app = "running" /\ screen = "search" /\ appearing
    /\ \/ search.id = Nil /\ Crash("emptyPath")
       \/ /\ search.id # Nil
          /\ docs' = updateData(search.id, updateTitle(search.id))
          /\ appearing' = FALSE
          /\ UNCHANGED <<app, screen, routes, purging, createId, search, add,
                         visit, defaults>>

PickCity(city) ==
    /\ At("search")
    /\ add' = [NoAddRoute EXCEPT !.location = city, !.asked = TRUE]
    /\ screen' = "addRoute"
    /\ appearing' = TRUE
    /\ UNCHANGED <<app, docs, routes, purging, createId, search, visit, defaults>>

-----------------------------------------------------------------------------
(* AddRouteViewController                                                  *)

AddRouteAlive == app = "running" /\ screen \in {"addRoute", "routeList", "detail"}

\* Mutant: the query of updateRouteDocument without its whereField.
RouteDocReplyAny ==
    /\ AddRouteAlive
    /\ add.asked
    /\ \E d \in {e \in Drafts : Live(e)} :
          add' = [add EXCEPT !.asked = FALSE, !.newDocumentId = d]
    /\ UNCHANGED <<app, screen, appearing, docs, routes, purging, createId,
                   search, visit, defaults>>

\* The answer to updateRouteDocument, asked for in viewWillAppear.
RouteDocReply ==
    /\ AddRouteAlive
    /\ add.asked
    /\ add' = [add EXCEPT !.asked = FALSE,
                          !.newDocumentId = IF Live(search.createId)
                                              THEN search.createId ELSE @]
    /\ UNCHANGED <<app, screen, appearing, docs, routes, purging, createId,
                   search, visit, defaults>>

RouteDocError ==
    /\ "readError" \in Faults
    /\ AddRouteAlive
    /\ add.asked
    /\ add' = [add EXCEPT !.asked = FALSE]
    /\ UNCHANGED <<app, screen, appearing, docs, routes, purging, createId,
                   search, visit, defaults>>

\* viewDidAppear: getRouteData(newDocumentId) adds a listener.
AddRouteAppeared ==
    /\ app = "running" /\ screen = "addRoute" /\ appearing
    /\ \/ add.newDocumentId = Nil /\ Crash("emptyPath")
       \/ /\ add.newDocumentId # Nil
          /\ add' = [add EXCEPT !.listening = TRUE]
          /\ appearing' = FALSE
          /\ UNCHANGED <<app, screen, docs, routes, purging, createId, search,
                         visit, defaults>>

\* section0 .. section4 collect every place a snapshot ever held; a place of a
\* later day has no section.
Sectioned(places) == {p \in places : p.day < 5}

\* Mutant: the places are read once instead of listened to.
UnshownOnce == IF add.sections = {} THEN Sectioned(routes[add.newDocumentId]) ELSE {}

Unshown == Sectioned(routes[add.newDocumentId]) \ add.sections

RoutesSnapshot ==
    /\ AddRouteAlive
    /\ add.listening
    /\ Unshown # {}
    /\ add' = [add EXCEPT !.sections = @ \cup Unshown]
    /\ UNCHANGED <<app, screen, appearing, docs, routes, purging, createId,
                   search, visit, defaults>>

RoutesError ==
    /\ "readError" \in Faults
    /\ AddRouteAlive
    /\ add.listening
    /\ add' = [add EXCEPT !.listening = FALSE]
    /\ UNCHANGED <<app, screen, appearing, docs, routes, purging, createId,
                   search, visit, defaults>>

\* doneClick
PickStart(date) ==
    /\ At("addRoute")
    /\ defaults' = [defaults EXCEPT !.firstDate = date]
    /\ UNCHANGED <<app, screen, appearing, docs, routes, purging, createId,
                   search, add, visit>>

\* finishDoneClick: the end date alone uncovers the confirm and save buttons.
PickFinish(date) ==
    /\ At("addRoute")
    /\ defaults' = [defaults EXCEPT !.lastDate = date]
    /\ add' = [add EXCEPT !.endPicked = TRUE]
    /\ UNCHANGED <<app, screen, appearing, docs, routes, purging, createId,
                   search, visit>>

\* Int(_: Double) drops the fraction towards zero.
Truncated(a, b) == IF a >= 0 THEN a \div b ELSE -((-a) \div b)

TripDays(first, last) == Truncated(last - first, 86399) + 1

calTime ==
    /\ At("addRoute")
    /\ add.endPicked
    /\ \/ defaults.firstDate = Nil /\ Crash("noStartDate")
       \/ /\ defaults.firstDate # Nil
          /\ defaults' = [defaults EXCEPT
                          !.days = TripDays(defaults.firstDate, defaults.lastDate)]
          /\ add' = [add EXCEPT !.tableShown = TRUE]
          /\ UNCHANGED <<app, screen, appearing, docs, routes, purging, createId,
                         search, visit>>

\* Mutant: the first place of any section.
MainImagesAnyDay ==
    IF add.sections = {} THEN {Nil} ELSE {p.tour : p \in add.sections}

\* section0[0].imageAddress; Array(Set(..)) leaves open which place is first.
MainImages ==
    LET first == {p \in add.sections : p.day = 0}
    IN  IF first = {} THEN {Nil} ELSE {p.tour : p \in first}

\* Mutant: the fields stay as they are.
changeNoField(d, image) == docs

changeContentField(d, image) ==
    [docs EXCEPT ![d].location = add.location, ![d].image = image]

\* Mutant: the tapped section is not handed over.
VisitNoDay(day) == [NoVisit EXCEPT !.documentId = add.newDocumentId]

VisitOf(day) == [NoVisit EXCEPT !.documentId = add.newDocumentId, !.section = day]

\* A tap on a row of a day: prepare(for:), then viewDidLoad of the place list.
PickRow(day) ==
    /\ At("addRoute")
    /\ add.tableShown
    /\ day < defaults.days
    /\ \E image \in MainImages :
          docs' = updateData(add.newDocumentId,
                             changeContentField(add.newDocumentId, image))
    /\ visit' = VisitOf(day)
    /\ screen' = "routeList"
    /\ UNCHANGED <<app, appearing, routes, purging, createId, search, add, defaults>>

\* Both buttons of saveClick pop to the tab bar and release the controllers.
LeaveWizard ==
    /\ screen' = "list"
    /\ createId' = Nil
    /\ search' = NoSearch
    /\ add' = NoAddRoute
    /\ visit' = NoVisit
    /\ UNCHANGED <<app, appearing, routes, defaults>>

Save ==
    /\ At("addRoute")
    /\ add.endPicked
    /\ LeaveWizard
    /\ UNCHANGED <<docs, purging>>

\* Mutant: the screen stays after the deletion.
CancelSaveStays ==
    /\ At("addRoute")
    /\ add.endPicked
    /\ docs' = [docs EXCEPT ![add.newDocumentId].status = "deleted"]
    /\ purging' = purging \cup {add.newDocumentId}
    /\ UNCHANGED <<app, screen, appearing, routes, createId, search, add, visit,
                   defaults>>

\* Mutant: only the document is deleted.
CancelSaveDocument ==
    /\ At("addRoute")
    /\ add.endPicked
    /\ docs' = [docs EXCEPT ![add.newDocumentId].status = "deleted"]
    /\ LeaveWizard
    /\ UNCHANGED purging

\* The document goes at once, its Route documents when the read of them answers.
CancelSave ==
    /\ At("addRoute")
    /\ add.endPicked
    /\ docs' = [docs EXCEPT ![add.newDocumentId].status = "deleted"]
    /\ purging' = purging \cup {add.newDocumentId}
    /\ LeaveWizard

\* Mutant: only one of the documents read is deleted.
PurgeOne(d) ==
    /\ app = "running"
    /\ d \in purging
    /\ routes' = [routes EXCEPT ![d] = IF @ = {} THEN {} ELSE @ \ {CHOOSE p \in @ : TRUE}]
    /\ purging' = purging \ {d}
    /\ UNCHANGED <<app, screen, appearing, docs, createId, search, add, visit, defaults>>

PurgeReply(d) ==
    /\ app = "running"
    /\ d \in purging
    /\ routes' = [routes EXCEPT ![d] = {}]
    /\ purging' = purging \ {d}
    /\ UNCHANGED <<app, screen, appearing, docs, createId, search, add, visit, defaults>>

\* snapshot?.documents is nil: nothing is deleted.
PurgeError(d) ==
    /\ "readError" \in Faults
    /\ app = "running"
    /\ d \in purging
    /\ purging' = purging \ {d}
    /\ UNCHANGED <<app, screen, appearing, docs, routes, createId, search, add,
                   visit, defaults>>

-----------------------------------------------------------------------------
(* RouteListViewController and DetailTourViewController                    *)

PickTour(tour) ==
    /\ At("routeList")
    /\ visit' = [visit EXCEPT !.tour = tour, !.loaded = FALSE]
    /\ screen' = "detail"
    /\ UNCHANGED <<app, appearing, docs, routes, purging, createId, search, add, defaults>>

DetailReply ==
    /\ At("detail")
    /\ ~visit.loaded
    /\ visit' = [visit EXCEPT !.loaded = TRUE]
    /\ UNCHANGED <<app, screen, appearing, docs, routes, purging, createId,
                   search, add, defaults>>

\* addClick stores what the labels hold now and pops to AddRouteViewController,
\* whose viewWillAppear asks for its document again.
AddPlace ==
    /\ At("detail")
    /\ \E id \in PlaceIds :
          /\ \A d \in Drafts : \A p \in routes[d] : p.id # id
          /\ routes' = [routes EXCEPT ![visit.documentId] = @ \cup
                {[id |-> id, day |-> visit.section,
                  tour |-> IF visit.loaded THEN visit.tour ELSE Nil]}]
    /\ visit' = NoVisit
    /\ add' = [add EXCEPT !.asked = TRUE]
    /\ screen' = "addRoute"
    /\ appearing' = TRUE
    /\ UNCHANGED <<app, docs, purging, createId, search, defaults>>

-----------------------------------------------------------------------------
(* The back button of each screen, and the end of the process.             *)

BackFromTitle ==
    /\ At("title")
    /\ screen' = "list"
    /\ createId' = Nil
    /\ UNCHANGED <<app, appearing, docs, routes, purging, search, add, visit, defaults>>

BackFromSearch ==
    /\ At("search")
    /\ screen' = "title"
    /\ search' = NoSearch
    /\ UNCHANGED <<app, appearing, docs, routes, purging, createId, add, visit, defaults>>

BackFromAddRoute ==
    /\ At("addRoute")
    /\ screen' = "search"
    /\ appearing' = TRUE
    /\ add' = NoAddRoute
    /\ UNCHANGED <<app, docs, routes, purging, createId, search, visit, defaults>>

BackFromRouteList ==
    /\ At("routeList")
    /\ screen' = "addRoute"
    /\ appearing' = TRUE
    /\ add' = [add EXCEPT !.asked = TRUE]
    /\ visit' = NoVisit
    /\ UNCHANGED <<app, docs, routes, purging, createId, search, defaults>>

BackFromDetail ==
    /\ At("detail")
    /\ screen' = "routeList"
    /\ visit' = [visit EXCEPT !.tour = Nil, !.loaded = FALSE]
    /\ UNCHANGED <<app, appearing, docs, routes, purging, createId, search, add, defaults>>

Kill ==
    /\ "kill" \in Faults
    /\ app = "running"
    /\ Crash("killed")

\* Firestore's cache and UserDefaults survive; requests in flight do not.
Relaunch ==
    /\ "kill" \in Faults
    /\ app # "running"
    /\ app' = "running"
    /\ screen' = "list"
    /\ appearing' = FALSE
    /\ purging' = {}
    /\ createId' = Nil
    /\ search' = NoSearch
    /\ add' = NoAddRoute
    /\ visit' = NoVisit
    /\ UNCHANGED <<docs, routes, defaults>>

-----------------------------------------------------------------------------

User ==
    \/ NewRoute
    \/ \E text \in Texts \cup {Nil} : Next(text)
    \/ \E city \in Cities : PickCity(city)
    \/ \E date \in Dates : PickStart(date) \/ PickFinish(date)
    \/ calTime
    \/ \E day \in Rows : PickRow(day)
    \/ Save
    \/ CancelSave
    \/ \E tour \in Tours : PickTour(tour)
    \/ AddPlace
    \/ BackFromTitle
    \/ BackFromSearch
    \/ BackFromAddRoute
    \/ BackFromRouteList
    \/ BackFromDetail

Replies ==
    \/ SearchSnapshot
    \/ SearchAppeared
    \/ RouteDocReply
    \/ AddRouteAppeared
    \/ RoutesSnapshot
    \/ DetailReply
    \/ \E d \in Drafts : PurgeReply(d)

Failures ==
    \/ SearchSnapshotError
    \/ RouteDocError
    \/ RoutesError
    \/ \E d \in Drafts : PurgeError(d)
    \/ Kill
    \/ Relaunch

Step == User \/ Replies \/ Failures

\* Nothing makes the user act.  Transitions end, and Firestore answers every
\* request, from its cache when there is no network.
Fairness ==
    /\ WF_vars(SearchSnapshot) /\ WF_vars(SearchAppeared)
    /\ WF_vars(RouteDocReply) /\ WF_vars(AddRouteAppeared)
    /\ WF_vars(RoutesSnapshot)
    /\ \A d \in Drafts : WF_vars(PurgeReply(d))

Spec == Init /\ [][Step]_vars

FairSpec == Spec /\ Fairness

-----------------------------------------------------------------------------
(* Safety                                                                  *)

AddRouteScreens == {"addRoute", "routeList", "detail"}

\* The save button is only ever reached by a draft that carries the title typed
\* in this pass of the wizard, although it is written by the fire-and-forget
\* updateData of SearchViewController and addressed by an asynchronous lookup.
SaveableIsTitled ==
    screen \in AddRouteScreens =>
        search.text # Nil /\ docs[createId].title = search.text

\* What the day sections show is stored under the draft being edited: replies
\* accumulate in tmp0 .. tmp4 and never mix two drafts.
ShownPlacesAreStored ==
    \A p \in add.sections :
        add.newDocumentId # Nil /\ p \in routes[add.newDocumentId] /\ p.day < 5

\* A stored route with places names its city: RouteListViewController writes the
\* city before DetailTourViewController can add a place.
PlacesHaveLocation ==
    \A d \in Drafts :
        docs[d].status = "live" /\ routes[d] # {} => docs[d].location # Nil

\* The picture of a stored route is the picture of one of its day-1 places.
ImageFromFirstDay ==
    \A d \in Drafts :
        docs[d].status = "live" /\ docs[d].image # Nil =>
            \E p \in routes[d] : p.day = 0 /\ p.tour = docs[d].image

\* Cancelling leaves no Route documents behind unless their deletion is still on
\* its way (as long as the process lives and reads do not fail).
CancelledIsPurged ==
    Faults = {} =>
        \A d \in Drafts :
            docs[d].status = "deleted" /\ routes[d] # {} => d \in purging

\* A step writes to no draft but the one this pass of the wizard created: the
\* document name handed from controller to controller, each looking it up
\* again, never becomes another draft's.
WizardWritesOwnDraft ==
    [][\A d \in Drafts :
          docs'[d] # docs[d] \/ ~(routes'[d] \subseteq routes[d]) =>
              d \in {createId, createId'}]_vars

\* A cancelled draft is never written again: no late updateData brings it back
\* and no place is added under it.
DeletedStaysDeleted ==
    [][\A d \in Drafts :
          docs[d].status = "deleted" =>
              docs'[d] = docs[d] /\ routes'[d] \subseteq routes[d]]_vars

-----------------------------------------------------------------------------
(* Liveness                                                                *)

\* A cancelled draft's places are eventually gone.
CancelCompletes ==
    \A d \in Drafts :
        docs[d].status = "deleted" ~> (routes[d] = {} \/ app # "running")

\* A place of the first five days shows up in its section, if the user stays.
StoredPlaceShown ==
    \A d \in Drafts :
        (screen = "addRoute" /\ createId = d /\ Sectioned(routes[d]) # {}) ~>
            (\/ createId = d /\ Sectioned(routes[d]) \subseteq add.sections
             \/ screen \notin AddRouteScreens
             \/ app # "running")

-----------------------------------------------------------------------------
(* The inductive invariant behind the safety properties.                   *)

\* Every document name a controller holds is the draft this pass created.
OwnDraft ==
    /\ createId # Nil => docs[createId].status = "live"
    /\ search.createId \in {createId, Nil}
    /\ search.id \in {search.createId, Nil}
    /\ add.newDocumentId \in {search.createId, Nil}
    /\ visit.documentId \in {add.newDocumentId, Nil}

\* Which controllers exist, and what has been answered, on each screen.
Stack ==
    /\ screen # "list" <=> createId # Nil
    /\ screen \in {"list", "title"} => search = NoSearch
    /\ screen \notin AddRouteScreens => add = NoAddRoute
    /\ appearing => screen \in {"search", "addRoute"}
    /\ screen \in AddRouteScreens \/ (screen = "search" /\ ~appearing) => search.id # Nil
    /\ screen \in AddRouteScreens /\ ~appearing => add.newDocumentId # Nil
    /\ add.listening => add.newDocumentId # Nil
    /\ add.endPicked => defaults.lastDate # Nil
    /\ screen \in {"routeList", "detail"} <=> visit.documentId # Nil
    /\ visit.documentId # Nil => visit.section # Nil

\* The title is written once its document is known.
Titled ==
    /\ search.createId # Nil => search.text # Nil
    /\ screen \in AddRouteScreens \/ (screen = "search" /\ ~appearing) =>
          docs[createId].title = search.text

\* The city is written before the place list opens, and so before any place.
Located ==
    /\ PlacesHaveLocation
    /\ screen \in AddRouteScreens => add.location # Nil
    /\ screen \in {"routeList", "detail"} => docs[createId].location # Nil

\* A name that was never used has nothing stored under it.
Untouched ==
    \A d \in Drafts :
        docs[d].status = "unused" => routes[d] = {} /\ docs[d].image = Nil

\* Only cancelled drafts are purged.
PurgingIsDeleted == \A d \in purging : docs[d].status = "deleted"

IInv ==
    /\ TypeOK
    /\ OwnDraft
    /\ Stack
    /\ Titled
    /\ Located
    /\ Untouched
    /\ ShownPlacesAreStored
    /\ ImageFromFirstDay
    /\ PurgingIsDeleted
    /\ CancelledIsPurged

=============================================================================
