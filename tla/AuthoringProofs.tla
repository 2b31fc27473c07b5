--------------------------- MODULE AuthoringProofs ---------------------------
(***************************************************************************)
(* Proofs about the route wizard, for any number of drafts, places, texts  *)
(* and dates.  IInv is inductive: one lemma per action, one step per part  *)
(* of the invariant.                                                       *)
(***************************************************************************)
EXTENDS Authoring, TLAPS

\* The initial state, with no document used, satisfies the invariant.
LEMMA InitInv == ASSUME Init PROVE IInv
<1>1. \A d \in Drafts : /\ docs[d].status = "unused" /\ docs[d].image = Nil
                        /\ routes[d] = {}
  BY DEF Init
<1>2. TypeOK
  <2>1. docs \in [Drafts -> Content] /\ routes \in [Drafts -> SUBSET Place]
    BY DEF Init, Content
  <2>2. search \in Search /\ add \in AddRoute
    BY DEF Init, Search, NoSearch, AddRoute, NoAddRoute
  <2>3. visit \in Visit /\ defaults \in Defaults
    BY DEF Init, Visit, NoVisit, Defaults
  <2> QED BY <2>1, <2>2, <2>3 DEF Init, TypeOK, Screens, AppStates
<1>3. OwnDraft
  BY DEF Init, OwnDraft, NoSearch, NoAddRoute, NoVisit
<1>4. Stack
  BY DEF Init, Stack, AddRouteScreens, NoAddRoute, NoVisit
<1>5. Titled
  BY DEF Init, Titled, AddRouteScreens, NoSearch
<1>6. Located
  BY <1>1 DEF Init, Located, PlacesHaveLocation, AddRouteScreens
<1>7. Untouched /\ ImageFromFirstDay /\ CancelledIsPurged
  BY <1>1 DEF Untouched, ImageFromFirstDay, CancelledIsPurged
<1>8. ShownPlacesAreStored /\ PurgingIsDeleted
  BY DEF Init, ShownPlacesAreStored, PurgingIsDeleted, NoAddRoute
<1> QED BY <1>2, <1>3, <1>4, <1>5, <1>6, <1>7, <1>8 DEF IInv

\* The invariant speaks of the state and not of the process: it survives a step
\* that leaves everything but app alone.
LEMMA CrashInv ==
  ASSUME IInv, app' \in AppStates,
         UNCHANGED <<screen, appearing, docs, routes, purging, createId, search,
                     add, visit, defaults>>
  PROVE  IInv'
  BY DEF IInv, TypeOK, OwnDraft, Stack, Titled, Located, PlacesHaveLocation,
         Untouched, ShownPlacesAreStored, ImageFromFirstDay, PurgingIsDeleted,
         CancelledIsPurged

\* A new route takes a name nothing was ever stored under.
LEMMA NewRouteInv ==
  ASSUME IInv, NewRoute
  PROVE  IInv'
<1>pick. PICK d \in Drafts : docs[d].status = "unused" /\ createId' = d
         /\ docs' = [docs EXCEPT ![d].status = "live"]
  BY DEF NewRoute
<1>a. d # Nil /\ createId = Nil /\ search = NoSearch /\ add = NoAddRoute
  BY <1>pick, ConstantsAssumption DEF IInv, Stack, AddRouteScreens, At,
          NewRoute
<1>b. docs[d] \in Content /\ docs'[d] = [docs[d] EXCEPT !.status = "live"]
  BY <1>pick DEF IInv, TypeOK
<1>c. \A e \in Drafts : e # d => docs'[e] = docs[e]
  BY <1>pick DEF IInv, TypeOK
<1>d. /\ docs'[d].status = "live" /\ docs'[d].location = docs[d].location
      /\ docs'[d].image = docs[d].image /\ routes[d] = {} /\ docs[d].image = Nil
  BY <1>pick, <1>b DEF IInv, Untouched, Content
<1>1. TypeOK'
  <2>1. docs' \in [Drafts -> Content]
    BY <1>pick, <1>b DEF IInv, TypeOK, Content
  <2> QED BY <2>1 DEF IInv, TypeOK, Screens, AppStates, NewRoute
<1>2. OwnDraft'
  BY <1>pick, <1>a, <1>d DEF IInv, OwnDraft, NoSearch, NoAddRoute, NewRoute
<1>3. Stack'
  BY <1>pick, <1>a DEF IInv, Stack, AddRouteScreens, NoAddRoute, At, NewRoute
<1>4. Titled'
  BY <1>pick, <1>a DEF IInv, Titled, AddRouteScreens, NoSearch, At, NewRoute
<1>5. Located'
  BY <1>pick, <1>c, <1>d DEF IInv, Located, PlacesHaveLocation,
          AddRouteScreens, At, NewRoute
<1>6. Untouched'
  BY <1>c, <1>d DEF IInv, Untouched, NewRoute
<1>7. ShownPlacesAreStored'
  BY DEF IInv, ShownPlacesAreStored, NewRoute
<1>8. ImageFromFirstDay'
  BY <1>c, <1>d DEF IInv, ImageFromFirstDay, NewRoute
<1>9. PurgingIsDeleted'
  BY <1>pick, <1>c DEF IInv, TypeOK, PurgingIsDeleted, NewRoute
<1>10. CancelledIsPurged'
  BY <1>c, <1>d DEF IInv, CancelledIsPurged, NewRoute
<1> QED BY <1>1, <1>2, <1>3, <1>4, <1>5, <1>6, <1>7, <1>8, <1>9, <1>10 DEF
          IInv

\* SearchViewController gets the name of the draft, or nothing at all.
LEMMA NextTextInv ==
  ASSUME IInv, NEW text \in Texts \cup {Nil}, Next(text)
  PROVE  IInv'
<1>1. TypeOK'
  <2>1. search' \in Search
    BY ConstantsAssumption DEF IInv, TypeOK, Next, At, NoSearch, Search
  <2> QED BY <2>1 DEF IInv, TypeOK, Screens, AppStates, Next
<1>2. OwnDraft'
  BY ConstantsAssumption DEF IInv, OwnDraft, Stack, NoSearch, NoAddRoute,
          AddRouteScreens, At, Next
<1>3. Stack'
  BY DEF IInv, Stack, NoSearch, AddRouteScreens, NoAddRoute, Next, At
<1>4. Titled'
  BY DEF IInv, Titled, AddRouteScreens, Next, At, NoSearch
<1>5. Located'
  BY DEF IInv, Located, PlacesHaveLocation, AddRouteScreens, Next, At,
          NoSearch
<1>6. Untouched'
  BY DEF IInv, Untouched, Next
<1>7. ShownPlacesAreStored'
  BY DEF IInv, ShownPlacesAreStored, Next
<1>8. ImageFromFirstDay'
  BY DEF IInv, ImageFromFirstDay, Next
<1>9. PurgingIsDeleted'
  BY DEF IInv, PurgingIsDeleted, Next
<1>10. CancelledIsPurged'
  BY DEF IInv, CancelledIsPurged, Next
<1> QED BY <1>1, <1>2, <1>3, <1>4, <1>5, <1>6, <1>7, <1>8, <1>9, <1>10 DEF
          IInv

\* The listener of SearchViewController finds the draft it was given.
LEMMA SearchSnapshotInv ==
  ASSUME IInv, SearchSnapshot
  PROVE  IInv'
<1>1. TypeOK'
  <2>1. search' \in Search
    BY ConstantsAssumption DEF IInv, TypeOK, SearchSnapshot, SearchAlive,
          Live, Search
  <2> QED BY <2>1 DEF IInv, TypeOK, Screens, AppStates, SearchSnapshot
<1>2. OwnDraft'
  BY DEF IInv, OwnDraft, SearchSnapshot
<1>3. Stack'
  BY DEF IInv, Stack, NoSearch, AddRouteScreens, NoAddRoute, SearchSnapshot,
          SearchAlive, Live
<1>4. Titled'
  BY DEF IInv, Titled, SearchSnapshot
<1>5. Located'
  BY DEF IInv, Located, PlacesHaveLocation, SearchSnapshot
<1>6. Untouched'
  BY DEF IInv, Untouched, SearchSnapshot
<1>7. ShownPlacesAreStored'
  BY DEF IInv, ShownPlacesAreStored, SearchSnapshot
<1>8. ImageFromFirstDay'
  BY DEF IInv, ImageFromFirstDay, SearchSnapshot
<1>9. PurgingIsDeleted'
  BY DEF IInv, PurgingIsDeleted, SearchSnapshot
<1>10. CancelledIsPurged'
  BY DEF IInv, CancelledIsPurged, SearchSnapshot
<1> QED BY <1>1, <1>2, <1>3, <1>4, <1>5, <1>6, <1>7, <1>8, <1>9, <1>10 DEF
          IInv

\* viewDidAppear stores the title under the draft, or asserts.
LEMMA SearchAppearedInv ==
  ASSUME IInv, SearchAppeared
  PROVE  IInv'
<1>1. CASE search.id = Nil
  BY <1>1, CrashInv DEF SearchAppeared, Crash, AppStates
<1>2. CASE search.id # Nil
  <2>a. /\ createId \in Drafts /\ createId # Nil /\ search.id = createId
        /\ search.createId = createId /\ docs[createId].status = "live"
    BY <1>2 DEF IInv, TypeOK, OwnDraft
  <2>b. docs' = [docs EXCEPT ![createId].title = search.text]
    BY <1>2, <2>a DEF SearchAppeared, updateData, updateTitle, Live
  <2>c. docs[createId] \in Content /\ docs'[createId] = [docs[createId] EXCEPT !.title = search.text]
    BY <2>a, <2>b DEF IInv, TypeOK
  <2>d. /\ docs'[createId].title = search.text
        /\ docs'[createId].status = docs[createId].status
        /\ docs'[createId].location = docs[createId].location
        /\ docs'[createId].image = docs[createId].image
    BY <2>c DEF Content
  <2>e. \A e \in Drafts : e # createId => docs'[e] = docs[e]
    BY <2>b DEF IInv, TypeOK
  <2>1. TypeOK'
    <3>1. docs' \in [Drafts -> Content]
      BY <2>a, <2>b, <2>c DEF IInv, TypeOK, Content, Search
    <3> QED BY <1>2, <3>1 DEF IInv, TypeOK, Screens, AppStates, SearchAppeared
  <2>2. OwnDraft'
    BY <1>2, <2>a, <2>d DEF IInv, OwnDraft, SearchAppeared
  <2>3. Stack'
    BY <1>2, <2>a DEF IInv, Stack, AddRouteScreens, SearchAppeared
  <2>4. Titled'
    BY <1>2, <2>d DEF IInv, Titled, AddRouteScreens, SearchAppeared
  <2>5. Located'
    BY <1>2, <2>d, <2>e DEF IInv, Located, PlacesHaveLocation,
          AddRouteScreens, SearchAppeared
  <2>6. Untouched'
    BY <1>2, <2>d, <2>e DEF IInv, Untouched, SearchAppeared
  <2>7. ShownPlacesAreStored'
    BY <1>2 DEF IInv, ShownPlacesAreStored, SearchAppeared
  <2>8. ImageFromFirstDay'
    BY <1>2, <2>d, <2>e DEF IInv, ImageFromFirstDay, SearchAppeared
  <2>9. PurgingIsDeleted'
    BY <1>2, <2>d, <2>e DEF IInv, TypeOK, PurgingIsDeleted, SearchAppeared
  <2>10. CancelledIsPurged'
    BY <1>2, <2>d, <2>e DEF IInv, CancelledIsPurged, SearchAppeared
  <2> QED BY <2>1, <2>2, <2>3, <2>4, <2>5, <2>6, <2>7, <2>8, <2>9, <2>10 DEF
          IInv
<1> QED BY <1>1, <1>2

\* A new AddRouteViewController knows its city and no document yet.
LEMMA PickCityInv ==
  ASSUME IInv, NEW city \in Cities, PickCity(city)
  PROVE  IInv'
<1>1. TypeOK'
  <2>1. add' \in AddRoute
    BY ConstantsAssumption DEF IInv, TypeOK, PickCity, At, NoAddRoute,
          AddRoute
  <2> QED BY <2>1 DEF IInv, TypeOK, Screens, AppStates, PickCity
<1>2. OwnDraft'
  BY ConstantsAssumption DEF IInv, OwnDraft, Stack, NoSearch, NoAddRoute,
          AddRouteScreens, At, PickCity
<1>3. Stack'
  BY DEF IInv, Stack, NoSearch, AddRouteScreens, NoAddRoute, PickCity, At
<1>4. Titled'
  BY DEF IInv, Titled, AddRouteScreens, PickCity, At, NoAddRoute
<1>5. Located'
  BY ConstantsAssumption DEF IInv, Located, PlacesHaveLocation,
          AddRouteScreens, PickCity, At, NoAddRoute, TypeOK, OwnDraft
<1>6. Untouched'
  BY DEF IInv, Untouched, PickCity
<1>7. ShownPlacesAreStored'
  BY DEF IInv, ShownPlacesAreStored, PickCity, At, NoAddRoute
<1>8. ImageFromFirstDay'
  BY DEF IInv, ImageFromFirstDay, PickCity
<1>9. PurgingIsDeleted'
  BY DEF IInv, PurgingIsDeleted, PickCity
<1>10. CancelledIsPurged'
  BY DEF IInv, CancelledIsPurged, PickCity
<1> QED BY <1>1, <1>2, <1>3, <1>4, <1>5, <1>6, <1>7, <1>8, <1>9, <1>10 DEF
          IInv

\* The answer names the draft again, which places may be shown of already.
LEMMA RouteDocReplyInv ==
  ASSUME IInv, RouteDocReply
  PROVE  IInv'
<1>1. TypeOK'
  <2>1. add' \in AddRoute
    BY ConstantsAssumption DEF IInv, TypeOK, OwnDraft, Stack, AddRouteScreens,
          RouteDocReply, AddRouteAlive, Live, Content, Place, Search,
          AddRoute, Visit, Defaults
  <2> QED BY <2>1 DEF IInv, TypeOK, Screens, AppStates, RouteDocReply
<1>2. OwnDraft'
  BY DEF IInv, OwnDraft, RouteDocReply
<1>3. Stack'
  BY DEF IInv, Stack, NoSearch, AddRouteScreens, NoAddRoute, RouteDocReply,
          AddRouteAlive, Live
<1>4. Titled'
  BY DEF IInv, Titled, RouteDocReply
<1>5. Located'
  BY DEF IInv, Located, PlacesHaveLocation, RouteDocReply
<1>6. Untouched'
  BY DEF IInv, Untouched, RouteDocReply
<1>7. ShownPlacesAreStored'
  BY ConstantsAssumption DEF IInv, ShownPlacesAreStored, RouteDocReply,
          AddRouteAlive, Live, TypeOK, OwnDraft
<1>8. ImageFromFirstDay'
  BY DEF IInv, ImageFromFirstDay, RouteDocReply
<1>9. PurgingIsDeleted'
  BY DEF IInv, PurgingIsDeleted, RouteDocReply
<1>10. CancelledIsPurged'
  BY DEF IInv, CancelledIsPurged, RouteDocReply
<1> QED BY <1>1, <1>2, <1>3, <1>4, <1>5, <1>6, <1>7, <1>8, <1>9, <1>10 DEF
          IInv

\* A failed lookup leaves the name as it was.
LEMMA RouteDocErrorInv ==
  ASSUME IInv, RouteDocError
  PROVE  IInv'
<1>1. TypeOK'
  <2>1. add' \in AddRoute
    BY ConstantsAssumption DEF IInv, TypeOK, RouteDocError, AddRouteAlive,
          AddRoute
  <2> QED BY <2>1 DEF IInv, TypeOK, Screens, AppStates, RouteDocError
<1>2. OwnDraft'
  BY DEF IInv, OwnDraft, RouteDocError
<1>3. Stack'
  BY DEF IInv, Stack, NoSearch, NoAddRoute, RouteDocError
<1>4. Titled'
  BY DEF IInv, Titled, RouteDocError
<1>5. Located'
  BY DEF IInv, Located, PlacesHaveLocation, RouteDocError
<1>6. Untouched'
  BY DEF IInv, Untouched, RouteDocError
<1>7. ShownPlacesAreStored'
  BY DEF IInv, ShownPlacesAreStored, RouteDocError
<1>8. ImageFromFirstDay'
  BY DEF IInv, ImageFromFirstDay, RouteDocError
<1>9. PurgingIsDeleted'
  BY DEF IInv, PurgingIsDeleted, RouteDocError
<1>10. CancelledIsPurged'
  BY DEF IInv, CancelledIsPurged, RouteDocError
<1> QED BY <1>1, <1>2, <1>3, <1>4, <1>5, <1>6, <1>7, <1>8, <1>9, <1>10 DEF
          IInv

\* viewDidAppear listens to the draft, or asserts.
LEMMA AddRouteAppearedInv ==
  ASSUME IInv, AddRouteAppeared
  PROVE  IInv'
<1>1. CASE add.newDocumentId = Nil
  BY <1>1, CrashInv DEF AddRouteAppeared, Crash, AppStates
<1>2. CASE add.newDocumentId # Nil
  <2>a. /\ add'.newDocumentId = add.newDocumentId /\ add'.location = add.location
        /\ add'.sections = add.sections /\ add'.endPicked = add.endPicked
    BY <1>2 DEF IInv, TypeOK, AddRoute, AddRouteAppeared
  <2>1. TypeOK'
    <3>1. add' \in AddRoute
      BY <1>2, ConstantsAssumption DEF IInv, TypeOK, AddRouteAppeared, Crash,
          AddRoute
    <3> QED BY <1>2, <3>1 DEF IInv, TypeOK, Screens, AppStates,
          AddRouteAppeared
  <2>2. OwnDraft'
    BY <1>2, <2>a DEF IInv, OwnDraft, AddRouteAppeared
  <2>3. Stack'
    BY <1>2, <2>a DEF IInv, Stack, AddRouteScreens, AddRouteAppeared
  <2>4. Titled'
    BY <1>2 DEF IInv, Titled, AddRouteAppeared
  <2>5. Located'
    BY <1>2, <2>a DEF IInv, Located, PlacesHaveLocation, AddRouteScreens, At,
          AddRouteAppeared
  <2>6. Untouched'
    BY <1>2 DEF IInv, Untouched, AddRouteAppeared
  <2>7. ShownPlacesAreStored'
    BY <1>2, <2>a DEF IInv, ShownPlacesAreStored, AddRouteAppeared
  <2>8. ImageFromFirstDay'
    BY <1>2 DEF IInv, ImageFromFirstDay, AddRouteAppeared
  <2>9. PurgingIsDeleted'
    BY <1>2 DEF IInv, PurgingIsDeleted, AddRouteAppeared
  <2>10. CancelledIsPurged'
    BY <1>2 DEF IInv, CancelledIsPurged, AddRouteAppeared
  <2> QED BY <2>1, <2>2, <2>3, <2>4, <2>5, <2>6, <2>7, <2>8, <2>9, <2>10 DEF
          IInv
<1> QED BY <1>1, <1>2

\* A snapshot adds places that are stored under the draft.
LEMMA RoutesSnapshotInv ==
  ASSUME IInv, RoutesSnapshot
  PROVE  IInv'
<1>a. add'.newDocumentId = add.newDocumentId /\ add'.sections = add.sections \cup Unshown
  BY DEF IInv, TypeOK, AddRoute, RoutesSnapshot
<1>1. TypeOK'
  <2>1. add' \in AddRoute
    BY ConstantsAssumption DEF IInv, TypeOK, OwnDraft, Stack, AddRouteScreens,
          RoutesSnapshot, AddRouteAlive, Unshown, Sectioned, Content, Place,
          Search, AddRoute, Visit, Defaults
  <2> QED BY <2>1 DEF IInv, TypeOK, Screens, AppStates, RoutesSnapshot
<1>2. OwnDraft'
  BY DEF IInv, OwnDraft, RoutesSnapshot
<1>3. Stack'
  BY DEF IInv, Stack, NoSearch, NoAddRoute, RoutesSnapshot
<1>4. Titled'
  BY DEF IInv, Titled, RoutesSnapshot
<1>5. Located'
  BY DEF IInv, Located, PlacesHaveLocation, RoutesSnapshot
<1>6. Untouched'
  BY DEF IInv, Untouched, RoutesSnapshot
<1>7. ShownPlacesAreStored'
  BY <1>a DEF IInv, Stack, ShownPlacesAreStored, Unshown, Sectioned,
          RoutesSnapshot
<1>8. ImageFromFirstDay'
  BY DEF IInv, ImageFromFirstDay, RoutesSnapshot
<1>9. PurgingIsDeleted'
  BY DEF IInv, PurgingIsDeleted, RoutesSnapshot
<1>10. CancelledIsPurged'
  BY DEF IInv, CancelledIsPurged, RoutesSnapshot
<1> QED BY <1>1, <1>2, <1>3, <1>4, <1>5, <1>6, <1>7, <1>8, <1>9, <1>10 DEF
          IInv

\* A failed listener shows no more places.
LEMMA RoutesErrorInv ==
  ASSUME IInv, RoutesError
  PROVE  IInv'
<1>1. TypeOK'
  <2>1. add' \in AddRoute
    BY ConstantsAssumption DEF IInv, TypeOK, RoutesError, AddRouteAlive,
          AddRoute
  <2> QED BY <2>1 DEF IInv, TypeOK, Screens, AppStates, RoutesError
<1>2. OwnDraft'
  BY DEF IInv, OwnDraft, RoutesError
<1>3. Stack'
  BY DEF IInv, Stack, NoSearch, NoAddRoute, RoutesError
<1>4. Titled'
  BY DEF IInv, Titled, RoutesError
<1>5. Located'
  BY DEF IInv, Located, PlacesHaveLocation, RoutesError
<1>6. Untouched'
  BY DEF IInv, Untouched, RoutesError
<1>7. ShownPlacesAreStored'
  BY DEF IInv, ShownPlacesAreStored, RoutesError
<1>8. ImageFromFirstDay'
  BY DEF IInv, ImageFromFirstDay, RoutesError
<1>9. PurgingIsDeleted'
  BY DEF IInv, PurgingIsDeleted, RoutesError
<1>10. CancelledIsPurged'
  BY DEF IInv, CancelledIsPurged, RoutesError
<1> QED BY <1>1, <1>2, <1>3, <1>4, <1>5, <1>6, <1>7, <1>8, <1>9, <1>10 DEF
          IInv

\* A start date is data of no other part.
LEMMA PickStartInv ==
  ASSUME IInv, NEW date \in Dates, PickStart(date)
  PROVE  IInv'
<1>1. TypeOK'
  <2>1. defaults' \in Defaults
    BY ConstantsAssumption DEF IInv, TypeOK, PickStart, At, Defaults
  <2> QED BY <2>1 DEF IInv, TypeOK, Screens, AppStates, PickStart
<1>2. OwnDraft'
  BY DEF IInv, OwnDraft, PickStart
<1>3. Stack'
  BY DEF IInv, Stack, NoSearch, NoAddRoute, PickStart
<1>4. Titled'
  BY DEF IInv, Titled, PickStart
<1>5. Located'
  BY DEF IInv, Located, PlacesHaveLocation, PickStart
<1>6. Untouched'
  BY DEF IInv, Untouched, PickStart
<1>7. ShownPlacesAreStored'
  BY DEF IInv, ShownPlacesAreStored, PickStart
<1>8. ImageFromFirstDay'
  BY DEF IInv, ImageFromFirstDay, PickStart
<1>9. PurgingIsDeleted'
  BY DEF IInv, PurgingIsDeleted, PickStart
<1>10. CancelledIsPurged'
  BY DEF IInv, CancelledIsPurged, PickStart
<1> QED BY <1>1, <1>2, <1>3, <1>4, <1>5, <1>6, <1>7, <1>8, <1>9, <1>10 DEF
          IInv

\* An end date comes with the buttons it uncovers.
LEMMA PickFinishInv ==
  ASSUME IInv, NEW date \in Dates, PickFinish(date)
  PROVE  IInv'
<1>1. TypeOK'
  <2>1. add' \in AddRoute
    BY ConstantsAssumption DEF IInv, TypeOK, PickFinish, At, AddRoute
  <2>2. defaults' \in Defaults
    BY ConstantsAssumption DEF IInv, TypeOK, PickFinish, At, Defaults
  <2> QED BY <2>1, <2>2 DEF IInv, TypeOK, Screens, AppStates, PickFinish
<1>2. OwnDraft'
  BY DEF IInv, OwnDraft, PickFinish
<1>3. Stack'
  BY ConstantsAssumption DEF IInv, Stack, NoSearch, AddRouteScreens,
          NoAddRoute, PickFinish, At, TypeOK, OwnDraft
<1>4. Titled'
  BY DEF IInv, Titled, PickFinish
<1>5. Located'
  BY DEF IInv, Located, PlacesHaveLocation, PickFinish
<1>6. Untouched'
  BY DEF IInv, Untouched, PickFinish
<1>7. ShownPlacesAreStored'
  BY DEF IInv, ShownPlacesAreStored, PickFinish
<1>8. ImageFromFirstDay'
  BY DEF IInv, ImageFromFirstDay, PickFinish
<1>9. PurgingIsDeleted'
  BY DEF IInv, PurgingIsDeleted, PickFinish
<1>10. CancelledIsPurged'
  BY DEF IInv, CancelledIsPurged, PickFinish
<1> QED BY <1>1, <1>2, <1>3, <1>4, <1>5, <1>6, <1>7, <1>8, <1>9, <1>10 DEF
          IInv

\* The number of days is computed from two dates, or the cast traps.
LEMMA calTimeInv ==
  ASSUME IInv, calTime
  PROVE  IInv'
<1>1. CASE defaults.firstDate = Nil
  BY <1>1, CrashInv DEF calTime, Crash, AppStates
<1>2. CASE defaults.firstDate # Nil
  <2>a. /\ add'.newDocumentId = add.newDocumentId /\ add'.location = add.location
        /\ add'.sections = add.sections /\ add'.endPicked = add.endPicked
    BY <1>2 DEF IInv, TypeOK, AddRoute, calTime
  <2>b. defaults'.lastDate = defaults.lastDate
    BY <1>2 DEF IInv, TypeOK, Defaults, calTime
  <2>c. screen = "addRoute" /\ screen' = screen /\ appearing' = appearing
    BY <1>2 DEF At, calTime
  <2>d. defaults.firstDate \in Int /\ defaults.lastDate \in Int
    BY <1>2, ConstantsAssumption DEF IInv, TypeOK, Stack, Defaults, calTime
  <2>e. add'.listening = add.listening
    BY <1>2 DEF IInv, TypeOK, AddRoute, calTime
  <2>1. TypeOK'
    <3>1. add' \in AddRoute
      BY <1>2 DEF IInv, TypeOK, AddRoute, calTime
    <3>2. defaults' \in Defaults
      BY <1>2, <2>d DEF IInv, TypeOK, Defaults, TripDays, Truncated, calTime
    <3> QED BY <1>2, <3>1, <3>2 DEF IInv, TypeOK, Screens, AppStates, calTime
  <2>2. OwnDraft'
    BY <1>2, <2>a DEF IInv, OwnDraft, calTime
  <2>3. Stack'
    BY <1>2, <2>a, <2>b, <2>c, <2>e DEF IInv, Stack, AddRouteScreens,
          NoSearch, At, calTime
  <2>4. Titled'
    BY <1>2 DEF IInv, Titled, calTime
  <2>5. Located'
    BY <1>2, <2>a DEF IInv, Located, PlacesHaveLocation, AddRouteScreens, At,
          calTime
  <2>6. Untouched'
    BY <1>2 DEF IInv, Untouched, calTime
  <2>7. ShownPlacesAreStored'
    BY <1>2, <2>a DEF IInv, ShownPlacesAreStored, calTime
  <2>8. ImageFromFirstDay'
    BY <1>2 DEF IInv, ImageFromFirstDay, calTime
  <2>9. PurgingIsDeleted'
    BY <1>2 DEF IInv, PurgingIsDeleted, calTime
  <2>10. CancelledIsPurged'
    BY <1>2 DEF IInv, CancelledIsPurged, calTime
  <2> QED BY <2>1, <2>2, <2>3, <2>4, <2>5, <2>6, <2>7, <2>8, <2>9, <2>10 DEF
          IInv
<1> QED BY <1>1, <1>2

\* A tapped day stores city and picture of the draft before the place list opens.
LEMMA PickRowInv ==
  ASSUME IInv, NEW day \in Rows, PickRow(day)
  PROVE  IInv'
<1>pick. PICK image \in MainImages :
         docs' = updateData(add.newDocumentId, changeContentField(add.newDocumentId, image))
  BY DEF PickRow
<1>a. /\ createId \in Drafts /\ add.newDocumentId = createId /\ createId # Nil
      /\ docs[createId].status = "live" /\ add.location # Nil
  BY DEF IInv, TypeOK, OwnDraft, Stack, Located, AddRouteScreens, At, PickRow
<1>b. docs' = [docs EXCEPT ![createId].location = add.location, ![createId].image = image]
  BY <1>pick, <1>a DEF updateData, changeContentField, Live
<1>c. /\ docs[createId] \in Content
      /\ docs'[createId] = [docs[createId] EXCEPT !.location = add.location, !.image = image]
  BY <1>a, <1>b DEF IInv, TypeOK
<1>d. /\ docs'[createId].title = docs[createId].title
      /\ docs'[createId].status = docs[createId].status
      /\ docs'[createId].location = add.location /\ docs'[createId].image = image
  BY <1>c DEF Content
<1>e. \A e \in Drafts : e # createId => docs'[e] = docs[e]
  BY <1>b DEF IInv, TypeOK
<1>f. image # Nil => \E p \in routes[createId] : p.day = 0 /\ p.tour = image
  BY <1>pick, <1>a DEF IInv, ShownPlacesAreStored, MainImages
<1>g. image \in Tours \cup {Nil}
  BY <1>pick, <1>a, <1>f DEF IInv, TypeOK, Place
<1>1. TypeOK'
  <2>1. docs' \in [Drafts -> Content]
    BY <1>a, <1>b, <1>c, <1>g DEF IInv, TypeOK, AddRoute, Content
  <2>2. visit' \in Visit
    BY <1>a, ConstantsAssumption DEF IInv, TypeOK, Visit, VisitOf, NoVisit,
          PickRow
  <2> QED BY <2>1, <2>2 DEF IInv, TypeOK, Screens, AppStates, PickRow
<1>2. OwnDraft'
  BY <1>a, <1>d DEF IInv, OwnDraft, VisitOf, NoVisit, PickRow
<1>3. Stack'
  BY <1>a, ConstantsAssumption DEF IInv, Stack, AddRouteScreens, VisitOf,
          NoVisit, At, PickRow
<1>4. Titled'
  BY <1>a, <1>d DEF IInv, Titled, AddRouteScreens, At, PickRow
<1>5. Located'
  BY <1>a, <1>d, <1>e DEF IInv, Located, PlacesHaveLocation, AddRouteScreens,
          At, PickRow
<1>6. Untouched'
  BY <1>a, <1>d, <1>e DEF IInv, Untouched, PickRow
<1>7. ShownPlacesAreStored'
  BY DEF IInv, ShownPlacesAreStored, PickRow
<1>8. ImageFromFirstDay'
  BY <1>d, <1>e, <1>f DEF IInv, ImageFromFirstDay, PickRow
<1>9. PurgingIsDeleted'
  BY <1>d, <1>e DEF IInv, TypeOK, PurgingIsDeleted, PickRow
<1>10. CancelledIsPurged'
  BY <1>d, <1>e DEF IInv, CancelledIsPurged, PickRow
<1> QED BY <1>1, <1>2, <1>3, <1>4, <1>5, <1>6, <1>7, <1>8, <1>9, <1>10 DEF
          IInv

\* Saving leaves the collections alone and releases the controllers.
LEMMA SaveInv ==
  ASSUME IInv, Save
  PROVE  IInv'
<1>1. TypeOK'
  <2>1. search' \in Search
    BY ConstantsAssumption DEF IInv, TypeOK, Save, At, LeaveWizard, NoSearch,
          NoAddRoute, NoVisit, Search
  <2>2. add' \in AddRoute
    BY ConstantsAssumption DEF IInv, TypeOK, Save, At, LeaveWizard, NoSearch,
          NoAddRoute, NoVisit, AddRoute
  <2>3. visit' \in Visit
    BY ConstantsAssumption DEF IInv, TypeOK, Save, At, LeaveWizard, NoSearch,
          NoAddRoute, NoVisit, Visit
  <2> QED BY <2>1, <2>2, <2>3 DEF IInv, TypeOK, Screens, AppStates, Save,
          LeaveWizard
<1>2. OwnDraft'
  BY DEF IInv, OwnDraft, Save, At, LeaveWizard, NoSearch, NoAddRoute, NoVisit
<1>3. Stack'
  BY DEF IInv, Stack, NoSearch, AddRouteScreens, NoAddRoute, Save, At,
          LeaveWizard, NoVisit
<1>4. Titled'
  BY DEF IInv, Titled, AddRouteScreens, Save, At, LeaveWizard, NoSearch,
          NoAddRoute, NoVisit
<1>5. Located'
  BY DEF IInv, Located, PlacesHaveLocation, AddRouteScreens, Save, At,
          LeaveWizard, NoSearch, NoAddRoute, NoVisit
<1>6. Untouched'
  BY DEF IInv, Untouched, Save, At, LeaveWizard, NoSearch, NoAddRoute, NoVisit
<1>7. ShownPlacesAreStored'
  BY DEF IInv, ShownPlacesAreStored, Save, At, LeaveWizard, NoSearch,
          NoAddRoute, NoVisit
<1>8. ImageFromFirstDay'
  BY DEF IInv, ImageFromFirstDay, Save, At, LeaveWizard, NoSearch, NoAddRoute,
          NoVisit
<1>9. PurgingIsDeleted'
  BY DEF IInv, PurgingIsDeleted, Save
<1>10. CancelledIsPurged'
  BY DEF IInv, CancelledIsPurged, Save, At, LeaveWizard, NoSearch, NoAddRoute,
          NoVisit
<1> QED BY <1>1, <1>2, <1>3, <1>4, <1>5, <1>6, <1>7, <1>8, <1>9, <1>10 DEF
          IInv

\* Cancelling deletes the draft and leaves its places to be purged.
LEMMA CancelSaveInv ==
  ASSUME IInv, CancelSave
  PROVE  IInv'
<1>a. /\ createId \in Drafts /\ add.newDocumentId = createId /\ createId # Nil
      /\ docs[createId].status = "live"
  BY DEF IInv, TypeOK, OwnDraft, Stack, AddRouteScreens, At, CancelSave
<1>b. docs[createId] \in Content /\ docs' = [docs EXCEPT ![createId].status = "deleted"]
  BY <1>a DEF IInv, TypeOK, CancelSave
<1>c. docs'[createId].status = "deleted"
  BY <1>a, <1>b DEF IInv, TypeOK, Content
<1>d. \A e \in Drafts : e # createId => docs'[e] = docs[e]
  BY <1>b DEF IInv, TypeOK
<1>1. TypeOK'
  <2>1. docs' \in [Drafts -> Content]
    BY <1>a, <1>b DEF IInv, TypeOK, Content
  <2>2. search' \in Search
    BY ConstantsAssumption DEF IInv, TypeOK, CancelSave, At, LeaveWizard,
          NoSearch, NoAddRoute, NoVisit, Search
  <2>3. add' \in AddRoute
    BY ConstantsAssumption DEF IInv, TypeOK, CancelSave, At, LeaveWizard,
          NoSearch, NoAddRoute, NoVisit, AddRoute
  <2>4. visit' \in Visit
    BY ConstantsAssumption DEF IInv, TypeOK, CancelSave, At, LeaveWizard,
          NoSearch, NoAddRoute, NoVisit, Visit
  <2> QED BY <2>1, <2>2, <2>3, <2>4 DEF IInv, TypeOK, Screens, AppStates,
          CancelSave, LeaveWizard
<1>2. OwnDraft'
  BY DEF IInv, OwnDraft, CancelSave, At, LeaveWizard, NoSearch, NoAddRoute,
          NoVisit
<1>3. Stack'
  BY DEF IInv, Stack, NoSearch, AddRouteScreens, NoAddRoute, CancelSave, At,
          LeaveWizard, NoVisit
<1>4. Titled'
  BY DEF IInv, Titled, AddRouteScreens, CancelSave, At, LeaveWizard, NoSearch,
          NoAddRoute, NoVisit
<1>5. Located'
  BY <1>a, <1>c, <1>d DEF IInv, Located, PlacesHaveLocation, AddRouteScreens,
          LeaveWizard, CancelSave
<1>6. Untouched'
  BY <1>a, <1>c, <1>d DEF IInv, Untouched, LeaveWizard, CancelSave
<1>7. ShownPlacesAreStored'
  BY DEF IInv, ShownPlacesAreStored, CancelSave, At, LeaveWizard, NoSearch,
          NoAddRoute, NoVisit
<1>8. ImageFromFirstDay'
  BY <1>a, <1>c, <1>d DEF IInv, ImageFromFirstDay, LeaveWizard, CancelSave
<1>9. PurgingIsDeleted'
  BY <1>a, <1>c, <1>d DEF IInv, TypeOK, PurgingIsDeleted, CancelSave
<1>10. CancelledIsPurged'
  BY <1>a, <1>c, <1>d DEF IInv, CancelledIsPurged, LeaveWizard, CancelSave
<1> QED BY <1>1, <1>2, <1>3, <1>4, <1>5, <1>6, <1>7, <1>8, <1>9, <1>10 DEF
          IInv

\* A purge empties a deleted draft, which is not the one on screen.
LEMMA PurgeReplyInv ==
  ASSUME IInv, NEW d \in Drafts, PurgeReply(d)
  PROVE  IInv'
<1>a. docs[d].status = "deleted"
  BY DEF IInv, PurgingIsDeleted, PurgeReply
<1>b. routes'[d] = {} /\ (\A e \in Drafts : e # d => routes'[e] = routes[e])
  BY DEF IInv, TypeOK, PurgeReply
<1>c. add.newDocumentId # Nil => add.newDocumentId \in Drafts /\ add.newDocumentId # d
  BY <1>a DEF IInv, TypeOK, OwnDraft, AddRoute, PurgeReply
<1>1. TypeOK'
  <2>1. routes' \in [Drafts -> SUBSET Place]
    BY ConstantsAssumption DEF IInv, TypeOK, Content, Place, PurgeReply
  <2> QED BY <2>1 DEF IInv, TypeOK, Screens, AppStates, PurgeReply
<1>2. OwnDraft'
  BY DEF IInv, OwnDraft, PurgeReply
<1>3. Stack'
  BY DEF IInv, Stack, NoSearch, NoAddRoute, PurgeReply
<1>4. Titled'
  BY DEF IInv, Titled, PurgeReply
<1>5. Located'
  BY <1>b DEF IInv, Located, PlacesHaveLocation, PurgeReply
<1>6. Untouched'
  BY <1>b DEF IInv, Untouched, PurgeReply
<1>7. ShownPlacesAreStored'
  BY <1>b, <1>c DEF IInv, ShownPlacesAreStored, PurgeReply
<1>8. ImageFromFirstDay'
  BY <1>a, <1>b DEF IInv, ImageFromFirstDay, PurgeReply
<1>9. PurgingIsDeleted'
  BY DEF IInv, PurgingIsDeleted, PurgeReply
<1>10. CancelledIsPurged'
  BY <1>b DEF IInv, CancelledIsPurged, PurgeReply
<1> QED BY <1>1, <1>2, <1>3, <1>4, <1>5, <1>6, <1>7, <1>8, <1>9, <1>10 DEF
          IInv

\* A purge fails only where reads may.
LEMMA PurgeErrorInv ==
  ASSUME IInv, NEW d \in Drafts, PurgeError(d)
  PROVE  IInv'
<1>1. TypeOK'
  <2> QED BY DEF IInv, TypeOK, Screens, AppStates, PurgeError
<1>2. OwnDraft'
  BY DEF IInv, OwnDraft, PurgeError
<1>3. Stack'
  BY DEF IInv, Stack, NoSearch, NoAddRoute, PurgeError
<1>4. Titled'
  BY DEF IInv, Titled, PurgeError
<1>5. Located'
  BY DEF IInv, Located, PlacesHaveLocation, PurgeError
<1>6. Untouched'
  BY DEF IInv, Untouched, PurgeError
<1>7. ShownPlacesAreStored'
  BY DEF IInv, ShownPlacesAreStored, PurgeError
<1>8. ImageFromFirstDay'
  BY DEF IInv, ImageFromFirstDay, PurgeError
<1>9. PurgingIsDeleted'
  BY DEF IInv, PurgingIsDeleted, PurgeError
<1>10. CancelledIsPurged'
  BY DEF IInv, CancelledIsPurged, PurgeError
<1> QED BY <1>1, <1>2, <1>3, <1>4, <1>5, <1>6, <1>7, <1>8, <1>9, <1>10 DEF
          IInv

\* A tapped place opens its page.
LEMMA PickTourInv ==
  ASSUME IInv, NEW tour \in Tours, PickTour(tour)
  PROVE  IInv'
<1>1. TypeOK'
  <2>1. visit' \in Visit
    BY ConstantsAssumption DEF IInv, TypeOK, PickTour, At, Visit
  <2> QED BY <2>1 DEF IInv, TypeOK, Screens, AppStates, PickTour
<1>2. OwnDraft'
  BY DEF IInv, OwnDraft, PickTour
<1>3. Stack'
  BY DEF IInv, Stack, NoSearch, AddRouteScreens, NoAddRoute, PickTour, At
<1>4. Titled'
  BY DEF IInv, Titled, AddRouteScreens, PickTour, At
<1>5. Located'
  BY DEF IInv, Located, PlacesHaveLocation, AddRouteScreens, PickTour, At
<1>6. Untouched'
  BY DEF IInv, Untouched, PickTour
<1>7. ShownPlacesAreStored'
  BY DEF IInv, ShownPlacesAreStored, PickTour
<1>8. ImageFromFirstDay'
  BY DEF IInv, ImageFromFirstDay, PickTour
<1>9. PurgingIsDeleted'
  BY DEF IInv, PurgingIsDeleted, PickTour
<1>10. CancelledIsPurged'
  BY DEF IInv, CancelledIsPurged, PickTour
<1> QED BY <1>1, <1>2, <1>3, <1>4, <1>5, <1>6, <1>7, <1>8, <1>9, <1>10 DEF
          IInv

\* The page of a place is answered.
LEMMA DetailReplyInv ==
  ASSUME IInv, DetailReply
  PROVE  IInv'
<1>1. TypeOK'
  <2>1. visit' \in Visit
    BY ConstantsAssumption DEF IInv, TypeOK, DetailReply, At, Visit
  <2> QED BY <2>1 DEF IInv, TypeOK, Screens, AppStates, DetailReply
<1>2. OwnDraft'
  BY DEF IInv, OwnDraft, DetailReply
<1>3. Stack'
  BY DEF IInv, Stack, NoSearch, NoAddRoute, DetailReply
<1>4. Titled'
  BY DEF IInv, Titled, DetailReply
<1>5. Located'
  BY DEF IInv, Located, PlacesHaveLocation, DetailReply
<1>6. Untouched'
  BY DEF IInv, Untouched, DetailReply
<1>7. ShownPlacesAreStored'
  BY DEF IInv, ShownPlacesAreStored, DetailReply
<1>8. ImageFromFirstDay'
  BY DEF IInv, ImageFromFirstDay, DetailReply
<1>9. PurgingIsDeleted'
  BY DEF IInv, PurgingIsDeleted, DetailReply
<1>10. CancelledIsPurged'
  BY DEF IInv, CancelledIsPurged, DetailReply
<1> QED BY <1>1, <1>2, <1>3, <1>4, <1>5, <1>6, <1>7, <1>8, <1>9, <1>10 DEF
          IInv

\* A place is added to the draft, whose city is known by then.
LEMMA AddPlaceInv ==
  ASSUME IInv, AddPlace
  PROVE  IInv'
<1>1. TypeOK'
  <2>1. routes' \in [Drafts -> SUBSET Place]
    BY ConstantsAssumption DEF IInv, TypeOK, OwnDraft, Stack, AddRouteScreens,
          AddPlace, At, NoVisit, Content, Place, Search, AddRoute, Visit,
          Defaults
  <2>2. add' \in AddRoute
    BY ConstantsAssumption DEF IInv, TypeOK, AddPlace, At, NoVisit, AddRoute
  <2>3. visit' \in Visit
    BY ConstantsAssumption DEF IInv, TypeOK, AddPlace, At, NoVisit, Visit
  <2> QED BY <2>1, <2>2, <2>3 DEF IInv, TypeOK, Screens, AppStates, AddPlace
<1>2. OwnDraft'
  BY DEF IInv, OwnDraft, AddPlace, At, NoVisit
<1>3. Stack'
  BY DEF IInv, Stack, NoSearch, AddRouteScreens, NoAddRoute, AddPlace, At,
          NoVisit
<1>4. Titled'
  BY DEF IInv, Titled, AddRouteScreens, AddPlace, At, NoVisit
<1>5. Located'
  BY ConstantsAssumption DEF IInv, Located, PlacesHaveLocation,
          AddRouteScreens, AddPlace, At, NoVisit, TypeOK, OwnDraft
<1>6. Untouched'
  BY ConstantsAssumption DEF IInv, Untouched, AddPlace, At, NoVisit, TypeOK,
          OwnDraft
<1>7. ShownPlacesAreStored'
  BY DEF IInv, ShownPlacesAreStored, AddPlace
<1>8. ImageFromFirstDay'
  BY DEF IInv, ImageFromFirstDay, AddPlace
<1>9. PurgingIsDeleted'
  BY DEF IInv, PurgingIsDeleted, AddPlace
<1>10. CancelledIsPurged'
  BY ConstantsAssumption DEF IInv, CancelledIsPurged, AddPlace, At, NoVisit,
          TypeOK, OwnDraft
<1> QED BY <1>1, <1>2, <1>3, <1>4, <1>5, <1>6, <1>7, <1>8, <1>9, <1>10 DEF
          IInv

\* Back from the title the draft is forgotten.
LEMMA BackFromTitleInv ==
  ASSUME IInv, BackFromTitle
  PROVE  IInv'
<1>1. TypeOK'
  <2> QED BY DEF IInv, TypeOK, Screens, AppStates, BackFromTitle
<1>2. OwnDraft'
  BY ConstantsAssumption DEF IInv, OwnDraft, Stack, NoSearch, NoAddRoute,
          AddRouteScreens, At, BackFromTitle
<1>3. Stack'
  BY DEF IInv, Stack, NoSearch, AddRouteScreens, NoAddRoute, BackFromTitle, At
<1>4. Titled'
  BY DEF IInv, Titled, AddRouteScreens, BackFromTitle, At
<1>5. Located'
  BY DEF IInv, Located, PlacesHaveLocation, AddRouteScreens, BackFromTitle, At
<1>6. Untouched'
  BY DEF IInv, Untouched, BackFromTitle
<1>7. ShownPlacesAreStored'
  BY DEF IInv, ShownPlacesAreStored, BackFromTitle
<1>8. ImageFromFirstDay'
  BY DEF IInv, ImageFromFirstDay, BackFromTitle
<1>9. PurgingIsDeleted'
  BY DEF IInv, PurgingIsDeleted, BackFromTitle
<1>10. CancelledIsPurged'
  BY DEF IInv, CancelledIsPurged, BackFromTitle
<1> QED BY <1>1, <1>2, <1>3, <1>4, <1>5, <1>6, <1>7, <1>8, <1>9, <1>10 DEF
          IInv

\* Back from the city list the form is shown again.
LEMMA BackFromSearchInv ==
  ASSUME IInv, BackFromSearch
  PROVE  IInv'
<1>1. TypeOK'
  <2>1. search' \in Search
    BY ConstantsAssumption DEF IInv, TypeOK, BackFromSearch, At, NoSearch,
          Search
  <2> QED BY <2>1 DEF IInv, TypeOK, Screens, AppStates, BackFromSearch
<1>2. OwnDraft'
  BY ConstantsAssumption DEF IInv, OwnDraft, Stack, NoSearch, NoAddRoute,
          AddRouteScreens, At, BackFromSearch
<1>3. Stack'
  BY DEF IInv, Stack, NoSearch, AddRouteScreens, NoAddRoute, BackFromSearch,
          At
<1>4. Titled'
  BY DEF IInv, Titled, AddRouteScreens, BackFromSearch, At, NoSearch
<1>5. Located'
  BY DEF IInv, Located, PlacesHaveLocation, AddRouteScreens, BackFromSearch,
          At, NoSearch
<1>6. Untouched'
  BY DEF IInv, Untouched, BackFromSearch
<1>7. ShownPlacesAreStored'
  BY DEF IInv, ShownPlacesAreStored, BackFromSearch
<1>8. ImageFromFirstDay'
  BY DEF IInv, ImageFromFirstDay, BackFromSearch
<1>9. PurgingIsDeleted'
  BY DEF IInv, PurgingIsDeleted, BackFromSearch
<1>10. CancelledIsPurged'
  BY DEF IInv, CancelledIsPurged, BackFromSearch
<1> QED BY <1>1, <1>2, <1>3, <1>4, <1>5, <1>6, <1>7, <1>8, <1>9, <1>10 DEF
          IInv

\* Back from the days the city list appears again.
LEMMA BackFromAddRouteInv ==
  ASSUME IInv, BackFromAddRoute
  PROVE  IInv'
<1>1. TypeOK'
  <2>1. add' \in AddRoute
    BY ConstantsAssumption DEF IInv, TypeOK, BackFromAddRoute, At, NoAddRoute,
          AddRoute
  <2> QED BY <2>1 DEF IInv, TypeOK, Screens, AppStates, BackFromAddRoute
<1>2. OwnDraft'
  BY ConstantsAssumption DEF IInv, OwnDraft, Stack, NoSearch, NoAddRoute,
          AddRouteScreens, At, BackFromAddRoute
<1>3. Stack'
  BY DEF IInv, Stack, NoSearch, AddRouteScreens, NoAddRoute, BackFromAddRoute,
          At
<1>4. Titled'
  BY DEF IInv, Titled, AddRouteScreens, BackFromAddRoute, At, NoAddRoute
<1>5. Located'
  BY DEF IInv, Located, PlacesHaveLocation, AddRouteScreens, BackFromAddRoute,
          At, NoAddRoute
<1>6. Untouched'
  BY DEF IInv, Untouched, BackFromAddRoute
<1>7. ShownPlacesAreStored'
  BY DEF IInv, ShownPlacesAreStored, BackFromAddRoute, At, NoAddRoute
<1>8. ImageFromFirstDay'
  BY DEF IInv, ImageFromFirstDay, BackFromAddRoute
<1>9. PurgingIsDeleted'
  BY DEF IInv, PurgingIsDeleted, BackFromAddRoute
<1>10. CancelledIsPurged'
  BY DEF IInv, CancelledIsPurged, BackFromAddRoute
<1> QED BY <1>1, <1>2, <1>3, <1>4, <1>5, <1>6, <1>7, <1>8, <1>9, <1>10 DEF
          IInv

\* Back from the place list the days appear again.
LEMMA BackFromRouteListInv ==
  ASSUME IInv, BackFromRouteList
  PROVE  IInv'
<1>1. TypeOK'
  <2>1. add' \in AddRoute
    BY ConstantsAssumption DEF IInv, TypeOK, BackFromRouteList, At, NoVisit,
          AddRoute
  <2>2. visit' \in Visit
    BY ConstantsAssumption DEF IInv, TypeOK, BackFromRouteList, At, NoVisit,
          Visit
  <2> QED BY <2>1, <2>2 DEF IInv, TypeOK, Screens, AppStates,
          BackFromRouteList
<1>2. OwnDraft'
  BY DEF IInv, OwnDraft, BackFromRouteList, At, NoVisit
<1>3. Stack'
  BY DEF IInv, Stack, NoSearch, AddRouteScreens, NoAddRoute,
          BackFromRouteList, At, NoVisit
<1>4. Titled'
  BY DEF IInv, Titled, AddRouteScreens, BackFromRouteList, At, NoVisit
<1>5. Located'
  BY DEF IInv, Located, PlacesHaveLocation, AddRouteScreens,
          BackFromRouteList, At, NoVisit
<1>6. Untouched'
  BY DEF IInv, Untouched, BackFromRouteList
<1>7. ShownPlacesAreStored'
  BY DEF IInv, ShownPlacesAreStored, BackFromRouteList
<1>8. ImageFromFirstDay'
  BY DEF IInv, ImageFromFirstDay, BackFromRouteList
<1>9. PurgingIsDeleted'
  BY DEF IInv, PurgingIsDeleted, BackFromRouteList
<1>10. CancelledIsPurged'
  BY DEF IInv, CancelledIsPurged, BackFromRouteList
<1> QED BY <1>1, <1>2, <1>3, <1>4, <1>5, <1>6, <1>7, <1>8, <1>9, <1>10 DEF
          IInv

\* Back from a place the place list is shown.
LEMMA BackFromDetailInv ==
  ASSUME IInv, BackFromDetail
  PROVE  IInv'
<1>1. TypeOK'
  <2>1. visit' \in Visit
    BY ConstantsAssumption DEF IInv, TypeOK, BackFromDetail, At, Visit
  <2> QED BY <2>1 DEF IInv, TypeOK, Screens, AppStates, BackFromDetail
<1>2. OwnDraft'
  BY DEF IInv, OwnDraft, BackFromDetail
<1>3. Stack'
  BY DEF IInv, Stack, NoSearch, AddRouteScreens, NoAddRoute, BackFromDetail,
          At
<1>4. Titled'
  BY DEF IInv, Titled, AddRouteScreens, BackFromDetail, At
<1>5. Located'
  BY DEF IInv, Located, PlacesHaveLocation, AddRouteScreens, BackFromDetail,
          At
<1>6. Untouched'
  BY DEF IInv, Untouched, BackFromDetail
<1>7. ShownPlacesAreStored'
  BY DEF IInv, ShownPlacesAreStored, BackFromDetail
<1>8. ImageFromFirstDay'
  BY DEF IInv, ImageFromFirstDay, BackFromDetail
<1>9. PurgingIsDeleted'
  BY DEF IInv, PurgingIsDeleted, BackFromDetail
<1>10. CancelledIsPurged'
  BY DEF IInv, CancelledIsPurged, BackFromDetail
<1> QED BY <1>1, <1>2, <1>3, <1>4, <1>5, <1>6, <1>7, <1>8, <1>9, <1>10 DEF
          IInv

\* A relaunch keeps the collections, and may forget a purge only with faults.
LEMMA RelaunchInv ==
  ASSUME IInv, Relaunch
  PROVE  IInv'
<1>1. TypeOK'
  <2>1. search' \in Search
    BY ConstantsAssumption DEF IInv, TypeOK, Relaunch, NoSearch, NoAddRoute,
          NoVisit, Search
  <2>2. add' \in AddRoute
    BY ConstantsAssumption DEF IInv, TypeOK, Relaunch, NoSearch, NoAddRoute,
          NoVisit, AddRoute
  <2>3. visit' \in Visit
    BY ConstantsAssumption DEF IInv, TypeOK, Relaunch, NoSearch, NoAddRoute,
          NoVisit, Visit
  <2> QED BY <2>1, <2>2, <2>3 DEF IInv, TypeOK, Screens, AppStates, Relaunch
<1>2. OwnDraft'
  BY DEF IInv, OwnDraft, Relaunch, NoSearch, NoAddRoute, NoVisit
<1>3. Stack'
  BY DEF IInv, Stack, NoSearch, AddRouteScreens, NoAddRoute, Relaunch, NoVisit
<1>4. Titled'
  BY DEF IInv, Titled, AddRouteScreens, Relaunch, NoSearch, NoAddRoute,
          NoVisit
<1>5. Located'
  BY DEF IInv, Located, PlacesHaveLocation, AddRouteScreens, Relaunch,
          NoSearch, NoAddRoute, NoVisit
<1>6. Untouched'
  BY DEF IInv, Untouched, Relaunch
<1>7. ShownPlacesAreStored'
  BY DEF IInv, ShownPlacesAreStored, Relaunch, NoSearch, NoAddRoute, NoVisit
<1>8. ImageFromFirstDay'
  BY DEF IInv, ImageFromFirstDay, Relaunch
<1>9. PurgingIsDeleted'
  BY DEF IInv, PurgingIsDeleted, Relaunch
<1>10. CancelledIsPurged'
  BY DEF IInv, CancelledIsPurged, Relaunch
<1> QED BY <1>1, <1>2, <1>3, <1>4, <1>5, <1>6, <1>7, <1>8, <1>9, <1>10 DEF
          IInv

\* Every step preserves the invariant; SearchSnapshotError and Kill only end the
\* process.
LEMMA NextInv ==
  ASSUME IInv, [Step]_vars
  PROVE  IInv'
<1>1. CASE User
  BY <1>1, NewRouteInv, NextTextInv, PickCityInv, PickStartInv, PickFinishInv, calTimeInv,
     PickRowInv, SaveInv, CancelSaveInv, PickTourInv, AddPlaceInv, BackFromTitleInv,
     BackFromSearchInv, BackFromAddRouteInv, BackFromRouteListInv, BackFromDetailInv
  DEF User
<1>2. CASE Replies
  BY <1>2, SearchSnapshotInv, SearchAppearedInv, RouteDocReplyInv, AddRouteAppearedInv,
     RoutesSnapshotInv, DetailReplyInv, PurgeReplyInv
  DEF Replies
<1>3. CASE Failures
  <2>1. CASE SearchSnapshotError \/ Kill
    BY <2>1, CrashInv DEF SearchSnapshotError, Kill, Crash, AppStates
  <2>2. CASE RouteDocError \/ RoutesError \/ Relaunch \/ \E d \in Drafts : PurgeError(d)
    BY <2>2, RouteDocErrorInv, RoutesErrorInv, RelaunchInv, PurgeErrorInv
  <2> QED BY <1>3, <2>1, <2>2 DEF Failures
<1>4. CASE UNCHANGED vars
  <2>1. app' \in AppStates
    BY <1>4 DEF vars, IInv, TypeOK
  <2> QED BY <1>4, <2>1, CrashInv DEF vars
<1> QED BY <1>1, <1>2, <1>3, <1>4 DEF Step

\* The invariant holds in every reachable state.
THEOREM Invariance == Spec => []IInv
<1>1. Init => IInv
  BY InitInv
<1>2. IInv /\ [Step]_vars => IInv'
  BY NextInv
<1> QED BY <1>1, <1>2, PTL DEF Spec

\* Type correctness.
THEOREM TypeCorrect == Spec => []TypeOK
<1>1. IInv => TypeOK
  BY DEF IInv
<1> QED BY <1>1, Invariance, PTL

\* A route that can be saved carries the title typed in this pass, through two
\* asynchronous lookups of its document and a write that is not waited for.
THEOREM SaveableTitled == Spec => []SaveableIsTitled
<1>1. IInv => SaveableIsTitled
  BY DEF IInv, OwnDraft, Stack, Titled, SaveableIsTitled, AddRouteScreens
<1> QED BY <1>1, Invariance, PTL

\* The day sections show stored places of the draft being edited and no others.
THEOREM ShownStored == Spec => []ShownPlacesAreStored
<1>1. IInv => ShownPlacesAreStored
  BY DEF IInv
<1> QED BY <1>1, Invariance, PTL

\* A stored route with places names its city.
THEOREM PlacesLocated == Spec => []PlacesHaveLocation
<1>1. IInv => PlacesHaveLocation
  BY DEF IInv, Located
<1> QED BY <1>1, Invariance, PTL

\* The picture of a stored route is that of one of its places of the first day.
THEOREM ImageOfFirstDay == Spec => []ImageFromFirstDay
<1>1. IInv => ImageFromFirstDay
  BY DEF IInv
<1> QED BY <1>1, Invariance, PTL

\* Without faults a cancelled draft leaves no place behind that is not about to
\* be deleted.
THEOREM CancelPurges == Spec => []CancelledIsPurged
<1>1. IInv => CancelledIsPurged
  BY DEF IInv
<1> QED BY <1>1, Invariance, PTL

-----------------------------------------------------------------------------
(* What a step may write.                                                  *)

OwnWrites ==
    \A d \in Drafts :
        docs'[d] # docs[d] \/ ~(routes'[d] \subseteq routes[d]) =>
            d \in {createId, createId'}

FreshDraft == createId' \in {createId, Nil} \/ docs[createId'].status = "unused"

\* A step writes to the draft of this pass only, and another draft becomes that of
\* this pass only unused.  Six actions touch a collection.
LEMMA StepWrites ==
  ASSUME IInv, Step
  PROVE  OwnWrites /\ FreshDraft
<1> USE DEF OwnWrites, FreshDraft
<1>1. CASE NewRoute
  BY <1>1 DEF NewRoute, IInv, TypeOK
<1>2. CASE SearchAppeared
  <2>1. (createId \in Drafts /\ search.id = createId) \/ search.id = Nil
    BY DEF IInv, TypeOK, OwnDraft
  <2>2. CASE docs' = docs
    BY <1>2, <2>2 DEF SearchAppeared, Crash
  <2>3. CASE docs' = [docs EXCEPT ![createId].title = search.text]
    BY <1>2, <2>3 DEF SearchAppeared, Crash, IInv, TypeOK
  <2> QED BY <1>2, <2>1, <2>2, <2>3 DEF SearchAppeared, Crash, updateData, updateTitle
<1>3. CASE \E day \in Rows : PickRow(day)
  <2> PICK day \in Rows : PickRow(day)
    BY <1>3
  <2>1. add.newDocumentId = createId
    BY DEF IInv, OwnDraft, Stack, AddRouteScreens, At, PickRow
  <2>2. PICK image \in MainImages :
           docs' = updateData(createId, changeContentField(createId, image))
    BY <2>1 DEF PickRow
  <2>3. \A e \in Drafts : e # createId => docs'[e] = docs[e]
    BY <2>2 DEF IInv, TypeOK, updateData, changeContentField
  <2> QED BY <2>3 DEF PickRow
<1>4. CASE CancelSave
  <2>1. add.newDocumentId = createId
    BY <1>4 DEF IInv, OwnDraft, Stack, AddRouteScreens, At, CancelSave
  <2>2. \A e \in Drafts : e # createId => docs'[e] = docs[e]
    BY <1>4, <2>1 DEF CancelSave, IInv, TypeOK
  <2> QED BY <1>4, <2>2 DEF CancelSave, LeaveWizard
<1>5. CASE \E d \in Drafts : PurgeReply(d)
  BY <1>5 DEF PurgeReply, IInv, TypeOK
<1>6. CASE AddPlace
  <2>1. visit.documentId = createId
    BY <1>6 DEF IInv, OwnDraft, Stack, At, AddPlace
  <2>2. \A e \in Drafts : e # createId => routes'[e] = routes[e]
    BY <1>6, <2>1 DEF AddPlace, IInv, TypeOK
  <2> QED BY <1>6, <2>2 DEF AddPlace
<1>7. ASSUME UNCHANGED <<docs, routes>>, createId' \in {createId, Nil}
      PROVE  OwnWrites /\ FreshDraft
  BY <1>7
<1>8. CASE User
  BY <1>8, <1>1, <1>3, <1>4, <1>6, <1>7
  DEF User, Next, PickCity, PickStart, PickFinish, calTime, Crash, Save, LeaveWizard,
      PickTour, BackFromTitle, BackFromSearch, BackFromAddRoute, BackFromRouteList,
      BackFromDetail
<1>9. CASE Replies
  BY <1>9, <1>2, <1>5, <1>7
  DEF Replies, SearchSnapshot, RouteDocReply, AddRouteAppeared, Crash, RoutesSnapshot,
      DetailReply
<1>10. CASE Failures
  BY <1>10, <1>7
  DEF Failures, SearchSnapshotError, RouteDocError, RoutesError, PurgeError, Kill,
      Relaunch, Crash
<1> QED BY <1>8, <1>9, <1>10 DEF Step

\* No step writes to a draft that this pass of the wizard did not create.
THEOREM WritesOwnDraft == Spec => WizardWritesOwnDraft
<1>1. IInv /\ [Step]_vars => [OwnWrites]_vars
  BY StepWrites
<1> QED BY <1>1, Invariance, PTL DEF Spec, WizardWritesOwnDraft, OwnWrites

DeletedUntouched ==
    \A d \in Drafts :
        docs[d].status = "deleted" =>
            docs'[d] = docs[d] /\ routes'[d] \subseteq routes[d]

\* A deleted draft is never written again: the draft of this pass is live, and the
\* one it may become is unused.
THEOREM DeletedStays == Spec => DeletedStaysDeleted
<1>1. IInv /\ Step => DeletedUntouched
  <2> SUFFICES ASSUME IInv, Step, NEW d \in Drafts, docs[d].status = "deleted"
               PROVE  docs'[d] = docs[d] /\ routes'[d] \subseteq routes[d]
    BY DEF DeletedUntouched
  <2>1. d # createId /\ d # Nil
    BY ConstantsAssumption DEF IInv, OwnDraft
  <2>2. d # createId'
    BY <2>1, StepWrites DEF FreshDraft
  <2> QED BY <2>1, <2>2, StepWrites DEF OwnWrites
<1>2. IInv /\ [Step]_vars => [DeletedUntouched]_vars
  BY <1>1
<1> QED BY <1>2, Invariance, PTL DEF Spec, DeletedStaysDeleted, DeletedUntouched

-----------------------------------------------------------------------------
(* The days of a trip                                                      *)

\* How the code divides: n midnights are n seconds more than n times its divisor.
LEMMA MidnightsDivided ==
    ASSUME NEW n \in Int, 0 <= n, n < 86399
    PROVE  (n * 86400) \div 86399 = n
<1>1. n * 86400 = 86399 * n + n
  OBVIOUS
<1> QED
  BY <1>1

\* A trip whose end is n midnights after its start, 24 hours apart each, has n + 1
\* days, though the code divides by 86399: the seconds it gains do not make a day
\* before 86399 midnights.
THEOREM TripDaysForward ==
    ASSUME NEW first \in Int, NEW n \in Int, 0 <= n, n < 86399
    PROVE  TripDays(first, first + n * 86400) = n + 1
<1>1. (first + n * 86400) - first = n * 86400 /\ n * 86400 >= 0
  OBVIOUS
<1> QED
  BY <1>1, MidnightsDivided DEF TripDays, Truncated

\* An end picked n days before the start makes 1 - n days, so that no row of the
\* days screen is left but for n = 0.
THEOREM TripDaysBackward ==
    ASSUME NEW first \in Int, NEW n \in Int, 0 <= n, n < 86399
    PROVE  TripDays(first, first - n * 86400) = 1 - n
<1>1. (first - n * 86400) - first = -(n * 86400) /\ -(-(n * 86400)) = n * 86400
  OBVIOUS
<1>2. Truncated(-(n * 86400), 86399) = -n
  BY MidnightsDivided DEF Truncated
<1> QED
  BY <1>1, <1>2 DEF TripDays

=============================================================================
