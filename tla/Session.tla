------------------------------- MODULE Session -------------------------------
(***************************************************************************)
(* Who is logged in: LoginViewController (automatic, by e-mail, with       *)
(* Google), SignupViewController, SetNicknameViewController and the logout *)
(* of UserSettingController.                                               *)
(*                                                                         *)
(* Two records of the account are kept: savedId in UserDefaults, which the *)
(* app reads for likes, comments and the next launch, and the current user *)
(* of Firebase, whose e-mail owns new routes.  Every check is answered     *)
(* later, and its completion reads the text fields and presents screens as *)
(* they are by then.                                                       *)
(***************************************************************************)
EXTENDS Integers, Sequences, SequencesExt

CONSTANTS
    Emails,     \* accounts with a password
    Googles,    \* logins with Google, each known by its ID token: a new login of
                \* the same Google account is another member
    MaxAsked,   \* bound: logins outstanding
    Empty,      \* the empty string
    Nil         \* no value

ASSUME ConstantsAssumption ==
    /\ {Empty, Nil} \cap (Emails \cup Googles) = {} /\ Empty # Nil
    /\ Emails \cap Googles = {}
    /\ MaxAsked \in Nat

VARIABLES
    app,         \* "running", or why the process is gone
    stack,       \* presented controllers, the first presents the second, ...
    savedId,     \* UserDefaults
    currentUser, \* Auth.auth().currentUser, by the login it comes from
    registered,  \* e-mail accounts Firebase knows
    users,       \* User documents, named by account
    idText,      \* the account field of LoginViewController
    emailText,   \* the account field of SignupViewController
    auto,        \* the automatic login of viewDidLoad: step and account
    asked,       \* signIn calls outstanding; "saved": Firebase has stored the user, the
                 \* completion still waits on the main queue
    signup,      \* createUser or setData outstanding, and the account created
    naming,      \* the query of setNickname outstanding
    hasty,       \* history: the user acted before what he started was answered
    unfinished   \* history: since the last login that went through, Firebase refused a
                 \* Google credential, a signup was left or killed before its end, or the
                 \* app was killed between Firebase storing a user and the completion

history == <<hasty, unfinished>>

vars == <<app, stack, savedId, currentUser, registered, users, idText, emailText, auto,
          asked, signup, naming, history>>

-----------------------------------------------------------------------------

Screens == {"login", "signup", "nickname", "tabs", "alert", "askNickname", "signupDone"}

NoSignup == [step |-> "idle", id |-> Nil]

Logins ==
    [by : {"password"}, id : Emails \cup {Empty}, step : {"asked", "saved"}]
        \cup [by : {"google"}, id : Googles, step : {"asked", "saved"}]

TypeOK ==
    /\ app \in {"running", "killed", "emptyPath", "noSavedId"}
    /\ stack \in Seq(Screens)
    /\ savedId \in Emails \cup Googles \cup {Empty, Nil}
    /\ currentUser \in Emails \cup Googles \cup {Nil}
    /\ registered \subseteq Emails
    /\ users \in [Emails -> [email : Emails \cup Googles \cup {Empty, Nil},
                            ExistNickname : {"none", "false", "true"}]]
    /\ idText \in Emails \cup {Empty}
    /\ emailText \in Emails \cup {Empty}
    /\ auto \in [step : {"idle", "signIn", "document"}, id : Emails \cup Googles \cup {Empty, Nil}]
    /\ auto.step = "document" => auto.id \in Emails \cup Googles
    /\ asked \in Seq(Logins)
    /\ signup \in {NoSignup} \cup [step : {"creating", "created", "storing"}, id : Emails]
    /\ naming \in Emails \cup Googles \cup {Empty, Nil}
    /\ hasty \in BOOLEAN /\ unfinished \in BOOLEAN

Top == stack[Len(stack)]

At(screen) == app = "running" /\ Top = screen

\* Mutant: presents over whatever is on top.
PresentOnTop(from, screen) == stack' = Append(stack, screen)

\* UIKit ignores present(_:) on a controller that is presenting already.
Present(from, screen) == stack' = IF Top = from THEN Append(stack, screen) ELSE stack

Dismiss == stack' = SubSeq(stack, 1, Len(stack) - 1)

Crash(cause) ==
    /\ app' = cause
    /\ UNCHANGED <<stack, savedId, currentUser, registered, users, idText, emailText, auto,
                   asked, signup, naming>>

Quiet == auto.step = "idle" /\ asked = <<>> /\ signup = NoSignup /\ naming = Nil

\* The user starts something new.
Acts == hasty' = (hasty \/ ~Quiet) /\ UNCHANGED unfinished

Unfinished(ends) == unfinished' = (unfinished \/ ends) /\ UNCHANGED hasty

\* LoginViewController.viewDidLoad starts the automatic login.
AutoLogin(saved) == [step |-> "signIn", id |-> saved]

NoAuto == [step |-> "idle", id |-> Nil]

Init ==
    /\ app = "running"
    /\ savedId = Nil
    /\ currentUser = Nil
    /\ registered = {}
    /\ users = [a \in Emails |-> [email |-> Nil, ExistNickname |-> "none"]]
    /\ stack = <<"login">>
    /\ idText = Empty
    /\ emailText = Empty
    /\ auto = AutoLogin(Nil)
    /\ asked = <<>>
    /\ signup = NoSignup
    /\ naming = Nil
    /\ hasty = FALSE /\ unfinished = FALSE

-----------------------------------------------------------------------------
(* LoginViewController                                                     *)

\* Mutant: getSavedidinfo is not compared with nil.
AutoSignedInUnchecked ==
    /\ app = "running" /\ auto.step = "signIn"
    /\ auto' = [auto EXCEPT !.step = "document"]
    /\ UNCHANGED <<app, stack, savedId, currentUser, registered, users, idText, emailText,
                   asked, signup, naming, history>>

\* The outcome of the signIn with empty fields is not looked at.
AutoSignedIn ==
    /\ app = "running" /\ auto.step = "signIn"
    /\ \/ auto.id = Empty /\ Crash("emptyPath") /\ UNCHANGED history
       \/ /\ auto.id # Empty
          /\ auto' = IF auto.id = Nil THEN NoAuto
                                      ELSE [auto EXCEPT !.step = "document"]
          /\ UNCHANGED <<app, stack, savedId, currentUser, registered, users,
                         idText, emailText, asked, signup, naming, history>>

NicknameOf(a) == IF a \in Emails THEN users[a].ExistNickname ELSE "none"

AutoDocument ==
    /\ app = "running" /\ auto.step = "document"
    /\ auto' = NoAuto
    /\ \/ NicknameOf(auto.id) = "true" /\ Present("login", "tabs")
       \/ NicknameOf(auto.id) = "false" /\ Present("login", "askNickname")
       \/ UNCHANGED stack     \* no such document, or an error
    /\ UNCHANGED <<app, savedId, currentUser, registered, users, idText, emailText, asked,
                   signup, naming, history>>

Type(email) ==
    /\ Acts
    /\ \/ At("login") /\ idText' = email /\ UNCHANGED emailText
       \/ At("signup") /\ emailText' = email /\ UNCHANGED idText
    /\ UNCHANGED <<app, stack, savedId, currentUser, registered, users, auto,
                   asked, signup, naming>>

loginButtonClick ==
    /\ At("login") /\ Acts /\ Len(asked) < MaxAsked
    /\ asked' = Append(asked, [by |-> "password", id |-> idText, step |-> "asked"])
    /\ UNCHANGED <<app, stack, savedId, currentUser, registered, users, idText, emailText,
                   auto, signup, naming>>

\* On Auth's own queue: Firebase answers, and stores the user on disk before it
\* hands the completion to the main queue.
updateCurrentUser(i) ==
    /\ app = "running" /\ asked[i].step = "asked"
    /\ asked[i].by = "password" => asked[i].id \in registered
    /\ currentUser' = asked[i].id
    /\ asked' = Append(RemoveAt(asked, i), [asked[i] EXCEPT !.step = "saved"])
    /\ UNCHANGED <<app, stack, savedId, registered, users, idText, emailText, auto, signup,
                   naming, history>>

\* The main queue runs the completions in their order.
Completes(i) ==
    /\ app = "running" /\ asked[i].step = "saved"
    /\ \A j \in 1..(i - 1) : asked[j].step # "saved"
    /\ asked' = RemoveAt(asked, i)

\* The user saved and the user shown are one again, whatever was cut short before.
WentThrough == unfinished' = FALSE /\ UNCHANGED hasty

\* Mutant: the account is not saved.
LoggedInUnsaved(i) ==
    /\ asked[i].by = "password" /\ Completes(i)
    /\ Present("login", "tabs")
    /\ idText' = Empty
    /\ WentThrough
    /\ UNCHANGED <<app, savedId, currentUser, registered, users, emailText, auto, signup, naming>>

\* The right password; savedId takes what the field holds now.
LoggedIn(i) ==
    /\ asked[i].by = "password" /\ Completes(i)
    /\ savedId' = idText
    /\ Present("login", "tabs")
    /\ idText' = Empty
    /\ WentThrough
    /\ UNCHANGED <<app, currentUser, registered, users, emailText, auto, signup, naming>>

LoginFailed(i) ==
    /\ app = "running" /\ asked[i].by = "password" /\ asked[i].step = "asked"
    /\ Present("login", "alert")
    /\ idText' = Empty
    /\ asked' = RemoveAt(asked, i)
    /\ UNCHANGED <<app, savedId, currentUser, registered, users, emailText, auto,
                   signup, naming, history>>

GoogleSignIn(google) ==
    /\ At("login") /\ Acts /\ Len(asked) < MaxAsked
    /\ asked' = Append(asked, [by |-> "google", id |-> google, step |-> "asked"])
    /\ UNCHANGED <<app, stack, savedId, currentUser, registered, users, idText, emailText,
                   auto, signup, naming>>

\* The completion looks at the user of Google, which is never nil here, and not
\* at the result of Firebase, who may have refused.
GoogleAnswered(i) ==
    /\ asked[i].by = "google"
    /\ \/ Completes(i) /\ WentThrough
       \/ /\ app = "running" /\ asked[i].step = "asked"
          /\ asked' = RemoveAt(asked, i)
          /\ Unfinished(TRUE)
    /\ savedId' = asked[i].id
    /\ Present("login", "tabs")
    /\ UNCHANGED <<app, currentUser, registered, users, idText, emailText, auto, signup, naming>>

-----------------------------------------------------------------------------
(* SignupViewController                                                    *)

\* A signup swiped away goes on; bound: no second one beside it.
OpenSignup ==
    /\ At("login") /\ Acts /\ signup = NoSignup
    /\ stack' = Append(stack, "signup")
    /\ emailText' = Empty
    /\ UNCHANGED <<app, savedId, currentUser, registered, users, idText, auto,
                   asked, signup, naming>>

\* A field is empty, the passwords differ, or the account is asked for.
doSignUp ==
    /\ At("signup") /\ Acts /\ signup = NoSignup
    /\ \/ Present("signup", "alert") /\ UNCHANGED signup
       \/ /\ emailText # Empty
          /\ signup' = [step |-> "creating", id |-> emailText]
          /\ UNCHANGED stack
    /\ UNCHANGED <<app, savedId, currentUser, registered, users, idText,
                   emailText, auto, asked, naming>>

\* Also after the account was made, when what follows fails.
CreateFailed ==
    /\ app = "running" /\ signup.step = "creating"
    /\ \/ UNCHANGED registered
       \/ registered' = registered \cup {signup.id}
    /\ Present("signup", "alert") \/ UNCHANGED stack
    /\ signup' = NoSignup
    /\ UNCHANGED <<app, savedId, currentUser, users, idText, emailText, auto, asked, naming,
                   history>>

\* On Auth's own queue: the account is made and its user stored on disk.
AccountCreated ==
    /\ app = "running" /\ signup.step = "creating"
    /\ signup.id \notin registered
    /\ registered' = registered \cup {signup.id}
    /\ currentUser' = signup.id
    /\ signup' = [signup EXCEPT !.step = "created"]
    /\ UNCHANGED <<app, stack, savedId, users, idText, emailText, auto, asked, naming,
                   history>>

\* The User document is named after what the field holds now; when it is refused,
\* or a kill loses it before it is stored, the alert says so and goes on alike.
UserCreated ==
    /\ app = "running" /\ signup.step = "created"
    /\ \/ /\ emailText = Empty
          /\ app' = "emptyPath"
          /\ Unfinished(TRUE)
          /\ UNCHANGED <<users, signup>>
       \/ /\ emailText # Empty
          /\ \/ users' = [users EXCEPT ![emailText] =
                            [email |-> emailText, ExistNickname |-> "false"]]
             \/ UNCHANGED users
          /\ signup' = [signup EXCEPT !.step = "storing"]
          /\ UNCHANGED <<app, history>>
    /\ UNCHANGED <<stack, savedId, currentUser, registered, idText, emailText, auto, asked,
                   naming>>

UserStored ==
    /\ app = "running" /\ signup.step = "storing"
    /\ signup' = NoSignup
    /\ Present("signup", "signupDone")
    /\ UNCHANGED <<app, savedId, currentUser, registered, users, idText, emailText,
                   auto, asked, naming, history>>

ConfirmSignup ==
    /\ At("signupDone")
    /\ savedId' = emailText
    /\ stack' = [stack EXCEPT ![Len(stack)] = "nickname"]
    /\ UNCHANGED <<app, currentUser, registered, users, idText, emailText, auto,
                   asked, signup, naming, history>>

\* The sheet is swiped away.
LeaveSignup ==
    /\ At("signup")
    /\ Unfinished(signup # NoSignup)
    /\ Dismiss
    /\ UNCHANGED <<app, savedId, currentUser, registered, users, idText, emailText,
                   auto, asked, signup, naming>>

-----------------------------------------------------------------------------
(* SetNicknameViewController, the alerts and the logout                    *)

\* Bound: one query outstanding.
setNickname ==
    /\ At("nickname") /\ Acts /\ naming = Nil
    /\ \/ savedId = Nil /\ Crash("noSavedId")
       \/ /\ savedId # Nil
          /\ naming' = savedId
          /\ Present("nickname", "tabs")
          /\ UNCHANGED <<app, savedId, currentUser, registered, users, idText, emailText,
                         auto, asked, signup>>

\* Mutant: the query is not restricted to the account.
NicknameStoredAll ==
    /\ app = "running" /\ naming # Nil
    /\ users' = [a \in Emails |-> IF users[a].ExistNickname # "none"
                     THEN [email |-> naming, ExistNickname |-> "true"] ELSE users[a]]
    /\ naming' = Nil
    /\ UNCHANGED <<app, stack, savedId, currentUser, registered, idText, emailText, auto,
                   asked, signup, history>>

\* The documents found for the account of the tap; savedId is unwrapped again.
NicknameStored ==
    /\ app = "running" /\ naming # Nil
    /\ \E found \in {{}, {a \in Emails : users[a].email = naming}} :   \* {} if it fails
           \/ found # {} /\ savedId = Nil /\ Crash("noSavedId") /\ UNCHANGED history
           \/ /\ found = {} \/ savedId # Nil
              /\ users' = [a \in Emails |-> IF a \in found
                             THEN [email |-> savedId, ExistNickname |-> "true"]
                             ELSE users[a]]
              /\ naming' = Nil
              /\ UNCHANGED <<app, stack, savedId, currentUser, registered, idText,
                             emailText, auto, asked, signup, history>>

DismissAlert ==
    /\ At("alert") \/ At("askNickname")
    /\ Dismiss
    /\ UNCHANGED <<app, savedId, currentUser, registered, users, idText, emailText, auto,
                   asked, signup, naming, history>>

moveToNickView ==
    /\ At("askNickname")
    /\ stack' = [stack EXCEPT ![Len(stack)] = "nickname"]
    /\ UNCHANGED <<app, savedId, currentUser, registered, users, idText, emailText, auto,
                   asked, signup, naming, history>>

\* Mutant: the tab bar stays.
logoutStays ==
    /\ At("tabs") /\ Acts
    /\ savedId' = Nil
    /\ UNCHANGED <<app, stack, currentUser, registered, users, idText, emailText, auto, asked,
                   signup, naming>>

\* Firebase's own session is left open.
logout ==
    /\ At("tabs") /\ Acts
    /\ savedId' = Nil
    /\ Dismiss
    /\ UNCHANGED <<app, currentUser, registered, users, idText, emailText, auto, asked,
                   signup, naming>>

Kill ==
    /\ app = "running"
    /\ Unfinished(\/ signup # NoSignup \/ Top = "signupDone"
                  \/ \E i \in DOMAIN asked : asked[i].step = "saved")
    /\ Crash("killed")

Relaunch ==
    /\ app # "running"
    /\ app' = "running"
    /\ stack' = <<"login">>
    /\ idText' = Empty
    /\ emailText' = Empty
    /\ auto' = AutoLogin(savedId)
    /\ asked' = <<>>
    /\ signup' = NoSignup
    /\ naming' = Nil
    /\ UNCHANGED <<savedId, currentUser, registered, users, history>>

-----------------------------------------------------------------------------

Step ==
    \/ AutoSignedIn \/ AutoDocument
    \/ \E email \in Emails \cup {Empty} : Type(email)
    \/ loginButtonClick
    \/ \E i \in DOMAIN asked :
           updateCurrentUser(i) \/ LoggedIn(i) \/ LoginFailed(i) \/ GoogleAnswered(i)
    \/ \E google \in Googles : GoogleSignIn(google)
    \/ OpenSignup \/ doSignUp \/ CreateFailed \/ AccountCreated \/ UserCreated \/ UserStored
    \/ ConfirmSignup \/ LeaveSignup
    \/ setNickname \/ NicknameStored \/ DismissAlert \/ moveToNickView \/ logout
    \/ Kill \/ Relaunch

Spec == Init /\ [][Step]_vars

-----------------------------------------------------------------------------

\* Completions of the automatic login, of a double tap and of Google may all
\* present the tab bar: there is never more than one, so that a logout shows no
\* other behind it.
OneTabBar == \A i, j \in DOMAIN stack : stack[i] = "tabs" /\ stack[j] = "tabs" => i = j

\* A user who waits for answers acts as one account: the one whose e-mail owns his
\* routes is the one that likes and comments, or, with Google, comes from the same
\* login.  What can part the two is named: a refused Google credential, a signup not
\* finished, and a kill between Firebase storing the user and the completion saving
\* the account; the next login that goes through joins them again.
OneAccount ==
    ~hasty /\ ~unfinished => (At("tabs") => savedId = currentUser)

\* Without a saved account there is no way into the app, also after a logout with
\* Firebase's session still open, a relaunch and a signup cut short.
LogoutSticks ==
    ~hasty =>
        (savedId = Nil => \A i \in DOMAIN stack : stack[i] # "tabs")

\* A User document keeps the e-mail it is named after, though setNickname writes
\* the account saved when its query is answered into every document found.
UserKeepsEmail ==
    ~hasty =>
        \A a \in Emails : users[a].ExistNickname # "none" => users[a].email = a

-----------------------------------------------------------------------------
(* The inductive invariant behind the safety properties.                   *)

\* Nothing is presented over the tab bar, nor over the last alert of a signup.
StackIsNested ==
    /\ stack # <<>> /\ stack[1] = "login"
    /\ \A i \in DOMAIN stack : stack[i] \in {"tabs", "signupDone"} => i = Len(stack)

NicknamesAreOfUsers == \A a \in Emails : users[a].ExistNickname = "none" => users[a].email = Nil

\* A user who waits has one thing outstanding at most, and none when a signup is done.
OneAtATime ==
    ~hasty =>
        /\ auto.step # "idle" => asked = <<>> /\ signup = NoSignup /\ naming = Nil
        /\ asked # <<>> => signup = NoSignup /\ naming = Nil
        /\ signup # NoSignup => naming = Nil
        /\ Len(asked) <= 1 /\ (asked # <<>> => Top = "login")
        /\ Top = "signupDone" => Quiet

\* What is outstanding is about the account that is saved, or typed.
AnswersAreTheirs ==
    ~hasty =>
        /\ auto.step # "idle" => auto.id = savedId
        /\ naming # Nil => naming = savedId
        /\ \A i \in DOMAIN asked :
               /\ asked[i].by = "password" => asked[i].id = idText
               /\ asked[i].step = "saved" => asked[i].id = currentUser

\* Until it is confirmed a signup, and until its completion runs a login, makes the
\* two records of the account differ.
SignupIsTheirs ==
    ~hasty /\ ~unfinished =>
        /\ signup # NoSignup => Top = "signup" /\ emailText = signup.id
        /\ signup.step \in {"created", "storing"} => currentUser = signup.id
        /\ Top = "signupDone" => currentUser = emailText
        /\ \/ savedId \in {Nil, currentUser}
           \/ /\ app = "running"
              /\ \/ signup.step \in {"created", "storing"} \/ Top = "signupDone"
                 \/ \E i \in DOMAIN asked : asked[i].step = "saved"

IInv ==
    /\ TypeOK /\ StackIsNested /\ NicknamesAreOfUsers /\ OneAtATime /\ AnswersAreTheirs
    /\ SignupIsTheirs /\ LogoutSticks /\ UserKeepsEmail

-----------------------------------------------------------------------------
(* What the source says of itself and the program does not keep.           *)

\* setNickname takes it for granted that an account is saved.
SavedIdPresent == app # "noSavedId"

\* ContentViewController takes it for granted that an account is saved.
TabsHaveAccount == At("tabs") => savedId # Nil

=============================================================================
