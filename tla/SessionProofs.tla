---------------------------- MODULE SessionProofs ----------------------------
(***************************************************************************)
(* Proofs about the session (module Session), for any accounts and any     *)
(* number of logins outstanding.                                           *)
(***************************************************************************)
EXTENDS Session, TLAPS

-----------------------------------------------------------------------------
(* The stack of presented controllers and the logins outstanding           *)

\* Nested as it is, the stack holds a tab bar only on top.
LEMMA TabsOnTop ==
    ASSUME stack \in Seq(Screens), StackIsNested
    PROVE  /\ (\A i \in DOMAIN stack : stack[i] # "tabs") <=> Top # "tabs"
           /\ Top \in Screens
BY DEF StackIsNested, Top

\* A controller is presented on its presenter, or not at all.
LEMMA Presents ==
    ASSUME stack \in Seq(Screens), StackIsNested,
           NEW from \in Screens \ {"tabs", "signupDone"}, NEW to \in Screens \ {"login"},
           Present(from, to)
    PROVE  /\ stack' \in Seq(Screens) /\ StackIsNested'
           /\ (Top # from /\ Top' = Top) \/ (Top = from /\ Top' = to)
           /\ (\A i \in DOMAIN stack' : stack'[i] # "tabs") <=> Top' # "tabs"
<1>1. CASE Top # from
  <2>1. stack' = stack
    BY <1>1 DEF Present
  <2> QED
    BY <1>1, <2>1, TabsOnTop DEF StackIsNested, Top
<1>2. CASE Top = from
  <2>1. stack' = Append(stack, to)
    BY <1>2 DEF Present
  <2>2. \A i \in DOMAIN stack : stack[i] \notin {"tabs", "signupDone"}
    BY <1>2 DEF StackIsNested, Top
  <2>3. /\ Len(stack') = Len(stack) + 1 /\ stack'[Len(stack')] = to
        /\ \A i \in DOMAIN stack : stack'[i] = stack[i]
        /\ DOMAIN stack' = 1..(Len(stack) + 1) /\ Len(stack) \in Nat /\ Len(stack) # 0
        /\ DOMAIN stack = 1..Len(stack)
    BY <2>1 DEF StackIsNested
  <2>4. stack' \in Seq(Screens) /\ stack' # <<>>
    BY <2>1, <2>3
  <2>5. StackIsNested'
    BY <2>2, <2>3, <2>4 DEF StackIsNested
  <2>6. Top' = to
    BY <2>3 DEF Top
  <2>7. (\A i \in DOMAIN stack' : stack'[i] # "tabs") <=> to # "tabs"
    BY <2>2, <2>3
  <2> QED
    BY <1>2, <2>4, <2>5, <2>6, <2>7
<1> QED
  BY <1>1, <1>2

\* What is below the top is no tab bar.
LEMMA Dismisses ==
    ASSUME stack \in Seq(Screens), StackIsNested, Top # "login", Dismiss
    PROVE  /\ stack' \in Seq(Screens) /\ StackIsNested'
           /\ Top' \notin {"tabs", "signupDone"}
           /\ \A i \in DOMAIN stack' : stack'[i] # "tabs"
<1>1. /\ Len(stack) \in Nat /\ Len(stack) > 1 /\ DOMAIN stack = 1..Len(stack)
  BY DEF StackIsNested, Top
<1>2. /\ stack' \in Seq(Screens) /\ Len(stack') = Len(stack) - 1
      /\ DOMAIN stack' = 1..(Len(stack) - 1)
      /\ \A i \in DOMAIN stack' : stack'[i] = stack[i]
  BY <1>1 DEF Dismiss
<1>3. \A i \in DOMAIN stack' : stack'[i] \notin {"tabs", "signupDone"}
  BY <1>1, <1>2 DEF StackIsNested
<1>4. stack' # <<>> /\ stack'[1] = "login"
  BY <1>1, <1>2 DEF StackIsNested
<1>5. Len(stack') \in DOMAIN stack'
  BY <1>1, <1>2
<1> QED
  BY <1>2, <1>3, <1>4, <1>5 DEF StackIsNested, Top

\* The nickname screen comes in the place of an alert.
LEMMA Replaces ==
    ASSUME stack \in Seq(Screens), StackIsNested, Top \in {"signupDone", "askNickname"},
           stack' = [stack EXCEPT ![Len(stack)] = "nickname"]
    PROVE  /\ stack' \in Seq(Screens) /\ StackIsNested'
           /\ Top' = "nickname"
           /\ \A i \in DOMAIN stack' : stack'[i] # "tabs"
<1> DEFINE n == Len(stack)
<1>1. n \in Nat /\ n > 1 /\ DOMAIN stack = 1..n /\ stack \in [1..n -> Screens]
  BY DEF StackIsNested, Top
<1>2. stack # <<>> /\ stack[1] = "login"
      /\ \A i \in 1..n : stack[i] \in {"tabs", "signupDone"} => i = n
  BY <1>1 DEF StackIsNested
<1>3. stack' = [stack EXCEPT ![n] = "nickname"]
  OBVIOUS
<1> HIDE DEF n
<1>4. /\ stack' \in [1..n -> Screens] /\ stack'[n] = "nickname"
      /\ \A i \in 1..n : i # n => stack'[i] = stack[i]
  BY <1>1, <1>3 DEF Screens
<1>5. stack' \in Seq(Screens)
  BY <1>1, <1>4
<1>6. Len(stack') = n /\ DOMAIN stack' = 1..n
  BY <1>1, <1>4, <1>5
<1>7. \A i \in DOMAIN stack' : stack'[i] \notin {"tabs", "signupDone"}
  BY <1>1, <1>2, <1>4, <1>6
<1>8. stack' # <<>> /\ stack'[1] = "login" /\ stack'[Len(stack')] = "nickname"
  BY <1>1, <1>2, <1>4, <1>6
<1> QED
  BY <1>5, <1>7, <1>8 DEF StackIsNested, Top

\* The only login outstanding leaves none behind.
LEMMA RemovesAt ==
    ASSUME NEW S, NEW s \in Seq(S), NEW i \in DOMAIN s
    PROVE  RemoveAt(s, i) \in Seq(S) /\ s # <<>> /\ (Len(s) <= 1 => RemoveAt(s, i) = <<>>)
<1>1. Len(s) \in Nat /\ i \in 1..Len(s)
  OBVIOUS
<1>2. SubSeq(s, 1, i - 1) \in Seq(S) /\ SubSeq(s, i + 1, Len(s)) \in Seq(S)
  BY <1>1
<1>3. RemoveAt(s, i) \in Seq(S)
  BY <1>2 DEF RemoveAt
<1>4. Len(s) <= 1 => RemoveAt(s, i) = <<>>
  <2> SUFFICES ASSUME Len(s) <= 1 PROVE RemoveAt(s, i) = <<>>
    OBVIOUS
  <2> DEFINE n == Len(s)
  <2>0. n \in Nat /\ i \in 1..n /\ n <= 1
    BY <1>1
  <2> HIDE DEF n
  <2>1. i = 1 /\ n = 1
    BY <2>0
  <2>2. SubSeq(s, 1, i - 1) = <<>> /\ SubSeq(s, i + 1, n) = <<>>
    BY <2>1
  <2>3. <<>> \o <<>> = <<>>
    OBVIOUS
  <2>4. RemoveAt(s, i) = SubSeq(s, 1, i - 1) \o SubSeq(s, i + 1, n)
    BY DEF RemoveAt, n
  <2> QED
    BY <2>2, <2>3, <2>4
<1> QED
  BY <1>1, <1>3, <1>4

-----------------------------------------------------------------------------
(* The inductive invariant                                                 *)

LEMMA InitInv == Init => IInv
<1> SUFFICES ASSUME Init PROVE IInv
  OBVIOUS
<1> USE DEF Init
<1>1. TypeOK
  <2>1. stack \in Seq(Screens)
    BY DEF Screens
  <2>2. asked \in Seq(Logins)
    OBVIOUS
  <2> QED
    BY <2>1, <2>2, ConstantsAssumption DEF TypeOK, AutoLogin, NoSignup
<1>2. StackIsNested /\ Top = "login"
  BY DEF StackIsNested, Top
<1>3. NicknamesAreOfUsers /\ UserKeepsEmail /\ LogoutSticks
  BY DEF NicknamesAreOfUsers, UserKeepsEmail, LogoutSticks
<1>4. OneAtATime /\ AnswersAreTheirs /\ SignupIsTheirs
  BY <1>2 DEF OneAtATime, AnswersAreTheirs, SignupIsTheirs, AutoLogin, NoSignup, Quiet
<1> QED
  BY <1>1, <1>2, <1>3, <1>4 DEF IInv

LEMMA AutoSignedInInv ==
    ASSUME IInv, AutoSignedIn
    PROVE  IInv'
<1>0. /\ stack \in Seq(Screens) /\ StackIsNested /\ Top \in Screens
      /\ (\A i \in DOMAIN stack : stack[i] # "tabs") <=> Top # "tabs"
  BY TabsOnTop DEF IInv, TypeOK
<1>s. /\ stack' \in Seq(Screens) /\ StackIsNested'
      /\ (\A i \in DOMAIN stack' : stack'[i] # "tabs") <=> Top' # "tabs"
      /\ Top' = Top
  BY <1>0 DEF AutoSignedIn, Crash, Top, StackIsNested
<1>1. TypeOK'
  BY <1>0, <1>s, ConstantsAssumption DEF IInv, TypeOK, Screens, NoSignup, NoAuto, AutoSignedIn, Crash, history
<1>2. StackIsNested'
  BY <1>s
<1>3. NicknamesAreOfUsers'
  BY <1>0, <1>s DEF IInv, TypeOK, NicknamesAreOfUsers, NoAuto, AutoSignedIn, Crash, history
<1>4. OneAtATime'
  BY <1>0, <1>s DEF IInv, TypeOK, OneAtATime, Quiet, NoSignup, NoAuto, AutoSignedIn, Crash, history
<1>5. AnswersAreTheirs'
  BY <1>0, <1>s DEF IInv, TypeOK, OneAtATime, AnswersAreTheirs, Quiet, NoSignup, NoAuto, AutoSignedIn, Crash, history
<1>6. SignupIsTheirs'
  BY <1>0, <1>s, ConstantsAssumption DEF IInv, TypeOK, OneAtATime, AnswersAreTheirs, SignupIsTheirs, Quiet, NoSignup, NoAuto, AutoSignedIn, Crash, history
<1>7. LogoutSticks'
  BY <1>0, <1>s DEF IInv, TypeOK, LogoutSticks, NoAuto, AutoSignedIn, Crash, history
<1>8. UserKeepsEmail'
  BY <1>0, <1>s DEF IInv, TypeOK, UserKeepsEmail, NicknamesAreOfUsers, AnswersAreTheirs, NoAuto, AutoSignedIn, Crash, history
<1> QED
  BY <1>1, <1>2, <1>3, <1>4, <1>5, <1>6, <1>7, <1>8 DEF IInv

LEMMA AutoDocumentInv ==
    ASSUME IInv, AutoDocument
    PROVE  IInv'
<1>0. /\ stack \in Seq(Screens) /\ StackIsNested /\ Top \in Screens
      /\ (\A i \in DOMAIN stack : stack[i] # "tabs") <=> Top # "tabs"
  BY TabsOnTop DEF IInv, TypeOK
<1>s. /\ stack' \in Seq(Screens) /\ StackIsNested'
      /\ (\A i \in DOMAIN stack' : stack'[i] # "tabs") <=> Top' # "tabs"
      /\ \/ Top' = Top
         \/ Top = "login" /\ Top' = "askNickname"
         \/ Top = "login" /\ Top' = "tabs" /\ NicknameOf(auto.id) = "true"
  <2>1. CASE UNCHANGED stack
    BY <1>0, <2>1 DEF Top, StackIsNested
  <2>2. CASE NicknameOf(auto.id) = "true" /\ Present("login", "tabs")
    BY <1>0, <2>2, Presents DEF Screens
  <2>3. CASE Present("login", "askNickname")
    BY <1>0, <2>3, Presents DEF Screens
  <2> QED
    BY <2>1, <2>2, <2>3 DEF AutoDocument
<1>1. TypeOK'
  BY SMTT(30), <1>0, <1>s, ConstantsAssumption DEF IInv, TypeOK, Screens, NoSignup, NoAuto, AutoDocument, history
<1>2. StackIsNested'
  BY <1>s
<1>3. NicknamesAreOfUsers'
  BY <1>0, <1>s DEF IInv, TypeOK, NicknamesAreOfUsers, NoAuto, AutoDocument, history
<1>4. OneAtATime'
  BY <1>0, <1>s DEF IInv, TypeOK, OneAtATime, Quiet, NoSignup, NoAuto, AutoDocument, history
<1>5. AnswersAreTheirs'
  BY <1>0, <1>s DEF IInv, TypeOK, OneAtATime, AnswersAreTheirs, Quiet, NoSignup, NoAuto, AutoDocument, history
<1>6. SignupIsTheirs'
  BY <1>0, <1>s, ConstantsAssumption DEF IInv, TypeOK, OneAtATime, AnswersAreTheirs, SignupIsTheirs, Quiet, NoSignup, NoAuto, AutoDocument, history
<1>7. LogoutSticks'
  BY <1>0, <1>s, ConstantsAssumption DEF IInv, TypeOK, LogoutSticks, AnswersAreTheirs, NoAuto, AutoDocument, NicknameOf, history
<1>8. UserKeepsEmail'
  BY <1>0, <1>s DEF IInv, TypeOK, UserKeepsEmail, NicknamesAreOfUsers, AnswersAreTheirs, NoAuto, AutoDocument, history
<1> QED
  BY <1>1, <1>2, <1>3, <1>4, <1>5, <1>6, <1>7, <1>8 DEF IInv

LEMMA TypeInv ==
    ASSUME IInv, NEW email \in Emails \cup {Empty}, Type(email)
    PROVE  IInv'
<1>0. /\ stack \in Seq(Screens) /\ StackIsNested /\ Top \in Screens
      /\ (\A i \in DOMAIN stack : stack[i] # "tabs") <=> Top # "tabs"
  BY TabsOnTop DEF IInv, TypeOK
<1>s. /\ stack' \in Seq(Screens) /\ StackIsNested'
      /\ (\A i \in DOMAIN stack' : stack'[i] # "tabs") <=> Top' # "tabs"
      /\ Top' = Top
  BY <1>0 DEF Type, Top, StackIsNested
<1>h. ~hasty' => ~hasty /\ Quiet
  BY DEF Type, Acts
<1>1. TypeOK'
  BY <1>0, <1>s, <1>h, ConstantsAssumption DEF IInv, TypeOK, Screens, NoSignup, Type, Acts, At
<1>2. StackIsNested'
  BY <1>s
<1>3. NicknamesAreOfUsers'
  BY <1>0, <1>s, <1>h DEF IInv, TypeOK, NicknamesAreOfUsers, Type, Acts, At
<1>4. OneAtATime'
  BY <1>0, <1>s, <1>h DEF IInv, TypeOK, OneAtATime, Quiet, NoSignup, Type, Acts, At
<1>5. AnswersAreTheirs'
  BY <1>0, <1>s, <1>h DEF IInv, TypeOK, OneAtATime, AnswersAreTheirs, Quiet, NoSignup, Type, Acts, At
<1>6. SignupIsTheirs'
  BY <1>0, <1>s, <1>h, ConstantsAssumption DEF IInv, TypeOK, OneAtATime, AnswersAreTheirs, SignupIsTheirs, Quiet, NoSignup, Type, Acts, At
<1>7. LogoutSticks'
  BY <1>0, <1>s, <1>h DEF IInv, TypeOK, LogoutSticks, Type, Acts, At
<1>8. UserKeepsEmail'
  BY <1>0, <1>s, <1>h DEF IInv, TypeOK, UserKeepsEmail, NicknamesAreOfUsers, AnswersAreTheirs, Type, Acts, At
<1> QED
  BY <1>1, <1>2, <1>3, <1>4, <1>5, <1>6, <1>7, <1>8 DEF IInv

LEMMA loginButtonClickInv ==
    ASSUME IInv, loginButtonClick
    PROVE  IInv'
<1>0. /\ stack \in Seq(Screens) /\ StackIsNested /\ Top \in Screens
      /\ (\A i \in DOMAIN stack : stack[i] # "tabs") <=> Top # "tabs"
  BY TabsOnTop DEF IInv, TypeOK
<1>s. /\ stack' \in Seq(Screens) /\ StackIsNested'
      /\ (\A i \in DOMAIN stack' : stack'[i] # "tabs") <=> Top' # "tabs"
      /\ Top' = Top
  BY <1>0 DEF loginButtonClick, Top, StackIsNested
<1>h. ~hasty' => ~hasty /\ Quiet
  BY DEF loginButtonClick, Acts
<1>a. /\ asked' \in Seq(Logins)
      /\ asked = <<>> => Len(asked') = 1 /\ asked'[1] = [by |-> "password", id |-> idText, step |-> "asked"] /\ DOMAIN asked' = {1}
  <2>1. [by |-> "password", id |-> idText, step |-> "asked"] \in Logins /\ asked \in Seq(Logins)
    BY DEF IInv, TypeOK, Logins
  <2>2. asked' = Append(asked, [by |-> "password", id |-> idText, step |-> "asked"])
    BY DEF loginButtonClick
  <2>3. asked' \in Seq(Logins)
    BY <2>1, <2>2
  <2>4. asked = <<>> => Len(asked') = 1 /\ asked'[1] = [by |-> "password", id |-> idText, step |-> "asked"] /\ DOMAIN asked' = {1}
    BY <2>2
  <2> QED
    BY <2>3, <2>4
<1>1. TypeOK'
  BY <1>0, <1>s, <1>h, <1>a DEF IInv, TypeOK, loginButtonClick, Acts
<1>2. StackIsNested'
  BY <1>s
<1>3. NicknamesAreOfUsers'
  BY <1>0, <1>s, <1>h DEF IInv, TypeOK, NicknamesAreOfUsers, loginButtonClick, Acts, At
<1>4. OneAtATime'
  BY <1>0, <1>s, <1>h, <1>a DEF IInv, OneAtATime, Quiet, NoSignup, loginButtonClick, Acts, At
<1>5. AnswersAreTheirs'
  BY <1>0, <1>s, <1>h, <1>a DEF IInv, AnswersAreTheirs, Quiet, loginButtonClick, Acts
<1>6. SignupIsTheirs'
  BY <1>0, <1>s, <1>h DEF IInv, TypeOK, SignupIsTheirs, Quiet, NoSignup, loginButtonClick, Acts
<1>7. LogoutSticks'
  BY <1>0, <1>s, <1>h DEF IInv, TypeOK, LogoutSticks, loginButtonClick, Acts, At
<1>8. UserKeepsEmail'
  BY <1>0, <1>s, <1>h DEF IInv, TypeOK, UserKeepsEmail, NicknamesAreOfUsers, AnswersAreTheirs, loginButtonClick, Acts, At
<1> QED
  BY <1>1, <1>2, <1>3, <1>4, <1>5, <1>6, <1>7, <1>8 DEF IInv

LEMMA GoogleSignInInv ==
    ASSUME IInv, NEW google \in Googles, GoogleSignIn(google)
    PROVE  IInv'
<1>0. /\ stack \in Seq(Screens) /\ StackIsNested /\ Top \in Screens
      /\ (\A i \in DOMAIN stack : stack[i] # "tabs") <=> Top # "tabs"
  BY TabsOnTop DEF IInv, TypeOK
<1>s. /\ stack' \in Seq(Screens) /\ StackIsNested'
      /\ (\A i \in DOMAIN stack' : stack'[i] # "tabs") <=> Top' # "tabs"
      /\ Top' = Top
  BY <1>0 DEF GoogleSignIn, Top, StackIsNested
<1>h. ~hasty' => ~hasty /\ Quiet
  BY DEF GoogleSignIn, Acts
<1>a. /\ asked' \in Seq(Logins)
      /\ asked = <<>> => Len(asked') = 1 /\ asked'[1] = [by |-> "google", id |-> google, step |-> "asked"] /\ DOMAIN asked' = {1}
  <2>1. [by |-> "google", id |-> google, step |-> "asked"] \in Logins /\ asked \in Seq(Logins)
    BY DEF IInv, TypeOK, Logins
  <2>2. asked' = Append(asked, [by |-> "google", id |-> google, step |-> "asked"])
    BY DEF GoogleSignIn
  <2>3. asked' \in Seq(Logins)
    BY <2>1, <2>2
  <2>4. asked = <<>> => Len(asked') = 1 /\ asked'[1] = [by |-> "google", id |-> google, step |-> "asked"] /\ DOMAIN asked' = {1}
    BY <2>2
  <2> QED
    BY <2>3, <2>4
<1>1. TypeOK'
  BY <1>0, <1>s, <1>h, <1>a DEF IInv, TypeOK, GoogleSignIn, Acts
<1>2. StackIsNested'
  BY <1>s
<1>3. NicknamesAreOfUsers'
  BY <1>0, <1>s, <1>h DEF IInv, TypeOK, NicknamesAreOfUsers, GoogleSignIn, Acts, At
<1>4. OneAtATime'
  BY <1>0, <1>s, <1>h, <1>a DEF IInv, OneAtATime, Quiet, NoSignup, GoogleSignIn, Acts, At
<1>5. AnswersAreTheirs'
  BY <1>0, <1>s, <1>h, <1>a DEF IInv, AnswersAreTheirs, Quiet, GoogleSignIn, Acts
<1>6. SignupIsTheirs'
  BY <1>0, <1>s, <1>h DEF IInv, TypeOK, SignupIsTheirs, Quiet, NoSignup, GoogleSignIn, Acts
<1>7. LogoutSticks'
  BY <1>0, <1>s, <1>h DEF IInv, TypeOK, LogoutSticks, GoogleSignIn, Acts, At
<1>8. UserKeepsEmail'
  BY <1>0, <1>s, <1>h DEF IInv, TypeOK, UserKeepsEmail, NicknamesAreOfUsers, AnswersAreTheirs, GoogleSignIn, Acts, At
<1> QED
  BY <1>1, <1>2, <1>3, <1>4, <1>5, <1>6, <1>7, <1>8 DEF IInv

LEMMA updateCurrentUserInv ==
    ASSUME IInv, NEW n \in DOMAIN asked, updateCurrentUser(n)
    PROVE  IInv'
<1> DEFINE saved == [asked[n] EXCEPT !.step = "saved"]
<1>0. /\ stack \in Seq(Screens) /\ StackIsNested /\ Top \in Screens
      /\ (\A i \in DOMAIN stack : stack[i] # "tabs") <=> Top # "tabs"
  BY TabsOnTop DEF IInv, TypeOK
<1>s. /\ stack' \in Seq(Screens) /\ StackIsNested'
      /\ (\A i \in DOMAIN stack' : stack'[i] # "tabs") <=> Top' # "tabs"
      /\ Top' = Top
  BY <1>0 DEF updateCurrentUser, Top, StackIsNested
<1>l. /\ saved \in Logins /\ saved.by = asked[n].by /\ saved.id = asked[n].id
      /\ saved.step = "saved" /\ saved.id \in Emails \cup Googles
  <2>1. asked[n] \in Logins /\ registered \subseteq Emails
    BY DEF IInv, TypeOK
  <2>2. asked[n].by = "password" => asked[n].id \in registered
    BY DEF updateCurrentUser
  <2> QED
    BY <2>1, <2>2 DEF Logins
<1>a. /\ asked' \in Seq(Logins) /\ asked # <<>>
      /\ Len(asked) <= 1 => n = 1 /\ Len(asked') = 1 /\ DOMAIN asked' = {1} /\ asked'[1] = saved
  <2>1. asked \in Seq(Logins) /\ asked' = Append(RemoveAt(asked, n), saved)
    BY DEF IInv, TypeOK, updateCurrentUser
  <2>2. /\ RemoveAt(asked, n) \in Seq(Logins) /\ asked # <<>>
        /\ (Len(asked) <= 1 => RemoveAt(asked, n) = <<>>)
    BY <2>1, RemovesAt
  <2> HIDE DEF saved
  <2>3. asked' \in Seq(Logins)
    BY <2>1, <2>2, <1>l
  <2>4. ASSUME Len(asked) <= 1
        PROVE  n = 1 /\ Len(asked') = 1 /\ DOMAIN asked' = {1} /\ asked'[1] = saved
    <3>1. RemoveAt(asked, n) = <<>>
      BY <2>2, <2>4
    <3>2. asked' = Append(<<>>, saved)
      BY <2>1, <3>1
    <3>3. n = 1
      BY <2>1, <2>4
    <3> QED
      BY <3>2, <3>3
  <2> QED
    BY <2>2, <2>3, <2>4
<1> HIDE DEF saved
<1>c. currentUser' = saved.id
  BY <1>l DEF updateCurrentUser
<1>1. TypeOK'
  BY <1>0, <1>s, <1>l, <1>a, <1>c DEF IInv, TypeOK, updateCurrentUser, history
<1>2. StackIsNested'
  BY <1>s
<1>3. NicknamesAreOfUsers'
  BY DEF IInv, NicknamesAreOfUsers, updateCurrentUser
<1>4. OneAtATime'
  BY <1>s, <1>a DEF IInv, OneAtATime, Quiet, NoSignup, updateCurrentUser, history
<1>5. AnswersAreTheirs'
  BY <1>l, <1>a, <1>c DEF IInv, OneAtATime, AnswersAreTheirs, updateCurrentUser, history
<1>6. SignupIsTheirs'
  <2> SUFFICES ASSUME ~hasty', ~unfinished' PROVE SignupIsTheirs'
    BY DEF SignupIsTheirs
  <2>1. ~hasty /\ ~unfinished /\ Len(asked) <= 1 /\ signup = NoSignup /\ Top = "login"
    BY <1>a DEF IInv, OneAtATime, updateCurrentUser, history
  <2>2. app' = "running" /\ signup' = NoSignup /\ Top' = "login"
        /\ 1 \in DOMAIN asked' /\ asked'[1].step = "saved"
    BY <1>s, <1>l, <1>a, <2>1 DEF updateCurrentUser
  <2> QED
    BY <2>2 DEF SignupIsTheirs, NoSignup
<1>7. LogoutSticks'
  BY <1>0, <1>s DEF IInv, LogoutSticks, updateCurrentUser, history
<1>8. UserKeepsEmail'
  BY DEF IInv, UserKeepsEmail, updateCurrentUser, history
<1> QED
  BY <1>1, <1>2, <1>3, <1>4, <1>5, <1>6, <1>7, <1>8 DEF IInv

LEMMA LoggedInInv ==
    ASSUME IInv, NEW n \in DOMAIN asked, LoggedIn(n)
    PROVE  IInv'
<1>0. /\ stack \in Seq(Screens) /\ StackIsNested /\ Top \in Screens
      /\ (\A i \in DOMAIN stack : stack[i] # "tabs") <=> Top # "tabs"
  BY TabsOnTop DEF IInv, TypeOK
<1>s. /\ stack' \in Seq(Screens) /\ StackIsNested'
      /\ (\A i \in DOMAIN stack' : stack'[i] # "tabs") <=> Top' # "tabs"
      /\ Top' = Top \/ (Top = "login" /\ Top' = "tabs")
  <2>1. Present("login", "tabs")
    BY DEF LoggedIn
  <2> QED
    BY <1>0, <2>1, Presents DEF Screens
<1>a. /\ asked' \in Seq(Logins)
      /\ asked # <<>> /\ (Len(asked) <= 1 => asked' = <<>>)
      /\ asked[n] \in Logins
  <2>1. asked \in Seq(Logins) /\ asked' = RemoveAt(asked, n)
    BY DEF IInv, TypeOK, LoggedIn, Completes
  <2>2. asked' \in Seq(Logins) /\ asked # <<>> /\ (Len(asked) <= 1 => asked' = <<>>) /\ asked[n] \in Logins
    BY <2>1, RemovesAt
  <2> QED
    BY <2>2
<1>1. TypeOK'
  <2>1. hasty' \in BOOLEAN /\ unfinished' \in BOOLEAN
    BY DEF LoggedIn, WentThrough, IInv, TypeOK
  <2>2. app' = app
    BY DEF LoggedIn, Completes
  <2> QED
    BY <1>s, <1>a, <2>1, <2>2 DEF IInv, TypeOK, LoggedIn
<1>2. StackIsNested'
  BY <1>s
<1>3. NicknamesAreOfUsers'
  BY <1>0, <1>s DEF IInv, NicknamesAreOfUsers, LoggedIn
<1>4. OneAtATime'
  BY <1>0, <1>s, <1>a DEF IInv, TypeOK, OneAtATime, Quiet, NoSignup, LoggedIn, Completes, WentThrough, history, Unfinished
<1>5. AnswersAreTheirs'
  BY <1>0, <1>s, <1>a DEF IInv, Logins, OneAtATime, AnswersAreTheirs, Quiet, LoggedIn, Completes, WentThrough, history, Unfinished
<1>6. SignupIsTheirs'
  BY <1>0, <1>s, <1>a, ConstantsAssumption DEF IInv, Logins, TypeOK, OneAtATime, AnswersAreTheirs, SignupIsTheirs, Quiet, NoSignup, LoggedIn, Completes, WentThrough, history, Unfinished
<1>7. LogoutSticks'
  BY <1>0, <1>s, <1>a, ConstantsAssumption DEF IInv, Logins, TypeOK, OneAtATime, AnswersAreTheirs, LogoutSticks, LoggedIn, Completes, WentThrough, history, Unfinished
<1>8. UserKeepsEmail'
  BY <1>0, <1>s DEF IInv, UserKeepsEmail, LoggedIn, Completes, WentThrough, history, Unfinished
<1> QED
  BY <1>1, <1>2, <1>3, <1>4, <1>5, <1>6, <1>7, <1>8 DEF IInv

LEMMA LoginFailedInv ==
    ASSUME IInv, NEW n \in DOMAIN asked, LoginFailed(n)
    PROVE  IInv'
<1>0. /\ stack \in Seq(Screens) /\ StackIsNested /\ Top \in Screens
      /\ (\A i \in DOMAIN stack : stack[i] # "tabs") <=> Top # "tabs"
  BY TabsOnTop DEF IInv, TypeOK
<1>s. /\ stack' \in Seq(Screens) /\ StackIsNested'
      /\ (\A i \in DOMAIN stack' : stack'[i] # "tabs") <=> Top' # "tabs"
      /\ Top' = Top \/ (Top = "login" /\ Top' = "alert")
  <2>1. Present("login", "alert")
    BY DEF LoginFailed
  <2> QED
    BY <1>0, <2>1, Presents DEF Screens
<1>a. /\ asked' \in Seq(Logins)
      /\ asked # <<>> /\ (Len(asked) <= 1 => asked' = <<>>)
      /\ asked[n] \in Logins
  <2>1. asked \in Seq(Logins) /\ asked' = RemoveAt(asked, n)
    BY DEF IInv, TypeOK, LoginFailed
  <2>2. asked' \in Seq(Logins) /\ asked # <<>> /\ (Len(asked) <= 1 => asked' = <<>>) /\ asked[n] \in Logins
    BY <2>1, RemovesAt
  <2> QED
    BY <2>2
<1>1. TypeOK'
  BY <1>0, <1>s, <1>a DEF IInv, TypeOK, Logins, LoginFailed, history, Unfinished
<1>2. StackIsNested'
  BY <1>s
<1>3. NicknamesAreOfUsers'
  BY <1>0, <1>s DEF IInv, NicknamesAreOfUsers, LoginFailed
<1>4. OneAtATime'
  BY <1>0, <1>s, <1>a DEF IInv, TypeOK, OneAtATime, Quiet, NoSignup, LoginFailed, history, Unfinished
<1>5. AnswersAreTheirs'
  BY <1>0, <1>s, <1>a DEF IInv, Logins, OneAtATime, AnswersAreTheirs, Quiet, LoginFailed, history, Unfinished
<1>6. SignupIsTheirs'
  BY <1>0, <1>s, <1>a, ConstantsAssumption DEF IInv, Logins, TypeOK, OneAtATime, AnswersAreTheirs, SignupIsTheirs, Quiet, NoSignup, LoginFailed, history, Unfinished
<1>7. LogoutSticks'
  BY <1>0, <1>s, <1>a, ConstantsAssumption DEF IInv, Logins, TypeOK, OneAtATime, AnswersAreTheirs, LogoutSticks, LoginFailed, history, Unfinished
<1>8. UserKeepsEmail'
  BY <1>0, <1>s DEF IInv, UserKeepsEmail, LoginFailed, history, Unfinished
<1> QED
  BY <1>1, <1>2, <1>3, <1>4, <1>5, <1>6, <1>7, <1>8 DEF IInv

LEMMA GoogleAnsweredInv ==
    ASSUME IInv, NEW n \in DOMAIN asked, GoogleAnswered(n)
    PROVE  IInv'
<1>0. /\ stack \in Seq(Screens) /\ StackIsNested /\ Top \in Screens
      /\ (\A i \in DOMAIN stack : stack[i] # "tabs") <=> Top # "tabs"
  BY TabsOnTop DEF IInv, TypeOK
<1>s. /\ stack' \in Seq(Screens) /\ StackIsNested'
      /\ (\A i \in DOMAIN stack' : stack'[i] # "tabs") <=> Top' # "tabs"
      /\ Top' = Top \/ (Top = "login" /\ Top' = "tabs")
  <2>1. Present("login", "tabs")
    BY DEF GoogleAnswered
  <2> QED
    BY <1>0, <2>1, Presents DEF Screens
<1>a. /\ asked' \in Seq(Logins)
      /\ asked # <<>> /\ (Len(asked) <= 1 => asked' = <<>>)
      /\ asked[n] \in Logins
  <2>1. asked \in Seq(Logins) /\ asked' = RemoveAt(asked, n)
    BY DEF IInv, TypeOK, GoogleAnswered, Completes
  <2>2. asked' \in Seq(Logins) /\ asked # <<>> /\ (Len(asked) <= 1 => asked' = <<>>) /\ asked[n] \in Logins
    BY <2>1, RemovesAt
  <2> QED
    BY <2>2
<1>1. TypeOK'
  <2>1. savedId' \in Googles /\ currentUser' \in Emails \cup Googles \cup {Nil}
    BY <1>a DEF Logins, GoogleAnswered, IInv, TypeOK
  <2>2. hasty' \in BOOLEAN /\ unfinished' \in BOOLEAN
    BY DEF GoogleAnswered, WentThrough, IInv, TypeOK, Unfinished
  <2> QED
    BY <1>s, <1>a, <2>1, <2>2 DEF GoogleAnswered, IInv, TypeOK
<1>2. StackIsNested'
  BY <1>s
<1>3. NicknamesAreOfUsers'
  BY <1>0, <1>s DEF IInv, NicknamesAreOfUsers, GoogleAnswered
<1>4. OneAtATime'
  BY <1>0, <1>s, <1>a DEF IInv, TypeOK, OneAtATime, Quiet, NoSignup, GoogleAnswered, Completes, WentThrough, history, Unfinished
<1>5. AnswersAreTheirs'
  BY <1>0, <1>s, <1>a DEF IInv, Logins, OneAtATime, AnswersAreTheirs, Quiet, GoogleAnswered, Completes, WentThrough, history, Unfinished
<1>6. SignupIsTheirs'
  <2>1. ~hasty' => ~hasty
    BY DEF GoogleAnswered, Completes, WentThrough, history, Unfinished
  <2>2. ~hasty /\ ~unfinished' => savedId' = currentUser'
    BY DEF GoogleAnswered, Completes, WentThrough, history, Unfinished, IInv, AnswersAreTheirs
  <2>3. ~hasty => signup = NoSignup /\ Top = "login"
    BY <1>a DEF IInv, OneAtATime
  <2> QED
    BY <1>0, <1>s, <2>1, <2>2, <2>3 DEF SignupIsTheirs, GoogleAnswered, NoSignup, IInv
<1>7. LogoutSticks'
  BY <1>0, <1>s, <1>a, ConstantsAssumption DEF IInv, Logins, TypeOK, OneAtATime, AnswersAreTheirs, LogoutSticks, GoogleAnswered, Completes, WentThrough, history, Unfinished
<1>8. UserKeepsEmail'
  BY <1>0, <1>s DEF IInv, UserKeepsEmail, GoogleAnswered, Completes, WentThrough, history, Unfinished
<1> QED
  BY <1>1, <1>2, <1>3, <1>4, <1>5, <1>6, <1>7, <1>8 DEF IInv

LEMMA OpenSignupInv ==
    ASSUME IInv, OpenSignup
    PROVE  IInv'
<1>0. /\ stack \in Seq(Screens) /\ StackIsNested /\ Top \in Screens
      /\ (\A i \in DOMAIN stack : stack[i] # "tabs") <=> Top # "tabs"
  BY TabsOnTop DEF IInv, TypeOK
<1>s. /\ stack' \in Seq(Screens) /\ StackIsNested'
      /\ (\A i \in DOMAIN stack' : stack'[i] # "tabs") <=> Top' # "tabs"
      /\ Top = "login" /\ Top' = "signup"
  <2>1. Present("login", "signup") /\ Top = "login"
    BY DEF OpenSignup, At, Present
  <2> QED
    BY <1>0, <2>1, Presents DEF Screens
<1>h. ~hasty' => ~hasty /\ Quiet
  BY DEF OpenSignup, Acts
<1>1. TypeOK'
  BY <1>0, <1>s, <1>h, ConstantsAssumption DEF IInv, TypeOK, Screens, NoSignup, OpenSignup, Acts
<1>2. StackIsNested'
  BY <1>s
<1>3. NicknamesAreOfUsers'
  BY <1>0, <1>s, <1>h DEF IInv, TypeOK, NicknamesAreOfUsers, OpenSignup, Acts
<1>4. OneAtATime'
  BY <1>0, <1>s, <1>h DEF IInv, TypeOK, OneAtATime, Quiet, NoSignup, OpenSignup, Acts
<1>5. AnswersAreTheirs'
  BY <1>0, <1>s, <1>h DEF IInv, TypeOK, OneAtATime, AnswersAreTheirs, Quiet, NoSignup, OpenSignup, Acts
<1>6. SignupIsTheirs'
  BY <1>0, <1>s, <1>h, ConstantsAssumption DEF IInv, TypeOK, OneAtATime, AnswersAreTheirs, SignupIsTheirs, Quiet, NoSignup, OpenSignup, Acts
<1>7. LogoutSticks'
  BY <1>0, <1>s, <1>h DEF IInv, TypeOK, LogoutSticks, OpenSignup, Acts
<1>8. UserKeepsEmail'
  BY <1>0, <1>s, <1>h DEF IInv, TypeOK, UserKeepsEmail, NicknamesAreOfUsers, AnswersAreTheirs, OpenSignup, Acts
<1> QED
  BY <1>1, <1>2, <1>3, <1>4, <1>5, <1>6, <1>7, <1>8 DEF IInv

LEMMA doSignUpInv ==
    ASSUME IInv, doSignUp
    PROVE  IInv'
<1>0. /\ stack \in Seq(Screens) /\ StackIsNested /\ Top \in Screens
      /\ (\A i \in DOMAIN stack : stack[i] # "tabs") <=> Top # "tabs"
  BY TabsOnTop DEF IInv, TypeOK
<1>s. /\ stack' \in Seq(Screens) /\ StackIsNested'
      /\ (\A i \in DOMAIN stack' : stack'[i] # "tabs") <=> Top' # "tabs"
      /\ Top = "signup" /\ ((Top' = "alert" /\ UNCHANGED signup) \/ Top' = Top)
  <2>0. Top = "signup"
    BY DEF doSignUp, At
  <2>1. CASE Present("signup", "alert") /\ UNCHANGED signup
    BY <1>0, <2>0, <2>1, Presents DEF Screens
  <2>2. CASE UNCHANGED stack
    BY <1>0, <2>0, <2>2 DEF Top, StackIsNested
  <2> QED
    BY <2>1, <2>2 DEF doSignUp
<1>h. ~hasty' => ~hasty /\ Quiet
  BY DEF doSignUp, Acts
<1>1. TypeOK'
  BY <1>0, <1>s, <1>h, ConstantsAssumption DEF IInv, TypeOK, Screens, NoSignup, doSignUp, Acts
<1>2. StackIsNested'
  BY <1>s
<1>3. NicknamesAreOfUsers'
  BY <1>0, <1>s, <1>h DEF IInv, TypeOK, NicknamesAreOfUsers, doSignUp, Acts
<1>4. OneAtATime'
  BY <1>0, <1>s, <1>h DEF IInv, TypeOK, OneAtATime, Quiet, NoSignup, doSignUp, Acts
<1>5. AnswersAreTheirs'
  BY <1>0, <1>s, <1>h DEF IInv, TypeOK, OneAtATime, AnswersAreTheirs, Quiet, NoSignup, doSignUp, Acts
<1>6. SignupIsTheirs'
  BY <1>0, <1>s, <1>h, ConstantsAssumption DEF IInv, TypeOK, OneAtATime, AnswersAreTheirs, SignupIsTheirs, Quiet, NoSignup, doSignUp, Acts
<1>7. LogoutSticks'
  BY <1>0, <1>s, <1>h DEF IInv, TypeOK, LogoutSticks, doSignUp, Acts
<1>8. UserKeepsEmail'
  BY <1>0, <1>s, <1>h DEF IInv, TypeOK, UserKeepsEmail, NicknamesAreOfUsers, AnswersAreTheirs, doSignUp, Acts
<1> QED
  BY <1>1, <1>2, <1>3, <1>4, <1>5, <1>6, <1>7, <1>8 DEF IInv

LEMMA CreateFailedInv ==
    ASSUME IInv, CreateFailed
    PROVE  IInv'
<1>0. /\ stack \in Seq(Screens) /\ StackIsNested /\ Top \in Screens
      /\ (\A i \in DOMAIN stack : stack[i] # "tabs") <=> Top # "tabs"
  BY TabsOnTop DEF IInv, TypeOK
<1>s. /\ stack' \in Seq(Screens) /\ StackIsNested'
      /\ (\A i \in DOMAIN stack' : stack'[i] # "tabs") <=> Top' # "tabs"
      /\ Top' = Top \/ (Top = "signup" /\ Top' = "alert")
  <2>1. CASE Present("signup", "alert")
    BY <1>0, <2>1, Presents DEF Screens
  <2>2. CASE UNCHANGED stack
    BY <1>0, <2>2 DEF Top, StackIsNested
  <2> QED
    BY <2>1, <2>2 DEF CreateFailed
<1>1. TypeOK'
  BY <1>0, <1>s, ConstantsAssumption DEF IInv, TypeOK, Screens, NoSignup, CreateFailed, history
<1>2. StackIsNested'
  BY <1>s
<1>3. NicknamesAreOfUsers'
  BY <1>0, <1>s DEF IInv, TypeOK, NicknamesAreOfUsers, CreateFailed, history
<1>4. OneAtATime'
  BY <1>0, <1>s DEF IInv, TypeOK, OneAtATime, Quiet, NoSignup, CreateFailed, history
<1>5. AnswersAreTheirs'
  BY <1>0, <1>s DEF IInv, TypeOK, OneAtATime, AnswersAreTheirs, Quiet, NoSignup, CreateFailed, history
<1>6. SignupIsTheirs'
  BY <1>0, <1>s, ConstantsAssumption DEF IInv, TypeOK, OneAtATime, AnswersAreTheirs, SignupIsTheirs, Quiet, NoSignup, CreateFailed, history
<1>7. LogoutSticks'
  BY <1>0, <1>s DEF IInv, TypeOK, LogoutSticks, CreateFailed, history
<1>8. UserKeepsEmail'
  BY <1>0, <1>s DEF IInv, TypeOK, UserKeepsEmail, NicknamesAreOfUsers, AnswersAreTheirs, CreateFailed, history
<1> QED
  BY <1>1, <1>2, <1>3, <1>4, <1>5, <1>6, <1>7, <1>8 DEF IInv

LEMMA AccountCreatedInv ==
    ASSUME IInv, AccountCreated
    PROVE  IInv'
<1>0. /\ stack \in Seq(Screens) /\ StackIsNested /\ Top \in Screens
      /\ (\A i \in DOMAIN stack : stack[i] # "tabs") <=> Top # "tabs"
  BY TabsOnTop DEF IInv, TypeOK
<1>s. /\ stack' \in Seq(Screens) /\ StackIsNested'
      /\ (\A i \in DOMAIN stack' : stack'[i] # "tabs") <=> Top' # "tabs"
      /\ Top' = Top
  BY <1>0 DEF AccountCreated, Top, StackIsNested
<1>a. /\ signup.id \in Emails /\ signup.step = "creating" /\ signup # NoSignup
      /\ signup' = [step |-> "created", id |-> signup.id]
  BY DEF IInv, TypeOK, AccountCreated, NoSignup
<1>1. TypeOK'
  <2>1. /\ signup' \in [step : {"creating", "created", "storing"}, id : Emails]
        /\ registered' \subseteq Emails /\ currentUser' \in Emails
    BY <1>a DEF IInv, TypeOK, AccountCreated
  <2> QED
    BY <1>s, <2>1 DEF IInv, TypeOK, AccountCreated, history
<1>2. StackIsNested'
  BY <1>s
<1>3. NicknamesAreOfUsers'
  BY DEF IInv, NicknamesAreOfUsers, AccountCreated
<1>4. OneAtATime'
  BY <1>s, <1>a DEF IInv, OneAtATime, Quiet, NoSignup, AccountCreated, history
<1>5. AnswersAreTheirs'
  BY <1>a DEF IInv, OneAtATime, AnswersAreTheirs, AccountCreated, history
<1>6. SignupIsTheirs'
  BY <1>s, <1>a DEF IInv, SignupIsTheirs, AccountCreated, history
<1>7. LogoutSticks'
  BY <1>0, <1>s DEF IInv, LogoutSticks, AccountCreated, history
<1>8. UserKeepsEmail'
  BY DEF IInv, UserKeepsEmail, AccountCreated, history
<1> QED
  BY <1>1, <1>2, <1>3, <1>4, <1>5, <1>6, <1>7, <1>8 DEF IInv

LEMMA UserCreatedInv ==
    ASSUME IInv, UserCreated
    PROVE  IInv'
<1>0. /\ stack \in Seq(Screens) /\ StackIsNested /\ Top \in Screens
      /\ (\A i \in DOMAIN stack : stack[i] # "tabs") <=> Top # "tabs"
  BY TabsOnTop DEF IInv, TypeOK
<1>s. /\ stack' \in Seq(Screens) /\ StackIsNested'
      /\ (\A i \in DOMAIN stack' : stack'[i] # "tabs") <=> Top' # "tabs"
      /\ Top' = Top
  BY <1>0 DEF UserCreated, Top, StackIsNested
<1>v. /\ users' \in [Emails -> [email : Emails \cup Googles \cup {Empty, Nil},
                            ExistNickname : {"none", "false", "true"}]]
      /\ \A a \in Emails :
            users'[a] = users[a] \/ (users'[a].email = a /\ users'[a].ExistNickname = "false")
  <2>1. users \in [Emails -> [email : Emails \cup Googles \cup {Empty, Nil},
                            ExistNickname : {"none", "false", "true"}]]
    BY DEF IInv, TypeOK
  <2>2. CASE users' = users
    BY <2>1, <2>2
  <2>3. CASE /\ emailText # Empty
             /\ users' = [users EXCEPT ![emailText] =
                            [email |-> emailText, ExistNickname |-> "false"]]
    <3>1. emailText \in Emails
      BY <2>3 DEF IInv, TypeOK
    <3> QED
      BY <2>1, <2>3, <3>1
  <2> QED
    BY <2>2, <2>3 DEF UserCreated
<1>1. TypeOK'
  <2>1. signup' \in {NoSignup} \cup [step : {"creating", "created", "storing"}, id : Emails]
        /\ registered' \subseteq Emails /\ currentUser' \in Emails \cup Googles \cup {Nil}
    <3>1. signup.id \in Emails
      BY DEF IInv, TypeOK, UserCreated, NoSignup
    <3> QED
      BY <3>1 DEF IInv, TypeOK, UserCreated, NoSignup
  <2>2. hasty' \in BOOLEAN /\ unfinished' \in BOOLEAN
    BY DEF UserCreated, IInv, TypeOK, history, Unfinished
  <2> QED
    BY <1>s, <1>v, <2>1, <2>2 DEF UserCreated, IInv, TypeOK
<1>2. StackIsNested'
  BY <1>s
<1>3. NicknamesAreOfUsers'
  BY <1>v DEF IInv, NicknamesAreOfUsers
<1>4. OneAtATime'
  BY <1>0, <1>s DEF IInv, TypeOK, OneAtATime, Quiet, NoSignup, UserCreated, history, Unfinished
<1>5. AnswersAreTheirs'
  BY <1>0, <1>s DEF IInv, TypeOK, OneAtATime, AnswersAreTheirs, Quiet, NoSignup, UserCreated, history, Unfinished
<1>6. SignupIsTheirs'
  BY <1>0, <1>s, ConstantsAssumption DEF IInv, TypeOK, OneAtATime, AnswersAreTheirs, SignupIsTheirs, Quiet, NoSignup, UserCreated, history, Unfinished
<1>7. LogoutSticks'
  BY <1>0, <1>s DEF IInv, TypeOK, LogoutSticks, UserCreated, history, Unfinished
<1>8. UserKeepsEmail'
  BY <1>v DEF IInv, UserKeepsEmail, UserCreated, history, Unfinished
<1> QED
  BY <1>1, <1>2, <1>3, <1>4, <1>5, <1>6, <1>7, <1>8 DEF IInv

LEMMA UserStoredInv ==
    ASSUME IInv, UserStored
    PROVE  IInv'
<1>0. /\ stack \in Seq(Screens) /\ StackIsNested /\ Top \in Screens
      /\ (\A i \in DOMAIN stack : stack[i] # "tabs") <=> Top # "tabs"
  BY TabsOnTop DEF IInv, TypeOK
<1>s. /\ stack' \in Seq(Screens) /\ StackIsNested'
      /\ (\A i \in DOMAIN stack' : stack'[i] # "tabs") <=> Top' # "tabs"
      /\ (Top # "signup" /\ Top' = Top) \/ (Top = "signup" /\ Top' = "signupDone")
  <2>1. Present("signup", "signupDone")
    BY DEF UserStored
  <2> QED
    BY <1>0, <2>1, Presents DEF Screens
<1>1. TypeOK'
  BY <1>0, <1>s, ConstantsAssumption DEF IInv, TypeOK, Screens, NoSignup, UserStored, history
<1>2. StackIsNested'
  BY <1>s
<1>3. NicknamesAreOfUsers'
  BY <1>0, <1>s DEF IInv, TypeOK, NicknamesAreOfUsers, UserStored, history
<1>4. OneAtATime'
  BY <1>0, <1>s DEF IInv, TypeOK, OneAtATime, Quiet, NoSignup, UserStored, history
<1>5. AnswersAreTheirs'
  BY <1>0, <1>s DEF IInv, TypeOK, OneAtATime, AnswersAreTheirs, Quiet, NoSignup, UserStored, history
<1>6. SignupIsTheirs'
  BY <1>0, <1>s, ConstantsAssumption DEF IInv, TypeOK, OneAtATime, AnswersAreTheirs, SignupIsTheirs, Quiet, NoSignup, UserStored, history
<1>7. LogoutSticks'
  BY <1>0, <1>s DEF IInv, TypeOK, LogoutSticks, UserStored, history
<1>8. UserKeepsEmail'
  BY <1>0, <1>s DEF IInv, TypeOK, UserKeepsEmail, NicknamesAreOfUsers, AnswersAreTheirs, UserStored, history
<1> QED
  BY <1>1, <1>2, <1>3, <1>4, <1>5, <1>6, <1>7, <1>8 DEF IInv

LEMMA ConfirmSignupInv ==
    ASSUME IInv, ConfirmSignup
    PROVE  IInv'
<1>0. /\ stack \in Seq(Screens) /\ StackIsNested /\ Top \in Screens
      /\ (\A i \in DOMAIN stack : stack[i] # "tabs") <=> Top # "tabs"
  BY TabsOnTop DEF IInv, TypeOK
<1>s. /\ stack' \in Seq(Screens) /\ StackIsNested'
      /\ (\A i \in DOMAIN stack' : stack'[i] # "tabs") <=> Top' # "tabs"
      /\ Top = "signupDone" /\ Top' = "nickname"
  BY <1>0, Replaces DEF ConfirmSignup, At
<1>1. TypeOK'
  BY <1>0, <1>s, ConstantsAssumption DEF IInv, TypeOK, Screens, NoSignup, ConfirmSignup, history
<1>2. StackIsNested'
  BY <1>s
<1>3. NicknamesAreOfUsers'
  BY <1>0, <1>s DEF IInv, TypeOK, NicknamesAreOfUsers, ConfirmSignup, history
<1>4. OneAtATime'
  BY <1>0, <1>s DEF IInv, TypeOK, OneAtATime, Quiet, NoSignup, ConfirmSignup, history
<1>5. AnswersAreTheirs'
  BY <1>0, <1>s DEF IInv, TypeOK, OneAtATime, AnswersAreTheirs, Quiet, NoSignup, ConfirmSignup, history
<1>6. SignupIsTheirs'
  BY <1>0, <1>s, ConstantsAssumption DEF IInv, TypeOK, OneAtATime, AnswersAreTheirs, SignupIsTheirs, Quiet, NoSignup, ConfirmSignup, history
<1>7. LogoutSticks'
  BY <1>0, <1>s DEF IInv, TypeOK, LogoutSticks, ConfirmSignup, history
<1>8. UserKeepsEmail'
  BY <1>0, <1>s DEF IInv, TypeOK, UserKeepsEmail, NicknamesAreOfUsers, AnswersAreTheirs, ConfirmSignup, history
<1> QED
  BY <1>1, <1>2, <1>3, <1>4, <1>5, <1>6, <1>7, <1>8 DEF IInv

LEMMA LeaveSignupInv ==
    ASSUME IInv, LeaveSignup
    PROVE  IInv'
<1>0. /\ stack \in Seq(Screens) /\ StackIsNested /\ Top \in Screens
      /\ (\A i \in DOMAIN stack : stack[i] # "tabs") <=> Top # "tabs"
  BY TabsOnTop DEF IInv, TypeOK
<1>s. /\ stack' \in Seq(Screens) /\ StackIsNested'
      /\ (\A i \in DOMAIN stack' : stack'[i] # "tabs") <=> Top' # "tabs"
      /\ Top = "signup" /\ Top' \notin {"tabs", "signupDone"}
  BY <1>0, Dismisses DEF LeaveSignup, At
<1>1. TypeOK'
  BY <1>0, <1>s, ConstantsAssumption DEF IInv, TypeOK, Screens, NoSignup, LeaveSignup, Unfinished
<1>2. StackIsNested'
  BY <1>s
<1>3. NicknamesAreOfUsers'
  BY <1>0, <1>s DEF IInv, TypeOK, NicknamesAreOfUsers, LeaveSignup, Unfinished
<1>4. OneAtATime'
  BY <1>0, <1>s DEF IInv, TypeOK, OneAtATime, Quiet, NoSignup, LeaveSignup, Unfinished
<1>5. AnswersAreTheirs'
  BY <1>0, <1>s DEF IInv, TypeOK, OneAtATime, AnswersAreTheirs, Quiet, NoSignup, LeaveSignup, Unfinished
<1>6. SignupIsTheirs'
  BY <1>0, <1>s, ConstantsAssumption DEF IInv, TypeOK, OneAtATime, AnswersAreTheirs, SignupIsTheirs, Quiet, NoSignup, LeaveSignup, Unfinished
<1>7. LogoutSticks'
  BY <1>0, <1>s DEF IInv, TypeOK, LogoutSticks, LeaveSignup, Unfinished
<1>8. UserKeepsEmail'
  BY <1>0, <1>s DEF IInv, TypeOK, UserKeepsEmail, NicknamesAreOfUsers, AnswersAreTheirs, LeaveSignup, Unfinished
<1> QED
  BY <1>1, <1>2, <1>3, <1>4, <1>5, <1>6, <1>7, <1>8 DEF IInv

LEMMA setNicknameInv ==
    ASSUME IInv, setNickname
    PROVE  IInv'
<1>0. /\ stack \in Seq(Screens) /\ StackIsNested /\ Top \in Screens
      /\ (\A i \in DOMAIN stack : stack[i] # "tabs") <=> Top # "tabs"
  BY TabsOnTop DEF IInv, TypeOK
<1>s. /\ stack' \in Seq(Screens) /\ StackIsNested'
      /\ (\A i \in DOMAIN stack' : stack'[i] # "tabs") <=> Top' # "tabs"
      /\ Top = "nickname" /\ ((savedId = Nil /\ Top' = Top) \/ (savedId # Nil /\ Top' = "tabs"))
  <2>0. Top = "nickname"
    BY DEF setNickname, At
  <2>1. CASE savedId = Nil /\ Crash("noSavedId")
    BY <1>0, <2>0, <2>1 DEF Crash, Top, StackIsNested
  <2>2. CASE savedId # Nil /\ Present("nickname", "tabs")
    BY <1>0, <2>0, <2>2, Presents DEF Screens
  <2> QED
    BY <2>1, <2>2 DEF setNickname
<1>h. ~hasty' => ~hasty /\ Quiet
  BY DEF setNickname, Acts
<1>1. TypeOK'
  BY <1>0, <1>s, <1>h, ConstantsAssumption DEF IInv, TypeOK, Screens, NoSignup, setNickname, Crash, At, Acts
<1>2. StackIsNested'
  BY <1>s
<1>3. NicknamesAreOfUsers'
  BY <1>0, <1>s, <1>h DEF IInv, TypeOK, NicknamesAreOfUsers, setNickname, Crash, At, Acts
<1>4. OneAtATime'
  BY <1>0, <1>s, <1>h DEF IInv, TypeOK, OneAtATime, Quiet, NoSignup, setNickname, Crash, At, Acts
<1>5. AnswersAreTheirs'
  BY <1>0, <1>s, <1>h DEF IInv, TypeOK, OneAtATime, AnswersAreTheirs, Quiet, NoSignup, setNickname, Crash, At, Acts
<1>6. SignupIsTheirs'
  BY <1>0, <1>s, <1>h, ConstantsAssumption DEF IInv, TypeOK, OneAtATime, AnswersAreTheirs, SignupIsTheirs, Quiet, NoSignup, setNickname, Crash, At, Acts
<1>7. LogoutSticks'
  BY <1>0, <1>s, <1>h DEF IInv, TypeOK, LogoutSticks, setNickname, Crash, At, Acts
<1>8. UserKeepsEmail'
  BY <1>0, <1>s, <1>h DEF IInv, TypeOK, UserKeepsEmail, NicknamesAreOfUsers, AnswersAreTheirs, setNickname, Crash, At, Acts
<1> QED
  BY <1>1, <1>2, <1>3, <1>4, <1>5, <1>6, <1>7, <1>8 DEF IInv

LEMMA NicknameStoredInv ==
    ASSUME IInv, NicknameStored
    PROVE  IInv'
<1>0. /\ stack \in Seq(Screens) /\ StackIsNested /\ Top \in Screens
      /\ (\A i \in DOMAIN stack : stack[i] # "tabs") <=> Top # "tabs"
  BY TabsOnTop DEF IInv, TypeOK
<1>s. /\ stack' \in Seq(Screens) /\ StackIsNested'
      /\ (\A i \in DOMAIN stack' : stack'[i] # "tabs") <=> Top' # "tabs"
      /\ Top' = Top
  <2>1. UNCHANGED stack
    BY DEF NicknameStored, Crash
  <2> QED
    BY <1>0, <2>1 DEF Top, StackIsNested
<1>1. TypeOK'
  BY <1>0, <1>s, ConstantsAssumption DEF IInv, TypeOK, Screens, NoSignup, NicknameStored, Crash, history
<1>2. StackIsNested'
  BY <1>s
<1>3. NicknamesAreOfUsers'
  BY <1>0, <1>s DEF IInv, TypeOK, NicknamesAreOfUsers, NicknameStored, Crash, history
<1>4. OneAtATime'
  BY <1>0, <1>s DEF IInv, TypeOK, OneAtATime, Quiet, NoSignup, NicknameStored, Crash, history
<1>5. AnswersAreTheirs'
  BY <1>0, <1>s DEF IInv, TypeOK, OneAtATime, AnswersAreTheirs, Quiet, NoSignup, NicknameStored, Crash, history
<1>6. SignupIsTheirs'
  BY <1>0, <1>s, ConstantsAssumption DEF IInv, TypeOK, OneAtATime, AnswersAreTheirs, SignupIsTheirs, Quiet, NoSignup, NicknameStored, Crash, history
<1>7. LogoutSticks'
  BY <1>0, <1>s DEF IInv, TypeOK, LogoutSticks, NicknameStored, Crash, history
<1>8. UserKeepsEmail'
  BY <1>0, <1>s DEF IInv, TypeOK, UserKeepsEmail, NicknamesAreOfUsers, AnswersAreTheirs, NicknameStored, Crash, history
<1> QED
  BY <1>1, <1>2, <1>3, <1>4, <1>5, <1>6, <1>7, <1>8 DEF IInv

LEMMA DismissAlertInv ==
    ASSUME IInv, DismissAlert
    PROVE  IInv'
<1>0. /\ stack \in Seq(Screens) /\ StackIsNested /\ Top \in Screens
      /\ (\A i \in DOMAIN stack : stack[i] # "tabs") <=> Top # "tabs"
  BY TabsOnTop DEF IInv, TypeOK
<1>s. /\ stack' \in Seq(Screens) /\ StackIsNested'
      /\ (\A i \in DOMAIN stack' : stack'[i] # "tabs") <=> Top' # "tabs"
      /\ Top \in {"alert", "askNickname"} /\ Top' \notin {"tabs", "signupDone"}
  BY <1>0, Dismisses DEF DismissAlert, At
<1>1. TypeOK'
  BY <1>0, <1>s, ConstantsAssumption DEF IInv, TypeOK, Screens, NoSignup, DismissAlert, history
<1>2. StackIsNested'
  BY <1>s
<1>3. NicknamesAreOfUsers'
  BY <1>0, <1>s DEF IInv, TypeOK, NicknamesAreOfUsers, DismissAlert, history
<1>4. OneAtATime'
  BY <1>0, <1>s DEF IInv, TypeOK, OneAtATime, Quiet, NoSignup, DismissAlert, history
<1>5. AnswersAreTheirs'
  BY <1>0, <1>s DEF IInv, TypeOK, OneAtATime, AnswersAreTheirs, Quiet, NoSignup, DismissAlert, history
<1>6. SignupIsTheirs'
  BY <1>0, <1>s, ConstantsAssumption DEF IInv, TypeOK, OneAtATime, AnswersAreTheirs, SignupIsTheirs, Quiet, NoSignup, DismissAlert, history
<1>7. LogoutSticks'
  BY <1>0, <1>s DEF IInv, TypeOK, LogoutSticks, DismissAlert, history
<1>8. UserKeepsEmail'
  BY <1>0, <1>s DEF IInv, TypeOK, UserKeepsEmail, NicknamesAreOfUsers, AnswersAreTheirs, DismissAlert, history
<1> QED
  BY <1>1, <1>2, <1>3, <1>4, <1>5, <1>6, <1>7, <1>8 DEF IInv

LEMMA moveToNickViewInv ==
    ASSUME IInv, moveToNickView
    PROVE  IInv'
<1>0. /\ stack \in Seq(Screens) /\ StackIsNested /\ Top \in Screens
      /\ (\A i \in DOMAIN stack : stack[i] # "tabs") <=> Top # "tabs"
  BY TabsOnTop DEF IInv, TypeOK
<1>s. /\ stack' \in Seq(Screens) /\ StackIsNested'
      /\ (\A i \in DOMAIN stack' : stack'[i] # "tabs") <=> Top' # "tabs"
      /\ Top = "askNickname" /\ Top' = "nickname"
  BY <1>0, Replaces DEF moveToNickView, At
<1>1. TypeOK'
  BY <1>0, <1>s, ConstantsAssumption DEF IInv, TypeOK, Screens, NoSignup, moveToNickView, history
<1>2. StackIsNested'
  BY <1>s
<1>3. NicknamesAreOfUsers'
  BY <1>0, <1>s DEF IInv, TypeOK, NicknamesAreOfUsers, moveToNickView, history
<1>4. OneAtATime'
  BY <1>0, <1>s DEF IInv, TypeOK, OneAtATime, Quiet, NoSignup, moveToNickView, history
<1>5. AnswersAreTheirs'
  BY <1>0, <1>s DEF IInv, TypeOK, OneAtATime, AnswersAreTheirs, Quiet, NoSignup, moveToNickView, history
<1>6. SignupIsTheirs'
  BY <1>0, <1>s, ConstantsAssumption DEF IInv, TypeOK, OneAtATime, AnswersAreTheirs, SignupIsTheirs, Quiet, NoSignup, moveToNickView, history
<1>7. LogoutSticks'
  BY <1>0, <1>s DEF IInv, TypeOK, LogoutSticks, moveToNickView, history
<1>8. UserKeepsEmail'
  BY <1>0, <1>s DEF IInv, TypeOK, UserKeepsEmail, NicknamesAreOfUsers, AnswersAreTheirs, moveToNickView, history
<1> QED
  BY <1>1, <1>2, <1>3, <1>4, <1>5, <1>6, <1>7, <1>8 DEF IInv

LEMMA logoutInv ==
    ASSUME IInv, logout
    PROVE  IInv'
<1>0. /\ stack \in Seq(Screens) /\ StackIsNested /\ Top \in Screens
      /\ (\A i \in DOMAIN stack : stack[i] # "tabs") <=> Top # "tabs"
  BY TabsOnTop DEF IInv, TypeOK
<1>s. /\ stack' \in Seq(Screens) /\ StackIsNested'
      /\ (\A i \in DOMAIN stack' : stack'[i] # "tabs") <=> Top' # "tabs"
      /\ Top = "tabs" /\ Top' \notin {"tabs", "signupDone"}
  BY <1>0, Dismisses DEF logout, At
<1>h. ~hasty' => ~hasty /\ Quiet
  BY DEF logout, Acts
<1>1. TypeOK'
  BY <1>0, <1>s, <1>h, ConstantsAssumption DEF IInv, TypeOK, Screens, NoSignup, logout, Acts
<1>2. StackIsNested'
  BY <1>s
<1>3. NicknamesAreOfUsers'
  BY <1>0, <1>s, <1>h DEF IInv, TypeOK, NicknamesAreOfUsers, logout, Acts
<1>4. OneAtATime'
  BY <1>0, <1>s, <1>h DEF IInv, TypeOK, OneAtATime, Quiet, NoSignup, logout, Acts
<1>5. AnswersAreTheirs'
  BY <1>0, <1>s, <1>h DEF IInv, TypeOK, OneAtATime, AnswersAreTheirs, Quiet, NoSignup, logout, Acts
<1>6. SignupIsTheirs'
  BY <1>0, <1>s, <1>h, ConstantsAssumption DEF IInv, TypeOK, OneAtATime, AnswersAreTheirs, SignupIsTheirs, Quiet, NoSignup, logout, Acts
<1>7. LogoutSticks'
  BY <1>0, <1>s, <1>h DEF IInv, TypeOK, LogoutSticks, logout, Acts
<1>8. UserKeepsEmail'
  BY <1>0, <1>s, <1>h DEF IInv, TypeOK, UserKeepsEmail, NicknamesAreOfUsers, AnswersAreTheirs, logout, Acts
<1> QED
  BY <1>1, <1>2, <1>3, <1>4, <1>5, <1>6, <1>7, <1>8 DEF IInv

LEMMA KillInv ==
    ASSUME IInv, Kill
    PROVE  IInv'
<1>0. /\ stack \in Seq(Screens) /\ StackIsNested /\ Top \in Screens
      /\ (\A i \in DOMAIN stack : stack[i] # "tabs") <=> Top # "tabs"
  BY TabsOnTop DEF IInv, TypeOK
<1>s. /\ stack' \in Seq(Screens) /\ StackIsNested'
      /\ (\A i \in DOMAIN stack' : stack'[i] # "tabs") <=> Top' # "tabs"
      /\ Top' = Top
  BY <1>0 DEF Kill, Crash, Top, StackIsNested
<1>1. TypeOK'
  BY <1>0, <1>s, ConstantsAssumption DEF IInv, TypeOK, Screens, NoSignup, Kill, Crash, Unfinished
<1>2. StackIsNested'
  BY <1>s
<1>3. NicknamesAreOfUsers'
  BY <1>0, <1>s DEF IInv, TypeOK, NicknamesAreOfUsers, Kill, Crash, Unfinished
<1>4. OneAtATime'
  BY <1>0, <1>s DEF IInv, TypeOK, OneAtATime, Quiet, NoSignup, Kill, Crash, Unfinished
<1>5. AnswersAreTheirs'
  BY <1>0, <1>s DEF IInv, TypeOK, OneAtATime, AnswersAreTheirs, Quiet, NoSignup, Kill, Crash, Unfinished
<1>6. SignupIsTheirs'
  <2>1. ~unfinished' => /\ ~unfinished /\ signup = NoSignup /\ Top # "signupDone"
                        /\ \A i \in DOMAIN asked : asked[i].step # "saved"
    BY DEF Kill, Unfinished
  <2> QED
    BY <1>s, <2>1 DEF IInv, SignupIsTheirs, NoSignup, Kill, Crash, Unfinished
<1>7. LogoutSticks'
  BY <1>0, <1>s DEF IInv, TypeOK, LogoutSticks, Kill, Crash, Unfinished
<1>8. UserKeepsEmail'
  BY <1>0, <1>s DEF IInv, TypeOK, UserKeepsEmail, NicknamesAreOfUsers, AnswersAreTheirs, Kill, Crash, Unfinished
<1> QED
  BY <1>1, <1>2, <1>3, <1>4, <1>5, <1>6, <1>7, <1>8 DEF IInv

LEMMA RelaunchInv ==
    ASSUME IInv, Relaunch
    PROVE  IInv'
<1>0. /\ stack \in Seq(Screens) /\ StackIsNested /\ Top \in Screens
      /\ (\A i \in DOMAIN stack : stack[i] # "tabs") <=> Top # "tabs"
  BY TabsOnTop DEF IInv, TypeOK
<1>s. /\ stack' \in Seq(Screens) /\ StackIsNested'
      /\ (\A i \in DOMAIN stack' : stack'[i] # "tabs") <=> Top' # "tabs"
      /\ Top' = "login"
  <2>1. stack' \in Seq(Screens) /\ Len(stack') = 1 /\ stack'[1] = "login" /\ DOMAIN stack' = {1}
    BY DEF Relaunch, Screens
  <2>2. stack' # <<>> /\ \A i \in DOMAIN stack' : stack'[i] = "login" /\ i = 1
    BY <2>1
  <2>3. Top' = "login"
    BY <2>1 DEF Top
  <2>4. StackIsNested'
    BY <2>1, <2>2 DEF StackIsNested
  <2> QED
    BY <2>1, <2>2, <2>3, <2>4
<1>1. TypeOK'
  BY <1>0, <1>s, ConstantsAssumption DEF IInv, TypeOK, Screens, NoSignup, Relaunch, AutoLogin, history
<1>2. StackIsNested'
  BY <1>s
<1>3. NicknamesAreOfUsers'
  BY <1>0, <1>s DEF IInv, TypeOK, NicknamesAreOfUsers, Relaunch, AutoLogin, history
<1>4. OneAtATime'
  BY <1>0, <1>s DEF IInv, TypeOK, OneAtATime, Quiet, NoSignup, Relaunch, AutoLogin, history
<1>5. AnswersAreTheirs'
  BY <1>0, <1>s DEF IInv, TypeOK, OneAtATime, AnswersAreTheirs, Quiet, NoSignup, Relaunch, AutoLogin, history
<1>6. SignupIsTheirs'
  BY <1>0, <1>s, ConstantsAssumption DEF IInv, TypeOK, OneAtATime, AnswersAreTheirs, SignupIsTheirs, Quiet, NoSignup, Relaunch, AutoLogin, history
<1>7. LogoutSticks'
  BY <1>0, <1>s DEF IInv, TypeOK, LogoutSticks, Relaunch, AutoLogin, history
<1>8. UserKeepsEmail'
  BY <1>0, <1>s DEF IInv, TypeOK, UserKeepsEmail, NicknamesAreOfUsers, AnswersAreTheirs, Relaunch, AutoLogin, history
<1> QED
  BY <1>1, <1>2, <1>3, <1>4, <1>5, <1>6, <1>7, <1>8 DEF IInv

\* IInv is inductive.
LEMMA StepInv == IInv /\ [Step]_vars => IInv'
<1> SUFFICES ASSUME IInv, [Step]_vars PROVE IInv'
  OBVIOUS
<1>1. CASE UNCHANGED vars
  BY <1>1 DEF vars, history, IInv, TypeOK, StackIsNested, NicknamesAreOfUsers, OneAtATime,
              AnswersAreTheirs, SignupIsTheirs, LogoutSticks, UserKeepsEmail, Top, Quiet
<1>2. CASE Step
  BY <1>2, AutoSignedInInv, AutoDocumentInv, TypeInv, loginButtonClickInv, GoogleSignInInv,
     updateCurrentUserInv, LoggedInInv, LoginFailedInv, GoogleAnsweredInv, OpenSignupInv,
     doSignUpInv, CreateFailedInv, AccountCreatedInv, UserCreatedInv, UserStoredInv, ConfirmSignupInv, LeaveSignupInv,
     setNicknameInv, NicknameStoredInv, DismissAlertInv, moveToNickViewInv, logoutInv,
     KillInv, RelaunchInv
     DEF Step
<1> QED
  BY <1>1, <1>2

\* The inductive invariant holds in every reachable state.
THEOREM Invariance == Spec => []IInv
<1>1. Init => IInv
  BY InitInv
<1>2. IInv /\ [Step]_vars => IInv'
  BY StepInv
<1> QED
  BY <1>1, <1>2, PTL DEF Spec

\* The variables keep to their types, and automatic logins that asked for a
\* document have an account to ask for.
THEOREM TypeCorrect == Spec => []TypeOK
<1>1. IInv => TypeOK
  BY DEF IInv
<1> QED
  BY <1>1, Invariance, PTL

\* Whatever logins, sign-ups and alerts are outstanding, they present one tab bar.
THEOREM OneTabBarOnly == Spec => []OneTabBar
<1>1. IInv => OneTabBar
  BY DEF IInv, StackIsNested, OneTabBar
<1> QED
  BY <1>1, Invariance, PTL

\* A user who waits for answers and finishes his sign-ups is one account.
THEOREM OneAccountOnly == Spec => []OneAccount
<1>1. IInv => OneAccount
  <2> SUFFICES ASSUME IInv, ~hasty, ~unfinished, At("tabs") PROVE savedId = currentUser
    BY DEF OneAccount
  <2>1. Top = "tabs" /\ savedId # Nil
    <3>1. stack # <<>> /\ Len(stack) \in DOMAIN stack
      BY DEF IInv, TypeOK, StackIsNested
    <3> QED
      BY <3>1 DEF IInv, LogoutSticks, At, Top
  <2>2. signup.step \notin {"created", "storing"} /\ asked = <<>>
    BY <2>1 DEF IInv, SignupIsTheirs, OneAtATime, NoSignup
  <2> QED
    BY <2>1, <2>2 DEF IInv, SignupIsTheirs
<1> QED
  BY <1>1, Invariance, PTL

\* A logout lasts.
THEOREM LogoutLasts == Spec => []LogoutSticks
<1>1. IInv => LogoutSticks
  BY DEF IInv
<1> QED
  BY <1>1, Invariance, PTL

\* A User document keeps its e-mail.
THEOREM EmailsKept == Spec => []UserKeepsEmail
<1>1. IInv => UserKeepsEmail
  BY DEF IInv
<1> QED
  BY <1>1, Invariance, PTL

=============================================================================
