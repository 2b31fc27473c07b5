---------------------------- MODULE LikeRegister ----------------------------
(* What the heart promises: per account a switch that every tap flips once,   *)
(* unless nobody is logged in when its answer comes: then it may be lost.     *)

CONSTANT Accounts

VARIABLES
    liked,    \* who likes the post
    waiting,  \* accounts whose tap has not taken effect yet
    attended  \* accounts at whose device somebody is logged in

vars == <<liked, waiting, attended>>

Init ==
    /\ liked = [a \in Accounts |-> FALSE]
    /\ waiting = {}
    /\ attended = {}

Tap(a) ==
    /\ a \in attended \ waiting
    /\ waiting' = waiting \cup {a}
    /\ UNCHANGED <<liked, attended>>

Flip(a) ==
    /\ a \in waiting
    /\ waiting' = waiting \ {a}
    /\ liked' = [liked EXCEPT ![a] = ~@]
    /\ UNCHANGED attended

Lose(a) ==
    /\ a \in waiting \ attended
    /\ waiting' = waiting \ {a}
    /\ UNCHANGED <<liked, attended>>

LogInOrOut ==
    /\ attended' \in SUBSET Accounts
    /\ UNCHANGED <<liked, waiting>>

Next == LogInOrOut \/ \E a \in Accounts : Tap(a) \/ Flip(a) \/ Lose(a)

Spec == Init /\ [][Next]_vars

FairSpec == Spec /\ \A a \in Accounts : WF_vars(Flip(a) \/ Lose(a))

=============================================================================
