------------------------------- MODULE Outbox -------------------------------
(***************************************************************************)
(* What the write path of the Firestore client promises, whatever happens  *)
(* to streams, users and the process.  Each user has an outbox.  The       *)
(* server comes to know a user's writes in the order they were made, with  *)
(* no gap; the outbox lets go of them in that order, and only of those the *)
(* server has judged; and the one who made a write is told at most once,   *)
(* of a success only if the write was applied.                             *)
(***************************************************************************)
EXTENDS Integers, Sequences

CONSTANTS Users, Writes

VARIABLES
    owner,     \* who made each write, in the order they were made
    applied,   \* writes the server applied at least once
    refused,   \* writes the server refused at least once
    settled,   \* writes that left the outbox
    told       \* what was said of each write

vars == <<owner, applied, refused, settled, told>>

Init ==
    /\ owner = <<>>
    /\ applied = {} /\ refused = {} /\ settled = {}
    /\ told = [w \in Writes |-> <<>>]

Earlier(w) == {v \in 1..(w - 1) : owner[v] = owner[w]}

Judged == applied \cup refused

Make(u) ==
    /\ owner' = Append(owner, u)
    /\ UNCHANGED <<applied, refused, settled, told>>

\* The server judges some writes of one user, or none, and none before its elders.
Verdicts ==
    /\ applied \subseteq applied' /\ refused \subseteq refused'
    /\ \A w \in applied' \cup refused' : w \in DOMAIN owner /\ Earlier(w) \subseteq Judged'

Judge == Verdicts /\ UNCHANGED <<owner, settled, told>>

MayTell(w, outcome) ==
    /\ told[w] = <<>>
    /\ w \in IF outcome = "ok" THEN applied ELSE Judged

Tell(w, outcome) ==
    /\ MayTell(w, outcome)
    /\ told' = [told EXCEPT ![w] = <<outcome>>]

\* A kill can come between the two halves of Settle, and cuts the connection too.
TellOnly(w) == Tell(w, "ok") /\ Verdicts /\ UNCHANGED <<owner, settled>>

Settle(w) ==
    /\ w \in Judged \ settled
    /\ Earlier(w) \subseteq settled
    /\ settled' = settled \cup {w}
    /\ UNCHANGED told \/ \E outcome \in {"ok", "failed"} : Tell(w, outcome)
    /\ UNCHANGED <<owner, applied, refused>>

Next ==
    \/ \E u \in Users : Make(u)
    \/ Judge
    \/ \E w \in DOMAIN owner : Settle(w) \/ TellOnly(w)

Spec == Init /\ [][Next]_vars
=============================================================================
