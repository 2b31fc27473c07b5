-------------------------------- MODULE Ages --------------------------------
(***************************************************************************)
(* How long ago a comment was written: the label calTime of                *)
(* ContentViewController.swift makes of an age, and what such a label      *)
(* means.  Ages are whole seconds, negative when the clock of the author   *)
(* is ahead: every bound is a whole second, so that the label of a         *)
(* fraction is that of the seconds passed, or "now" in the first.          *)
(***************************************************************************)
EXTENDS Integers

Units == {"minutes", "hours", "days", "weeks", "months"}

Label == [unit: Units \cup {"now", "unknown"}, count: Nat]

In(unit, count) == [unit |-> unit, count |-> count]

calTime(time) ==
    IF time > 0 /\ time < 60 THEN In("now", 0)
    ELSE IF time >= 60 /\ time < 3600 THEN In("minutes", time \div 60)
    ELSE IF time >= 3600 /\ time < 86400 THEN In("hours", time \div 3600)
    ELSE IF time >= 86400 /\ time < 604800 THEN In("days", time \div 86400)
    ELSE IF time >= 604800 /\ time < 2419200 THEN In("weeks", time \div 604800)
    ELSE IF time >= 2419200 /\ time < 29030400 THEN In("months", time \div 2419200)
    ELSE In("unknown", 0)

-----------------------------------------------------------------------------

\* What a label means: seconds in a unit, and how many of it make the next one.
\* A month is four weeks.
Size == [minutes |-> 60, hours |-> 3600, days |-> 86400, weeks |-> 604800, months |-> 2419200]

Most == [minutes |-> 60, hours |-> 24, days |-> 7, weeks |-> 4, months |-> 12]

\* A label fits an age that is at least so many of its unit and not one more,
\* in the largest unit there is one of.
Fits(label, time) ==
    /\ label.unit = "unknown" => time <= 0 \/ time >= 12 * Size.months
    /\ label.unit = "now" => 0 < time /\ time < Size.minutes
    /\ label.unit \in Units =>
          /\ 1 <= label.count /\ label.count < Most[label.unit]
          /\ label.count * Size[label.unit] <= time
          /\ time < (label.count + 1) * Size[label.unit]
=============================================================================
