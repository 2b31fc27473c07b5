------------------------------ MODULE AgesProofs ------------------------------
(***************************************************************************)
(* The labels of calTime (module Ages), for every age.                     *)
(***************************************************************************)
EXTENDS Ages, TLAPS

\* The ranges of calTime leave no gap and do not overlap: an age gets the label
\* that fits it, "unknown" only when it is not positive or reaches a year.
THEOREM LabelsFit ==
    ASSUME NEW time \in Int
    PROVE  calTime(time) \in Label /\ Fits(calTime(time), time)
<1>1. CASE time <= 0 \/ time >= 29030400
  BY <1>1 DEF calTime, Fits, Label, In, Units, Size
<1>2. CASE time > 0 /\ time < 60
  BY <1>2 DEF calTime, Fits, Label, In, Units, Size
<1>3. CASE time >= 60 /\ time < 3600
  BY <1>3 DEF calTime, Fits, Label, In, Units, Size, Most
<1>4. CASE time >= 3600 /\ time < 86400
  BY <1>4 DEF calTime, Fits, Label, In, Units, Size, Most
<1>5. CASE time >= 86400 /\ time < 604800
  BY <1>5 DEF calTime, Fits, Label, In, Units, Size, Most
<1>6. CASE time >= 604800 /\ time < 2419200
  BY <1>6 DEF calTime, Fits, Label, In, Units, Size, Most
<1>7. CASE time >= 2419200 /\ time < 29030400
  BY <1>7 DEF calTime, Fits, Label, In, Units, Size, Most
<1> QED
  BY <1>1, <1>2, <1>3, <1>4, <1>5, <1>6, <1>7

\* No other label would do: in particular, what can be told in a larger unit is
\* never told in a smaller one.
THEOREM LabelsAreUnique ==
    ASSUME NEW time \in Int, NEW unit \in Units, NEW count \in Nat,
           Fits(In(unit, count), time)
    PROVE  calTime(time) = In(unit, count)
<1>1. CASE unit = "minutes"
  BY <1>1 DEF calTime, Fits, In, Units, Size, Most
<1>2. CASE unit = "hours"
  BY <1>2 DEF calTime, Fits, In, Units, Size, Most
<1>3. CASE unit = "days"
  BY <1>3 DEF calTime, Fits, In, Units, Size, Most
<1>4. CASE unit = "weeks"
  BY <1>4 DEF calTime, Fits, In, Units, Size, Most
<1>5. CASE unit = "months"
  BY <1>5 DEF calTime, Fits, In, Units, Size, Most
<1> QED
  BY <1>1, <1>2, <1>3, <1>4, <1>5 DEF Units
=============================================================================
