----------------------------- MODULE MCAuthoring -----------------------------
(* Two drafts, so that one pass of the wizard can disturb another; two places;
   trips of one day and two, or of one and six, whose last day has no section. *)
EXTENDS Authoring, TLC

TwoDays == {0, 86400}
TwoRows == {0, 1}

SixDays == {0, 5 * 86400}
LastRow == {0, 5}

\* Names of documents are only compared.
Names == Permutations(Drafts) \cup Permutations(PlaceIds)

=============================================================================
