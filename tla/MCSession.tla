------------------------------ MODULE MCSession ------------------------------
(* Two e-mail accounts to mistake for each other, and a Google account. *)
EXTENDS Session, TLC

Names == Permutations(Emails)

=============================================================================
