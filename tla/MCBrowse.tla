------------------------------ MODULE MCBrowse ------------------------------
(* A small instance of the feed and a post page: 1 is the seeded document   *)
(* doc1, which is watched; 2 is doc2, watched and no post; 3 is a route of  *)
(* the wizard.                                                              *)
EXTENDS Browse
MCStamp == [p \in {1, 3} |-> p]
MCWatched == <<1, 2>>
=============================================================================
