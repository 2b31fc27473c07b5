------------------------------ MODULE MCMyRoutes ------------------------------
(* An old route and a new one, with the title typed for it; the cache of the  *)
(* device lacks a comment on the old route.                                   *)
EXTENDS MyRoutes

CommentsUnheld == {<<1, "Comment">>}

=============================================================================
