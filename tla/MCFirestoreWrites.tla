-------------------------- MODULE MCFirestoreWrites --------------------------
(* A small instance of the write path: two users, a pipeline of two. *)
EXTENDS FirestoreWrites
=============================================================================
