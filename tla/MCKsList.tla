------------------------------ MODULE MCKsList ------------------------------
(* A small instance of KsList in which an iteration deletes more than once. *)
EXTENDS KsList

=============================================================================
