--------------------------- MODULE MCNotifications ---------------------------
(* Every combination of mishaps. *)
EXTENDS Notifications

AllMishaps == SUBSET Mishaps
=============================================================================
