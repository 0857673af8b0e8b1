-------------------------- MODULE MCDatabaseWorker --------------------------
(* Model values for the runs of DatabaseWorker. *)
EXTENDS DatabaseWorker

CONSTANTS s1, w1, w2
=============================================================================
