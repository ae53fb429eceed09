---------------------------- MODULE MCJobWorker -----------------------------
(* Small instances of JobWorker for TLC; the .cfg files give the constants. *)
EXTENDS JobWorker
=============================================================================
