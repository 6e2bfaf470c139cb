----------------------------- MODULE MCBackups -----------------------------
(* An administrator and the worker's sweep over two backup jobs.           *)
EXTENDS Backups
=============================================================================
