---------------------------- MODULE MCReporting ----------------------------
(* Reporting on a small instance. *)
EXTENDS Reporting
============================================================================
