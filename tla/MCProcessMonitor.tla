-------------------------- MODULE MCProcessMonitor --------------------------
(* Constants for the run of ProcessMonitor. *)
EXTENDS ProcessMonitor

TwoChecks == {1,2}
=============================================================================
