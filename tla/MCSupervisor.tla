---------------------------- MODULE MCSupervisor ----------------------------
(* Finite instances of Supervisor for TLC: see Supervisor_signals.cfg. *)
EXTENDS Supervisor
=============================================================================
