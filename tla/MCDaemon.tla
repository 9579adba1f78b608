------------------------------ MODULE MCDaemon ------------------------------
(* Finite instances of Daemon for TLC: see the Daemon_*.cfg files. *)
EXTENDS Daemon
=============================================================================
