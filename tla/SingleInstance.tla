--------------------------- MODULE SingleInstance ---------------------------
(***************************************************************************)
(* What the daemon of lab 1 promises to whoever starts it several times:   *)
(* at most one process is the daemon, only that process writes the file    *)
(* that tells its pid, and it does its work only once the file names it.   *)
(***************************************************************************)
CONSTANTS Procs, NoProc, Empty

VARIABLES active,     \* the process that is the daemon, NoProc without one
          published,  \* what the pid file says
          working     \* the daemon is past its start-up

vars == <<active, published, working>>

Init ==
  /\ active = NoProc
  /\ published \in Procs \cup {Empty}
  /\ working = FALSE

Acquire(p) ==
  /\ active = NoProc
  /\ active' = p
  /\ UNCHANGED <<published, working>>

Clear ==
  /\ active # NoProc /\ ~working
  /\ published' = Empty
  /\ UNCHANGED <<active, working>>

Publish ==
  /\ active # NoProc /\ ~working
  /\ published' = active
  /\ UNCHANGED <<active, working>>

Work ==
  /\ active # NoProc /\ published = active
  /\ working' = TRUE
  /\ UNCHANGED <<active, published>>

Stop ==
  /\ active # NoProc
  /\ active' = NoProc /\ working' = FALSE
  /\ UNCHANGED published

Next == Clear \/ Publish \/ Work \/ Stop \/ \E p \in Procs : Acquire(p)

Spec == Init /\ [][Next]_vars
=============================================================================
