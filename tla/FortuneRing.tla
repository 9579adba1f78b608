----------------------------- MODULE FortuneRing -----------------------------
(***************************************************************************)
(* What /proc/fortune of lab 4 promises: cookies that were written are     *)
(* read back whole, one per opened file, in the order they were written,   *)
(* and from the first one again after the last.                            *)
(***************************************************************************)
EXTENDS Integers, Sequences

CONSTANT Texts   \* what a cookie may say

VARIABLES cookies,  \* the cookies kept, oldest first
          pos,      \* the one the next reader gets
          out,      \* what the last reader got
          up        \* the module is loaded

vars == <<cookies, pos, out, up>>

Init == cookies = <<>> /\ pos = 1 /\ out = <<>> /\ up = FALSE

Load == ~up /\ up' = TRUE /\ UNCHANGED <<cookies, pos, out>>

Write(t) ==
  /\ up
  /\ cookies' = Append(cookies, t)
  /\ UNCHANGED <<pos, out, up>>

Read ==
  /\ up /\ pos <= Len(cookies)
  /\ out' = cookies[pos] /\ pos' = pos + 1
  /\ UNCHANGED <<cookies, up>>

Wrap ==
  /\ up /\ pos > Len(cookies) /\ pos' = 1
  /\ UNCHANGED <<cookies, out, up>>

Unload == up /\ up' = FALSE /\ cookies' = <<>> /\ pos' = 1 /\ out' = <<>>

Next == Load \/ Read \/ Wrap \/ Unload \/ \E t \in Texts : Write(t)

Spec == Init /\ [][Next]_vars
=============================================================================
