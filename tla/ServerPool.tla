----------------------------- MODULE ServerPool -----------------------------
(***************************************************************************)
(* What the TCP server of lab 8 promises about its places: a client that   *)
(* arrives gets the lowest free place, is turned away for good only when   *)
(* there is none, and holds at most one place until it leaves.             *)
(***************************************************************************)
EXTENDS Integers

CONSTANTS Clients, NoClient, Slots

VARIABLES serving,     \* slot -> the client that has it
          turnedAway,  \* clients that connected when every place was taken
          up           \* the server has not ended

vars == <<serving, turnedAway, up>>

Known(c) == c \in turnedAway \/ \E s \in Slots : serving[s] = c

Init ==
  /\ serving = [s \in Slots |-> NoClient]
  /\ turnedAway = {}
  /\ up = TRUE

Admit(c, s) ==
  /\ up /\ ~Known(c)
  /\ serving[s] = NoClient
  /\ \A t \in Slots : t < s => serving[t] # NoClient
  /\ serving' = [serving EXCEPT ![s] = c]
  /\ UNCHANGED <<turnedAway, up>>

TurnAway(c) ==
  /\ up /\ ~Known(c)
  /\ \A s \in Slots : serving[s] # NoClient
  /\ turnedAway' = turnedAway \cup {c}
  /\ UNCHANGED <<serving, up>>

Leave(s) ==
  /\ up /\ serving[s] # NoClient
  /\ serving' = [serving EXCEPT ![s] = NoClient]
  /\ UNCHANGED <<turnedAway, up>>

Stop ==
  /\ up /\ up' = FALSE
  /\ serving' = [s \in Slots |-> NoClient]
  /\ turnedAway' = {}

Next ==
  \/ \E c \in Clients, s \in Slots : Admit(c, s)
  \/ \E c \in Clients : TurnAway(c)
  \/ \E s \in Slots : Leave(s)
  \/ Stop

Spec == Init /\ [][Next]_vars
=============================================================================
