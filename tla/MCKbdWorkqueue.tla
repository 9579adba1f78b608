--------------------------- MODULE MCKbdWorkqueue ---------------------------
(* Finite instances of KbdWorkqueue for TLC. *)
EXTENDS KbdWorkqueue

CONSTANTS a, b   \* a key with a name of one character and one of two

Names == [k \in Keys |-> IF k = b THEN 2 ELSE 1]
=============================================================================
