---------------------------- MODULE MCNetServer ----------------------------
(* Finite instances of NetServer for TLC. *)
EXTENDS NetServer, TLC

CONSTANT c1   \* the client that may send without pause

Others == Clients \ {c1}
Symmetry == Permutations(Others)

\* a digit that fills the buffer together with its NUL, another for c1
OneDigit == [c \in Clients |-> IF c = c1 THEN {<<1>>} ELSE {<<7>>}]
\* c1 types words of two lengths, the others one word
Mixed == [c \in Clients |-> IF c = c1 THEN {<<7>>, <<1, 2>>} ELSE {<<7>>}]
=============================================================================
