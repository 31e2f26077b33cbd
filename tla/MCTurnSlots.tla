----------------------------- MODULE MCTurnSlots -----------------------------
(* TurnSlots for TLC: of the two bots the first runs one turn at a time    *)
(* and the second two.                                                     *)
EXTENDS TurnSlots

CONSTANTS b1, b2

LimitOfBot == [b \in Bots |-> IF b = b1 THEN 1 ELSE 2]

=============================================================================
