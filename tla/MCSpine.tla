------------------------------ MODULE MCSpine ------------------------------
(* One selective and one catch-all consumer of a two-topic log. *)
EXTENDS Spine

CONSTANTS c1, c2, x, y

Selectors == [c \in {c1, c2} |-> IF c = c1 THEN {x} ELSE {x, y}]
=============================================================================
