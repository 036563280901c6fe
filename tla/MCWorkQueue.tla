--------------------------- MODULE MCWorkQueue ---------------------------
(* Small instances of WorkQueue: a join of two upstreams into one item,    *)
(* and a chain of two.                                                     *)
EXTENDS WorkQueue

CONSTANTS u1, u2, d

Join == [i \in {u1, u2, d} |-> IF i = d THEN {u1, u2} ELSE {}]

Chain == [i \in {u1, d} |-> IF i = d THEN {u1} ELSE {}]

Wakes == {NoWake, 1}
=============================================================================
