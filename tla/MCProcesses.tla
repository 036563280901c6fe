---------------------------- MODULE MCProcesses ----------------------------
(* A chain, a longer line and a join of process nodes. *)
EXTENDS Processes

CONSTANTS u1, u2, low

Chain == [i \in {u1, low} |-> IF i = low THEN {u1} ELSE {}]

Line == [i \in {u1, u2, low} |->
           CASE i = low -> {u2} [] i = u2 -> {u1} [] OTHER -> {}]

Join == [i \in {u1, u2, low} |-> IF i = low THEN {u1, u2} ELSE {}]
=============================================================================
