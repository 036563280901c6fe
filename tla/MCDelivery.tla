----------------------------- MODULE MCDelivery -----------------------------
(* Instances of Delivery: an approval and a question in one channel. *)
EXTENDS Delivery

CONSTANTS r1, r2

MCKindOf == [r \in Requests |-> IF r = r1 THEN "approval" ELSE "question"]
=============================================================================
