---------------------------- MODULE HumanRequest ----------------------------
(***************************************************************************)
(* The states of a human request and its authoritative transition table    *)
(* (packages/core/src/humangate.ts).                                       *)
(***************************************************************************)

RequestStates == {"pending", "approved", "denied", "modified", "answered",
                  "acknowledged", "expired", "superseded"}

(* What a person may answer. *)
Verdicts == {"approved", "denied", "modified", "answered", "acknowledged"}

RequestTransitions(from) ==
  CASE from = "pending"              -> RequestStates \ {"pending"}
    [] from \in {"approved", "modified"} -> {"superseded"}
    [] OTHER                         -> {}

(* What an invalidated subject takes down with it. *)
Supersedable == {"pending", "approved", "modified"}
=============================================================================
