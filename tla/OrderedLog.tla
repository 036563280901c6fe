----------------------------- MODULE OrderedLog -----------------------------
(***************************************************************************)
(* What the event spine promises its consumers (docs/concepts/spine.md):   *)
(* one log that only grows at its end, by whole transactions, and durable, *)
(* ordered, at-least-once subscriptions.  A redelivery is a stuttering     *)
(* step here.                                                              *)
(***************************************************************************)
EXTENDS Naturals, Sequences

CONSTANTS Consumers, Topics, Selects

VARIABLES
  entries,    \* the topics of the committed events, in order
  delivered   \* how far each consumer has seen its matching events

vars == <<entries, delivered>>

Init ==
  /\ entries = <<>>
  /\ delivered = [c \in Consumers |-> 0]

(* A transaction commits its events together, after every earlier event. *)
Publish ==
  /\ Len(entries') > Len(entries)
  /\ SubSeq(entries', 1, Len(entries)) = entries
  /\ UNCHANGED delivered

(* First delivery of the next event the consumer selects. *)
Deliver(c) ==
  /\ \E n \in (delivered[c] + 1)..Len(entries) :
       /\ entries[n] \in Selects[c]
       /\ \A m \in (delivered[c] + 1)..(n - 1) : entries[m] \notin Selects[c]
       /\ delivered' = [delivered EXCEPT ![c] = n]
  /\ UNCHANGED entries

Next == Publish \/ \E c \in Consumers : Deliver(c)

Spec == Init /\ [][Next]_vars
=============================================================================
