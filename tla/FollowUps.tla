----------------------------- MODULE FollowUps -----------------------------
(***************************************************************************)
(* The follow-up-cadence skill (extensions/skills/follow-up-cadence) as    *)
(* the invoker runs it: a sweep over the work items whose follow-up is     *)
(* due, from the clock or from an agent's tool call.  For each item, in id *)
(* order, it may open an escalation, sends the nudge and then records the  *)
(* contact; every one of these is a call of another service, so sweeps     *)
(* interleave and die between them.                                        *)
(***************************************************************************)
EXTENDS Naturals, FiniteSetsExt

CONSTANTS
  N,             \* the work items are 1..N, in id order
  Sweeps,        \* skill runs in progress, finitely many
  Cadence,       \* per item: minutes from one nudge to the next, or Never
  EscalateAfter, \* per item: escalateAfterDays, or Never
  FirstDue,      \* per item: the nextAt it is opened with
  MaxClock, MaxFaults,
  Never, Away

Items == 1..N

FollowUpsAssumption ==
  /\ IsFiniteSet(Sweeps) /\ N \in Nat /\ MaxClock \in Nat /\ MaxFaults \in Nat /\ Never \notin Nat
  /\ Cadence \in [Items -> (Nat \ {0}) \cup {Never}]
  /\ EscalateAfter \in [Items -> Nat \cup {Never}] /\ FirstDue \in [Items -> Nat]

VARIABLES
  open,      \* the item is neither done nor cancelled
  nextAt,    \* follow_up.nextAt
  contact,   \* follow_up.lastContactAt
  notice,    \* per item: its pending notifications
  sweep,     \* per sweep: [at, todo, step], or Away
  clock,
  nudges,    \* history: the times of the sweeps that sent each item's nudge
  faults     \* history: sweeps that were cut short

rows == <<open, nextAt, contact, notice>>
vars == <<rows, sweep, clock, nudges, faults>>

Init ==
  /\ open = [i \in Items |-> TRUE]
  /\ nextAt = FirstDue
  /\ contact = [i \in Items |-> Never]
  /\ notice = [i \in Items |-> 0]
  /\ sweep = [p \in Sweeps |-> Away]
  /\ clock = 0
  /\ nudges = [i \in Items |-> {}]
  /\ faults = 0

-----------------------------------------------------------------------------
DueFollowUps(t) == {i \in Items : open[i] /\ nextAt[i] <= t}

Begin(p, t, due) ==
  /\ sweep[p] = Away /\ due # {}
  /\ sweep' = [sweep EXCEPT ![p] = [at |-> t, todo |-> due, step |-> "draft"]]
  /\ UNCHANGED <<rows, clock, nudges, faults>>

(* The tick's minute, or the moment of a tool call. *)
Sweep(p) == Begin(p, clock, DueFollowUps(clock))

(* A run for one named item asks neither whether it is due nor open. *)
SweepItem(p, i) == Begin(p, clock, {i})

At(p, step) == sweep[p] # Away /\ sweep[p].step = step
Item(p) == Min(sweep[p].todo)
Step(p, step) == sweep' = [sweep EXCEPT ![p].step = step]
Done(p) ==
  sweep' = [sweep EXCEPT ![p] =
    IF sweep[p].todo = {Item(p)} THEN Away
    ELSE [@ EXCEPT !.todo = sweep[p].todo \ {Item(p)}, !.step = "draft"]]

(* Opened at time 0; a pending notification for the item is looked for. *)
CheckEscalation(p) ==
  /\ At(p, "draft")
  /\ LET i == Item(p) IN
       Step(p, IF EscalateAfter[i] # Never /\ sweep[p].at >= EscalateAfter[i] /\ notice[i] = 0
                 THEN "notify" ELSE "send")
  /\ UNCHANGED <<rows, clock, nudges, faults>>

Notify(p) ==
  /\ At(p, "notify")
  /\ notice' = [notice EXCEPT ![Item(p)] = @ + 1]
  /\ Step(p, "send")
  /\ UNCHANGED <<open, nextAt, contact, clock, nudges, faults>>

(* Delivery answers; an unsent nudge is reported and its item skipped. *)
Send(p) ==
  /\ At(p, "send")
  /\ nudges' = [nudges EXCEPT ![Item(p)] = @ \cup {sweep[p].at}]
  /\ Step(p, "record")
  /\ UNCHANGED <<rows, clock, faults>>

(* Mutant: the cadence is advanced although nothing was sent. *)
NotSentAdvances(p) ==
  /\ At(p, "send") /\ faults < MaxFaults
  /\ faults' = faults + 1
  /\ Step(p, "record")
  /\ UNCHANGED <<rows, clock, nudges>>

NotSent(p) ==
  /\ At(p, "send") /\ faults < MaxFaults
  /\ faults' = faults + 1
  /\ Done(p)
  /\ UNCHANGED <<rows, clock, nudges>>

(* The first minute after t that the cadence fires, unless it is too far.  *)
CronNext(i, t) == IF Cadence[i] = Never THEN Never ELSE t + Cadence[i]

(* recordFollowUpContact; a cadence that never fires throws, after the     *)
(* nudge went out, and ends the sweep.                                     *)
Record(p) ==
  /\ At(p, "record")
  /\ LET i == Item(p) IN
       IF CronNext(i, sweep[p].at) = Never
         THEN /\ sweep' = [sweep EXCEPT ![p] = Away]
              /\ UNCHANGED <<nextAt, contact>>
         ELSE /\ contact' = [contact EXCEPT ![i] = sweep[p].at]
              /\ nextAt' = [nextAt EXCEPT ![i] = CronNext(i, sweep[p].at)]
              /\ Done(p)
  /\ UNCHANGED <<open, notice, clock, nudges, faults>>

-----------------------------------------------------------------------------
(* A statement throws or the server stops: the rest is left to a later run.*)
Cut(p) ==
  /\ sweep[p] # Away /\ faults < MaxFaults
  /\ sweep' = [sweep EXCEPT ![p] = Away]
  /\ faults' = faults + 1
  /\ UNCHANGED <<rows, clock, nudges>>

(* A person acknowledges; the item is done or cancelled elsewhere. *)
Acknowledge(i) ==
  /\ notice[i] > 0
  /\ notice' = [notice EXCEPT ![i] = @ - 1]
  /\ UNCHANGED <<open, nextAt, contact, sweep, clock, nudges, faults>>

Close(i) ==
  /\ open[i]
  /\ open' = [open EXCEPT ![i] = FALSE]
  /\ UNCHANGED <<nextAt, contact, notice, sweep, clock, nudges, faults>>

Advance ==
  /\ clock < MaxClock
  /\ clock' = clock + 1
  /\ UNCHANGED <<rows, sweep, nudges, faults>>

Next ==
  \/ \E p \in Sweeps :
       \/ Sweep(p) \/ CheckEscalation(p) \/ Notify(p) \/ Send(p) \/ NotSent(p)
       \/ Record(p) \/ Cut(p)
       \/ \E i \in Items : SweepItem(p, i)
  \/ \E i \in Items : Acknowledge(i) \/ Close(i)
  \/ Advance

Spec == Init /\ [][Next]_vars

-----------------------------------------------------------------------------
TypeOK ==
  /\ open \in [Items -> BOOLEAN] /\ nextAt \in [Items -> Nat]
  /\ contact \in [Items -> Nat \cup {Never}] /\ notice \in [Items -> Nat]
  /\ sweep \in [Sweeps -> [at: Nat, todo: SUBSET Items, step: {"draft", "notify", "send", "record"}]
                             \cup {Away}]
  /\ clock \in Nat /\ nudges \in [Items -> SUBSET Nat] /\ faults \in Nat

(* Overlapping and interrupted sweeps: a contact on record was made, by a  *)
(* sweep of that time (a nudge that could not be sent does not move the    *)
(* cadence), and its next date is later.                                   *)
ContactsWereMade ==
  \A i \in Items : contact[i] # Never =>
    /\ contact[i] \in nudges[i]
    /\ nextAt[i] > contact[i]

(* Looking for a pending notification and opening one are two calls: as    *)
(* many may be pending as sweeps ran side by side, and never more.         *)
EscalationsBounded == \A i \in Items : notice[i] <= Cardinality(Sweeps)
=============================================================================
