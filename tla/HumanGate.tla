----------------------------- MODULE HumanGate -----------------------------
(***************************************************************************)
(* The human gate (apps/server/src/humangate): requests a person resolves, *)
(* and the SLA sweep that follows up, escalates and finally expires those  *)
(* nobody answers.  A sweep scans the due requests once and then handles   *)
(* them one transaction each, so answers, supersessions and the sweeps of  *)
(* another orchestrator fall between its steps.                            *)
(***************************************************************************)
EXTENDS Naturals, Sequences, HumanRequest

CONSTANTS
  Requests,   \* request ids
  Subjects,   \* what they are about
  Sweepers,   \* processes running the clock
  SlaHours,   \* slaHours of each request, or NoSla
  Assignees,  \* principals and roles
  Path,       \* escalationPath of each request
  Owner,      \* its first assignee
  MaxTime,    \* bound on the clock
  MaxLag,     \* bound on how old the time of a sweep may be
  NoSla, NoWake, Idle

GateAssumption ==
  /\ NoSla \notin Nat /\ NoWake \notin Nat
  /\ SlaHours \in [Requests -> (Nat \ {0}) \cup {NoSla}]
  /\ Path \in [Requests -> Seq(Assignees)] /\ Owner \in [Requests -> Assignees]
  /\ MaxTime \in Nat /\ MaxLag \in Nat

VARIABLES
  state,     \* the state column; "absent" until requested
  subject,   \* the subject_ref column
  count,     \* routing.followUpCount
  wake,      \* routing.nextFollowUpAt
  assignee,  \* routing.assignee
  now,       \* the server's clock
  sweep,     \* per sweeper: the tick in progress [at, due], or Idle
  begun      \* history: each request's first wake

row  == <<state, subject, count, wake, assignee>>
vars == <<row, now, sweep, begun>>

Init ==
  /\ state = [r \in Requests |-> "absent"]
  /\ subject \in [Requests -> Subjects]
  /\ count = [r \in Requests |-> 0]
  /\ wake = [r \in Requests |-> NoWake]
  /\ assignee = Owner
  /\ now = 0
  /\ sweep = [p \in Sweepers |-> Idle]
  /\ begun = [r \in Requests |-> NoWake]

IsDue(r, t) == wake[r] # NoWake /\ wake[r] <= t

NextFollowUpAt(r, t) == IF SlaHours[r] = NoSla THEN NoWake ELSE t + SlaHours[r]

-----------------------------------------------------------------------------
(* A caller may pin the first wake; otherwise it is one SLA away. *)
Request(r, pinned) ==
  /\ state[r] = "absent"
  /\ LET first == IF pinned # NoWake THEN pinned ELSE NextFollowUpAt(r, now)
     IN /\ wake' = [wake EXCEPT ![r] = first]
        /\ begun' = [begun EXCEPT ![r] = first]
  /\ state' = [state EXCEPT ![r] = "pending"]
  /\ UNCHANGED <<subject, count, assignee, now, sweep>>

(* Mutant: the state is the option the card offered, not the verdict. *)
ResolveAsOption(r, verdict) ==
  /\ state[r] # "absent" /\ verdict \in RequestTransitions(state[r])
  /\ state' = [state EXCEPT ![r] = IF verdict = "approved" THEN "approve" ELSE verdict]
  /\ UNCHANGED <<subject, count, wake, assignee, now, sweep, begun>>

(* The transition table is all that limits a verdict. *)
Resolve(r, verdict) ==
  /\ state[r] # "absent" /\ verdict \in RequestTransitions(state[r])
  /\ state' = [state EXCEPT ![r] = verdict]
  /\ UNCHANGED <<subject, count, wake, assignee, now, sweep, begun>>

SupersedeForSubject(s) ==
  LET hit == {r \in Requests : subject[r] = s /\ state[r] \in Supersedable}
  IN /\ hit # {}
     /\ state' = [r \in Requests |-> IF r \in hit THEN "superseded" ELSE state[r]]
     /\ UNCHANGED <<subject, count, wake, assignee, now, sweep, begun>>

-----------------------------------------------------------------------------
(* The sweep of one clock tick, whose time was read when its cycle began.  *)

ScanDue(p, t) ==
  /\ sweep[p] = Idle /\ now <= t + MaxLag
  /\ sweep' = [sweep EXCEPT ![p] =
       [at |-> t, due |-> {r \in Requests : state[r] = "pending" /\ IsDue(r, t)}]]
  /\ sweep'[p].due # {}
  /\ UNCHANGED <<row, now, begun>>

(* Done with r: the tick ends with its last due request. *)
Swept(p, r) ==
  sweep' = [sweep EXCEPT ![p] =
    IF sweep[p].due = {r} THEN Idle
    ELSE [at |-> sweep[p].at, due |-> sweep[p].due \ {r}]]

(* The ladder: nudge the assignee, then climb the path, then give up. *)
DecideSla(r, t) ==
  LET next == NextFollowUpAt(r, t)
  IN CASE count[r] = 0 ->
            [to |-> "pending", count |-> 1, assignee |-> assignee[r], wake |-> next]
       [] count[r] \in 1..Len(Path[r]) ->
            [to |-> "pending", count |-> count[r] + 1,
             assignee |-> Path[r][count[r]], wake |-> next]
       [] OTHER ->
            [to |-> "expired", count |-> count[r], assignee |-> assignee[r],
             wake |-> NoWake]

(* Mutants: a row is handled as scanned; only its state is looked at again. *)
SweepAsScanned(p, r) ==
  /\ sweep[p] # Idle /\ r \in sweep[p].due
  /\ LET d == DecideSla(r, sweep[p].at)
     IN /\ state' = [state EXCEPT ![r] = IF @ = "pending" THEN d.to ELSE @]
        /\ count' = [count EXCEPT ![r] = d.count]
        /\ assignee' = [assignee EXCEPT ![r] = d.assignee]
        /\ wake' = [wake EXCEPT ![r] = d.wake]
  /\ Swept(p, r)
  /\ UNCHANGED <<subject, now, begun>>

SweepStateOnly(p, r) ==
  /\ sweep[p] # Idle /\ r \in sweep[p].due
  /\ IF state[r] = "pending"
       THEN LET d == DecideSla(r, sweep[p].at)
            IN /\ state' = [state EXCEPT ![r] = d.to]
               /\ count' = [count EXCEPT ![r] = d.count]
               /\ assignee' = [assignee EXCEPT ![r] = d.assignee]
               /\ wake' = [wake EXCEPT ![r] = d.wake]
       ELSE UNCHANGED <<state, count, assignee, wake>>
  /\ Swept(p, r)
  /\ UNCHANGED <<subject, now, begun>>

(* One due request under its row lock, looked at again. *)
SweepOne(p, r) ==
  /\ sweep[p] # Idle /\ r \in sweep[p].due
  /\ IF state[r] = "pending" /\ IsDue(r, sweep[p].at)
       THEN LET d == DecideSla(r, sweep[p].at)
            IN /\ state' = [state EXCEPT ![r] = d.to]
               /\ count' = [count EXCEPT ![r] = d.count]
               /\ assignee' = [assignee EXCEPT ![r] = d.assignee]
               /\ wake' = [wake EXCEPT ![r] = d.wake]
       ELSE UNCHANGED <<state, count, assignee, wake>>
  /\ Swept(p, r)
  /\ UNCHANGED <<subject, now, begun>>

(* A failing transaction or a restart abandons the rest of the sweep. *)
AbandonSweep(p) ==
  /\ sweep[p] # Idle
  /\ sweep' = [sweep EXCEPT ![p] = Idle]
  /\ UNCHANGED <<row, now, begun>>

Advance ==
  /\ now < MaxTime
  /\ now' = now + 1
  /\ UNCHANGED <<row, sweep, begun>>

-----------------------------------------------------------------------------
Next ==
  \/ \E r \in Requests, pinned \in (0..MaxTime) \cup {NoWake} : Request(r, pinned)
  \/ \E r \in Requests, v \in Verdicts : Resolve(r, v)
  \/ \E s \in Subjects : SupersedeForSubject(s)
  \/ \E p \in Sweepers, t \in 0..now : ScanDue(p, t)
  \/ \E p \in Sweepers, r \in Requests : SweepOne(p, r)
  \/ \E p \in Sweepers : AbandonSweep(p)
  \/ Advance

Spec == Init /\ [][Next]_vars

-----------------------------------------------------------------------------
TypeOK ==
  /\ state \in [Requests -> RequestStates \cup {"absent"}]
  /\ subject \in [Requests -> Subjects]
  /\ count \in [Requests -> Nat]
  /\ wake \in [Requests -> Nat \cup {NoWake}]
  /\ assignee \in [Requests -> Assignees]
  /\ now \in Nat
  /\ sweep \in [Sweepers -> [at: Nat, due: SUBSET Requests] \cup {Idle}]
  /\ begun \in [Requests -> Nat \cup {NoWake}]

(* Nobody is rushed: whatever number of sweepers scanned the same overdue  *)
(* request, each rung of the ladder takes a full SLA from the one before.  *)
EveryRungTakesAnSla ==
  \A r \in Requests :
    SlaHours[r] # NoSla /\ count[r] > 0
      => begun[r] + (count[r] - 1) * SlaHours[r] <= now

(* A request expires only after everyone on its path was asked, and waits  *)
(* for the person its rung names; one without an SLA is followed up at most*)
(* once and never expires.                                                 *)
LadderClimbed ==
  \A r \in Requests :
    /\ state[r] = "expired" => count[r] = Len(Path[r]) + 1
    /\ assignee[r] = IF count[r] <= 1 THEN Owner[r] ELSE Path[r][count[r] - 1]
    /\ SlaHours[r] = NoSla => count[r] <= 1 /\ state[r] # "expired"

(* Once answered, superseded or expired, a request is not chased: a sweep  *)
(* that scanned it earlier leaves its routing alone.                       *)
NotChased ==
  \A r \in Requests :
    state[r] \notin {"absent", "pending"} => UNCHANGED <<count[r], wake[r], assignee[r]>>

SettledIsNotChased == [][NotChased]_vars

(* No request is forgotten: while one with an SLA is pending, a follow-up  *)
(* is scheduled at most one SLA ahead (the first one where its caller put  *)
(* it), so ticks that keep coming settle it.                               *)
NoRequestForgotten ==
  \A r \in Requests :
    state[r] = "pending" /\ SlaHours[r] # NoSla
      => /\ wake[r] # NoWake
         /\ wake[r] = begun[r] \/ wake[r] <= now + SlaHours[r]
=============================================================================
