----------------------------- MODULE WorkQueue -----------------------------
(***************************************************************************)
(* The work graph's job queue (apps/server/src/work): items with a status  *)
(* machine, depends_on edges, and a lease per live execution.  Every       *)
(* operation of the service is one database transaction and is one action  *)
(* here; an operation that throws changes nothing and is not a step.       *)
(*                                                                         *)
(* Time is a bounded counter.  A run id is fresh for every claim, and so   *)
(* is the attempt number of an item, so a lease is named by its attempt.   *)
(***************************************************************************)
EXTENDS Naturals, Sequences, FiniteSets

CONSTANTS
  Items,        \* work item ids
  Principals,   \* claimants
  DependsOn,    \* the depends_on edges each item is opened with
  LeaseTtl,     \* how long a claim lives without a heartbeat
  WakeTimes,    \* wakeAt values an item may be opened with
  MaxTime,      \* bound on the clock
  MaxAttempt,   \* bound on the claims of one item
  NoLease,      \* the null lease column
  NoWake        \* the null wake_at column

ASSUME DependsOnAssumption == DependsOn \in [Items -> SUBSET Items]
ASSUME TimeAssumption ==
  /\ LeaseTtl \in Nat \ {0}
  /\ MaxTime \in Nat
  /\ MaxAttempt \in Nat
  /\ WakeTimes \subseteq Nat \cup {NoWake}
  /\ NoWake \notin Nat
ASSUME LeaseAssumption == NoLease \notin [holder: Principals, run: Nat, expires: Nat]

VARIABLES
  status,   \* the status column; "absent" until the item is opened
  lease,    \* the lease column
  attempt,  \* the attempt column
  wake,     \* the wake_at column
  now,      \* the server's clock
  issued,   \* every lease ever returned by claim: what workers may present
  hops      \* the status_changed events of the last transaction, per item,
            \* as the path of statuses they announce

vars == <<status, lease, attempt, wake, now, issued, hops>>

Statuses == {"pending", "ready", "claimed", "running", "awaiting_approval",
             "blocked", "failed", "done", "stale", "cancelled"}

Lease == [holder: Principals, run: Nat, expires: Nat]

(* The authoritative transition table. *)
Transitions(from) ==
  CASE from = "pending"           -> {"ready", "cancelled"}
    [] from = "ready"             -> {"claimed", "pending", "cancelled"}
    [] from = "claimed"           -> {"running", "ready", "cancelled"}
    [] from = "running"           -> {"done", "awaiting_approval", "blocked",
                                      "failed", "ready", "cancelled"}
    [] from = "awaiting_approval" -> {"done", "ready", "stale", "cancelled"}
    [] from = "blocked"           -> {"ready", "cancelled"}
    [] from = "failed"            -> {"ready", "cancelled"}
    [] from = "done"              -> {"stale"}
    [] from = "stale"             -> {"pending", "ready", "cancelled"}
    [] OTHER                      -> {}

(* RunOutcome.status -> the status the item lands on. *)
OutcomeToStatus ==
  [done                |-> "done",
   human_blocked       |-> "awaiting_approval",
   blocked             |-> "blocked",
   needs_decomposition |-> "blocked",
   failed              |-> "failed",
   cancelled           |-> "cancelled"]

Init ==
  /\ status = [i \in Items |-> "absent"]
  /\ lease = [i \in Items |-> NoLease]
  /\ attempt = [i \in Items |-> 0]
  /\ wake = [i \in Items |-> NoWake]
  /\ now = 0
  /\ issued = {}
  /\ hops = [i \in Items |-> <<>>]

-----------------------------------------------------------------------------
(* Helpers over a status assignment s. *)

UpstreamsDone(s, i) == \A u \in DependsOn[i] : s[u] = "done"

(* Mutant: the dependents' own upstreams are not checked.                   *)
PromotableUnchecked(s, i) ==
  {d \in Items : i \in DependsOn[d] /\ s[d] \in {"pending", "stale"}}

(* The dependents a transition of i to done releases. *)
Promotable(s, i) ==
  {d \in Items : /\ i \in DependsOn[d]
                 /\ s[d] \in {"pending", "stale"}
                 /\ UpstreamsDone(s, d)}

(* Mutant: a sleeper gets a status outside the table. *)
InitialStatusUnknown(w) == IF w # NoWake /\ w > now THEN "sleeping" ELSE "ready"

InitialStatus(w) == IF w # NoWake /\ w > now THEN "pending" ELSE "ready"

NoHops == [i \in Items |-> <<>>]

(* Mutants of Held: any run of the holder passes; an expired lease passes. *)
HeldByAnyRun(t) ==
  /\ lease[t.item] # NoLease
  /\ lease[t.item].holder = t.holder
  /\ lease[t.item].expires > now

HeldForever(t) ==
  /\ lease[t.item] # NoLease
  /\ lease[t.item].holder = t.holder
  /\ lease[t.item].run = t.run

(* assertHeldLease: the presented lease is the stored one and has not lapsed. *)
Held(t) ==
  /\ lease[t.item] # NoLease
  /\ lease[t.item].holder = t.holder
  /\ lease[t.item].run = t.run
  /\ lease[t.item].expires > now

(* Mutant: the transition table is not consulted. *)
TransitionUnchecked(i, to) ==
  /\ status[i] # "absent"
  /\ status' = [status EXCEPT ![i] = to]
  /\ lease' = [lease EXCEPT ![i] = NoLease]
  /\ hops' = [NoHops EXCEPT ![i] = <<status[i], to>>]
  /\ UNCHANGED <<attempt, wake, now, issued>>

(* One validated status change that clears the lease and appends its event. *)
Transition(i, to) ==
  /\ to \in Transitions(status[i])
  /\ status' = [status EXCEPT ![i] = to]
  /\ lease' = [lease EXCEPT ![i] = NoLease]
  /\ hops' = [NoHops EXCEPT ![i] = <<status[i], to>>]
  /\ UNCHANGED <<attempt, wake, now, issued>>

(* The last hop of path; reaching done promotes the released dependents in *)
(* the same transaction.                                                   *)
Settle(i, path) ==
  LET to == path[Len(path)]
      s  == [status EXCEPT ![i] = to]
      up == IF to = "done" THEN Promotable(s, i) ELSE {}
  IN /\ \A k \in 1..(Len(path) - 1) : path[k + 1] \in Transitions(path[k])
     /\ status' = [j \in Items |-> IF j \in up THEN "ready" ELSE s[j]]
     /\ lease' = [j \in Items |-> IF j \in up \cup {i} THEN NoLease ELSE lease[j]]
     /\ hops' = [j \in Items |-> IF j = i THEN path
                                 ELSE IF j \in up THEN <<status[j], "ready">>
                                 ELSE <<>>]
     /\ UNCHANGED <<attempt, wake, now, issued>>

-----------------------------------------------------------------------------
(* Opening and working items. *)

(* Mutant: any dependency parks the item, its upstreams done or not. *)
OpenParksAlways(i, w) ==
  /\ status[i] = "absent"
  /\ \A u \in DependsOn[i] : status[u] # "absent"
  /\ status' = [status EXCEPT ![i] =
                  IF DependsOn[i] = {} THEN InitialStatus(w) ELSE "pending"]
  /\ wake' = [wake EXCEPT ![i] = w]
  /\ hops' = NoHops
  /\ UNCHANGED <<lease, attempt, now, issued>>

Open(i, w) ==
  /\ status[i] = "absent"
  /\ \A u \in DependsOn[i] : status[u] # "absent"
  /\ status' = [status EXCEPT ![i] =
                  IF UpstreamsDone(status, i) THEN InitialStatus(w) ELSE "pending"]
  /\ wake' = [wake EXCEPT ![i] = w]
  /\ hops' = NoHops
  /\ UNCHANGED <<lease, attempt, now, issued>>

(* Rows locked by other transactions are skipped, so any ready row may be *)
(* the best one a claimer sees.                                           *)
Claim(p, i) ==
  /\ status[i] = "ready"
  /\ attempt[i] < MaxAttempt
  /\ LET run == attempt[i] + 1
     IN /\ attempt' = [attempt EXCEPT ![i] = run]
        /\ lease' = [lease EXCEPT ![i] =
                       [holder |-> p, run |-> run, expires |-> now + LeaseTtl]]
        /\ issued' = issued \cup {[item |-> i, holder |-> p, run |-> run]}
  /\ status' = [status EXCEPT ![i] = "claimed"]
  /\ hops' = [NoHops EXCEPT ![i] = <<"ready", "claimed">>]
  /\ UNCHANGED <<wake, now>>

Heartbeat(t) ==
  /\ Held(t)
  /\ lease' = [lease EXCEPT ![t.item] =
                 [holder |-> t.holder, run |-> t.run, expires |-> now + LeaseTtl]]
  /\ hops' = NoHops
  /\ UNCHANGED <<status, attempt, wake, now, issued>>

Release(t) ==
  /\ Held(t)
  /\ Transition(t.item, "ready")

(* A finished run passed through running, which only the events show. *)
RunPath(from, to) ==
  IF from = "claimed" THEN <<"claimed", "running", to>> ELSE <<from, to>>

Complete(t, outcome) ==
  /\ Held(t)
  /\ Settle(t.item, RunPath(status[t.item], OutcomeToStatus[outcome]))

(* A human approved the gated result. *)
ResolveApproval(i) == Settle(i, <<status[i], "done">>)

Cancel(i) == Transition(i, "cancelled")

-----------------------------------------------------------------------------
(* The Invalidator's surface. *)

MarkStale(i) == Transition(i, "stale")

Revive(i) == Transition(i, IF UpstreamsDone(status, i) THEN "ready" ELSE "pending")

Demote(i) == Transition(i, "pending")

RevokeLease(i) == Transition(i, "ready")

-----------------------------------------------------------------------------
(* The clock. *)

(* Mutant: only running items are reclaimed. *)
LapsedRunningOnly(i, t) == status[i] = "running" /\ lease[i].expires <= t

Lapsed(i, t) == status[i] \in {"claimed", "running"} /\ lease[i].expires <= t

Due(i, t) == status[i] = "pending" /\ wake[i] # NoWake /\ wake[i] <= t

(* Mutant: the reclaim forgets to clear the lease. *)
TickKeepsLease(t, skipped) ==
  LET flipped == {i \in Items \ skipped : Lapsed(i, t) \/ Due(i, t)}
  IN /\ flipped # {}
     /\ status' = [i \in Items |-> IF i \in flipped THEN "ready" ELSE status[i]]
     /\ hops' = [i \in Items |->
                   IF i \in flipped THEN <<status[i], "ready">> ELSE <<>>]
     /\ UNCHANGED <<lease, attempt, wake, now, issued>>

(* One lease-reclaim tick.  Its time was read when the clock's cycle began, *)
(* and rows locked by other transactions are skipped.                       *)
Tick(t, skipped) ==
  LET reclaimed == {i \in Items \ skipped : Lapsed(i, t)}
      woken     == {i \in Items \ skipped : Due(i, t)}
  IN /\ reclaimed \cup woken # {}
     /\ status' = [i \in Items |->
                     IF i \in reclaimed \cup woken THEN "ready" ELSE status[i]]
     /\ lease' = [i \in Items |-> IF i \in reclaimed THEN NoLease ELSE lease[i]]
     /\ hops' = [i \in Items |->
                   IF i \in reclaimed \cup woken THEN <<status[i], "ready">> ELSE <<>>]
     /\ UNCHANGED <<attempt, wake, now, issued>>

Advance ==
  /\ now < MaxTime
  /\ now' = now + 1
  /\ hops' = NoHops
  /\ UNCHANGED <<status, lease, attempt, wake, issued>>

-----------------------------------------------------------------------------
WorkerNext ==
  \/ \E i \in Items, w \in WakeTimes : Open(i, w)
  \/ \E p \in Principals, i \in Items : Claim(p, i)
  \/ \E t \in issued : Heartbeat(t)
  \/ \E t \in issued : Release(t)
  \/ \E t \in issued, outcome \in DOMAIN OutcomeToStatus : Complete(t, outcome)
  \/ \E i \in Items : ResolveApproval(i)
  \/ \E i \in Items : Cancel(i)
  \/ \E t \in 0..now, skipped \in SUBSET Items : Tick(t, skipped)
  \/ Advance

InvalidatorNext ==
  \/ \E i \in Items : MarkStale(i)
  \/ \E i \in Items : Revive(i)
  \/ \E i \in Items : Demote(i)
  \/ \E i \in Items : RevokeLease(i)

Next == WorkerNext \/ InvalidatorNext

Spec == Init /\ [][Next]_vars

(* The queue with nobody invalidating results. *)
WorkerSpec == Init /\ [][WorkerNext]_vars

(* The clock keeps ticking: setInterval re-arms it, a failing source does  *)
(* not stop it, and a row is only skipped while a transaction holds it.    *)
Fairness == WF_vars(Advance) /\ WF_vars(Tick(now, {}))

FairSpec == Spec /\ Fairness

-----------------------------------------------------------------------------
(* The columns and the issued leases have their types. *)
TypeOK ==
  /\ status \in [Items -> Statuses \cup {"absent"}]
  /\ lease \in [Items -> Lease \cup {NoLease}]
  /\ attempt \in [Items -> Nat]
  /\ wake \in [Items -> Nat \cup {NoWake}]
  /\ now \in Nat
  /\ issued \subseteq [item: Items, holder: Principals, run: Nat]
  /\ hops \in [Items -> Seq(Statuses)]

(* A lease only rides a live execution: an item has a lease exactly when it *)
(* is claimed, and the lease is that of its latest attempt.                 *)
LeaseRidesExecution ==
  \A i \in Items :
    /\ lease[i] # NoLease <=> status[i] \in {"claimed", "running"}
    /\ lease[i] # NoLease => lease[i].run = attempt[i]

(* An expired, released, reclaimed, revoked or completed lease is dead for  *)
(* good: no later claim, heartbeat or tick makes it usable again, whatever  *)
(* its (zombie) holder still calls.                                         *)
Usable(t) ==
  /\ lease[t.item] # NoLease
  /\ lease[t.item].holder = t.holder /\ lease[t.item].run = t.run
  /\ now < lease[t.item].expires

LeaseDeathIsFinal ==
  [][\A t \in issued : ~Usable(t) => ~Usable(t)']_vars

(* The spine is a valid transition log of the graph: the events a step      *)
(* appends about an opened item lead from its old status to its new one     *)
(* along legal transitions, and a step that announces nothing moves nothing.*)
PathExplains(path, from, to) ==
  IF path = <<>> THEN from = to
  ELSE /\ path[1] = from
       /\ path[Len(path)] = to
       /\ \A k \in 1..(Len(path) - 1) : path[k + 1] \in Transitions(path[k])

JournalExplainsStatus ==
  [][\A i \in Items :
       status[i] # "absent" => PathExplains(hops'[i], status[i], status'[i])]_vars

(* While nobody invalidates, an item that left pending has all upstreams    *)
(* done or had a wakeAt, and one that waits has something to wait for:      *)
(* whoever finishes the last upstream releases the dependent.               *)
Released(i) == status[i] \notin {"absent", "pending", "cancelled"}

DependencyGate ==
  \A i \in Items : Released(i) /\ wake[i] = NoWake => UpstreamsDone(status, i)

NoLostPromotion ==
  \A i \in Items :
    status[i] = "pending" /\ wake[i] = NoWake => ~UpstreamsDone(status, i)

(* The item of a worker that died (its lease lapsed and stays lapsed) comes *)
(* back to the queue, and a sleeper wakes: the clock leaves nothing behind. *)
DueIsServed ==
  \A i \in Items :
    /\ (status[i] = "claimed" /\ lease[i].expires <= now) ~> status[i] # "claimed"
    /\ (status[i] = "pending" /\ wake[i] # NoWake) ~> status[i] # "pending"
=============================================================================
