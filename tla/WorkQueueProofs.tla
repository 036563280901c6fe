-------------------------- MODULE WorkQueueProofs --------------------------
(***************************************************************************)
(* Proofs about the work queue, for every set of items and principals,     *)
(* every dependency graph and every bound.                                 *)
(***************************************************************************)
EXTENDS WorkQueue, TLAPS

(* The legs of a path a run takes through the table. *)
LEMMA OutcomeStatuses ==
  ASSUME NEW outcome \in DOMAIN OutcomeToStatus
  PROVE  OutcomeToStatus[outcome] \in
           {"done", "awaiting_approval", "blocked", "failed", "cancelled"}
BY DEF OutcomeToStatus

(* A legal hop ends in a status of the table. *)
LEMMA TransitionsAreStatuses ==
  ASSUME NEW from, NEW to \in Transitions(from)
  PROVE  /\ to \in Statuses
         /\ from \in Statuses
BY DEF Transitions, Statuses

-----------------------------------------------------------------------------
(* What each kind of status write does to the typed state. *)
LEMMA TransitionType ==
  ASSUME TypeOK, NEW i \in Items, NEW to, Transition(i, to)
  PROVE  TypeOK'
<1>1. to \in Statuses /\ status[i] \in Statuses
  BY TransitionsAreStatuses DEF Transition
<1>2. <<status[i], to>> \in Seq(Statuses)
  BY <1>1
<1>3. NoHops \in [Items -> Seq(Statuses)]
  BY DEF NoHops
<1>4. hops' \in [Items -> Seq(Statuses)]
  BY <1>2, <1>3 DEF Transition
<1> QED
  BY <1>1, <1>4 DEF Transition, TypeOK

LEMMA SettleType ==
  ASSUME TypeOK, NEW i \in Items, NEW path,
         path \in Seq(Statuses), Len(path) >= 2, Settle(i, path)
  PROVE  TypeOK'
<1> DEFINE to == path[Len(path)]
           s == [status EXCEPT ![i] = to]
           up == IF to = "done" THEN Promotable(s, i) ELSE {}
<1>1. to \in Statuses
  OBVIOUS
<1>2. s \in [Items -> Statuses \cup {"absent"}]
  BY <1>1 DEF TypeOK
<1>3. status' = [j \in Items |-> IF j \in up THEN "ready" ELSE s[j]]
  BY DEF Settle
<1>4. status' \in [Items -> Statuses \cup {"absent"}]
  <2> HIDE DEF s, up
  <2> QED BY <1>2, <1>3 DEF Statuses
<1>5. \A j \in up : status[j] \in Statuses
  BY <1>1 DEF Promotable, Statuses, TypeOK
<1>6. hops' = [j \in Items |-> IF j = i THEN path
                               ELSE IF j \in up THEN <<status[j], "ready">>
                               ELSE <<>>]
  BY DEF Settle
<1>7. hops' \in [Items -> Seq(Statuses)]
  <2> HIDE DEF up
  <2>1. \A j \in up : <<status[j], "ready">> \in Seq(Statuses)
    BY <1>5 DEF Statuses
  <2>2. <<>> \in Seq(Statuses)
    OBVIOUS
  <2> QED BY <1>6, <2>1, <2>2
<1>8. lease' \in [Items -> Lease \cup {NoLease}]
  BY DEF Settle, TypeOK
<1> QED
  BY <1>4, <1>7, <1>8 DEF Settle, TypeOK

LEMMA RunPathType ==
  ASSUME NEW from \in Statuses, NEW to \in Statuses
  PROVE  RunPath(from, to) \in Seq(Statuses) /\ Len(RunPath(from, to)) >= 2
<1>1. CASE from = "claimed"
  <2>1. RunPath(from, to) = <<"claimed", "running", to>>
    BY <1>1 DEF RunPath
  <2>2. <<"claimed", "running", to>> \in Seq(Statuses)
    BY DEF Statuses
  <2> QED BY <2>1, <2>2
<1>2. CASE from # "claimed"
  <2>1. RunPath(from, to) = <<from, to>>
    BY <1>2 DEF RunPath
  <2> QED BY <2>1
<1> QED BY <1>1, <1>2

(* A settled path starts at a status of the table: an unopened item is     *)
(* never settled.                                                          *)
LEMMA SettleFrom ==
  ASSUME NEW i \in Items, NEW to, Settle(i, <<status[i], to>>)
  PROVE  /\ to \in Transitions(status[i])
         /\ status[i] \in Statuses /\ to \in Statuses
<1>1. to \in Transitions(status[i])
  BY DEF Settle
<1> QED BY <1>1, TransitionsAreStatuses

-----------------------------------------------------------------------------
(* A presented lease that is held names a claimed item of its holder. *)
LEMMA HeldTyped ==
  ASSUME TypeOK, NEW t \in issued
  PROVE  /\ t.item \in Items /\ t.holder \in Principals /\ t.run \in Nat
         /\ Held(t) => lease[t.item] \in Lease
BY DEF TypeOK, Held

LEMMA TypeStep == TypeOK /\ [Next]_vars => TypeOK'
<1> SUFFICES ASSUME TypeOK, [Next]_vars PROVE TypeOK'
  OBVIOUS
<1> USE TimeAssumption
<1>e. NoHops \in [Items -> Seq(Statuses)]
  BY DEF NoHops
<1>1. ASSUME NEW i \in Items, NEW w \in WakeTimes, Open(i, w) PROVE TypeOK'
  BY <1>1, <1>e DEF TypeOK, Open, InitialStatus, Statuses
<1>2. ASSUME NEW p \in Principals, NEW i \in Items, Claim(p, i) PROVE TypeOK'
  <2>1. <<"ready", "claimed">> \in Seq(Statuses)
    BY DEF Statuses
  <2>2. hops' \in [Items -> Seq(Statuses)]
    BY <1>2, <1>e, <2>1 DEF Claim
  <2>3. [holder |-> p, run |-> attempt[i] + 1, expires |-> now + LeaseTtl] \in Lease
    BY DEF TypeOK, Lease
  <2>4. [item |-> i, holder |-> p, run |-> attempt[i] + 1]
          \in [item: Items, holder: Principals, run: Nat]
    BY DEF TypeOK
  <2> QED BY <1>2, <2>2, <2>3, <2>4 DEF TypeOK, Claim, Statuses
<1>3. ASSUME NEW t \in issued, Heartbeat(t) PROVE TypeOK'
  <2>1. [holder |-> t.holder, run |-> t.run, expires |-> now + LeaseTtl] \in Lease
    BY HeldTyped DEF TypeOK, Lease
  <2> QED BY <1>3, <1>e, <2>1, HeldTyped DEF TypeOK, Heartbeat
<1>4. ASSUME NEW t \in issued, Release(t) PROVE TypeOK'
  BY <1>4, HeldTyped, TransitionType DEF Release
<1>5. ASSUME NEW t \in issued, NEW outcome \in DOMAIN OutcomeToStatus,
             Complete(t, outcome)
      PROVE TypeOK'
  <2> DEFINE i == t.item
             to == OutcomeToStatus[outcome]
  <2>1. i \in Items
    BY HeldTyped
  <2>2. to \in Statuses
    BY OutcomeStatuses DEF Statuses
  <2>3. status[i] \in Statuses
    <3>1. CASE status[i] = "claimed"
      BY <3>1 DEF Statuses
    <3>2. CASE status[i] # "claimed"
      <4>1. Settle(i, <<status[i], to>>)
        BY <1>5, <3>2 DEF Complete, RunPath
      <4> QED BY <2>1, <4>1, SettleFrom
    <3> QED BY <3>1, <3>2
  <2> QED BY <1>5, <2>1, <2>2, <2>3, RunPathType, SettleType DEF Complete
<1>6. ASSUME NEW i \in Items, ResolveApproval(i) PROVE TypeOK'
  <2>1. status[i] \in Statuses /\ "done" \in Statuses
    BY <1>6, SettleFrom DEF ResolveApproval
  <2>2. <<status[i], "done">> \in Seq(Statuses) /\ Len(<<status[i], "done">>) >= 2
    BY <2>1
  <2> QED BY <1>6, <2>2, SettleType DEF ResolveApproval
<1>7. ASSUME NEW i \in Items,
             Cancel(i) \/ MarkStale(i) \/ Revive(i) \/ Demote(i) \/ RevokeLease(i)
      PROVE TypeOK'
  BY <1>7, TransitionType DEF Cancel, MarkStale, Revive, Demote, RevokeLease
<1>8. ASSUME NEW t \in 0..now, NEW skipped \in SUBSET Items, Tick(t, skipped)
      PROVE TypeOK'
  <2>1. \A i \in Items : Lapsed(i, t) \/ Due(i, t) =>
          <<status[i], "ready">> \in Seq(Statuses)
    BY DEF Lapsed, Due, Statuses
  <2>2. hops' \in [Items -> Seq(Statuses)]
    BY <1>8, <2>1 DEF Tick
  <2>3. status' \in [Items -> Statuses \cup {"absent"}]
    BY <1>8 DEF Tick, TypeOK, Statuses
  <2> QED BY <1>8, <2>2, <2>3 DEF TypeOK, Tick
<1>9. ASSUME Advance PROVE TypeOK'
  BY <1>9, <1>e DEF TypeOK, Advance
<1>10. ASSUME UNCHANGED vars PROVE TypeOK'
  BY <1>10 DEF TypeOK, vars
<1> QED
  BY <1>1, <1>2, <1>3, <1>4, <1>5, <1>6, <1>7, <1>8, <1>9, <1>10
  DEF Next, WorkerNext, InvalidatorNext

(* Type correctness: the columns of every item stay well formed through    *)
(* every operation of the queue.                                           *)
THEOREM TypeCorrect == Spec => []TypeOK
<1>1. Init => TypeOK
  BY TimeAssumption DEF Init, TypeOK
<1> QED BY <1>1, TypeStep, PTL DEF Spec
-----------------------------------------------------------------------------
(* The inductive invariant behind the leases: besides riding an execution, *)
(* no issued lease is ahead of its item's attempt, which is why the run a  *)
(* claim mints is new.                                                     *)
IssuedBehind == \A t \in issued : t.run <= attempt[t.item]

LeaseInv == TypeOK /\ LeaseRidesExecution /\ IssuedBehind

LEMMA TransitionLease ==
  ASSUME LeaseInv, NEW i \in Items, NEW to, to \notin {"claimed", "running"},
         Transition(i, to)
  PROVE  LeaseRidesExecution' /\ IssuedBehind'
BY DEF LeaseInv, TypeOK, LeaseRidesExecution, IssuedBehind, Transition

LEMMA SettleLease ==
  ASSUME LeaseInv, NEW i \in Items, NEW path,
         path[Len(path)] \notin {"claimed", "running"}, Settle(i, path)
  PROVE  LeaseRidesExecution' /\ IssuedBehind'
<1> DEFINE to == path[Len(path)]
           s == [status EXCEPT ![i] = to]
           up == IF to = "done" THEN Promotable(s, i) ELSE {}
<1>1. status' = [j \in Items |-> IF j \in up THEN "ready" ELSE s[j]]
  BY DEF Settle
<1>2. lease' = [j \in Items |-> IF j \in up \cup {i} THEN NoLease ELSE lease[j]]
  BY DEF Settle
<1>3. UNCHANGED <<attempt, issued>>
  BY DEF Settle
<1>4. \A j \in Items : j # i => s[j] = status[j]
  BY DEF LeaseInv, TypeOK
<1>5. s[i] \notin {"claimed", "running"}
  BY DEF LeaseInv, TypeOK
<1>6. LeaseRidesExecution'
  <2> HIDE DEF s, up, to
  <2> QED BY <1>1, <1>2, <1>3, <1>4, <1>5 DEF LeaseInv, LeaseRidesExecution
<1> QED BY <1>3, <1>6 DEF LeaseInv, IssuedBehind

LEMMA LeaseStep == LeaseInv /\ [Next]_vars => LeaseInv'
<1> SUFFICES ASSUME LeaseInv, [Next]_vars
             PROVE  LeaseRidesExecution' /\ IssuedBehind'
  BY TypeStep DEF LeaseInv
<1> USE TimeAssumption, LeaseAssumption
<1>0. TypeOK
  BY DEF LeaseInv
<1>1. ASSUME NEW i \in Items, NEW w \in WakeTimes, Open(i, w)
      PROVE LeaseRidesExecution' /\ IssuedBehind'
  BY <1>1 DEF LeaseInv, TypeOK, LeaseRidesExecution, IssuedBehind, Open, InitialStatus
<1>2. ASSUME NEW p \in Principals, NEW i \in Items, Claim(p, i)
      PROVE LeaseRidesExecution' /\ IssuedBehind'
  <2> DEFINE l == [holder |-> p, run |-> attempt[i] + 1, expires |-> now + LeaseTtl]
  <2>1. l # NoLease /\ l.run = attempt[i] + 1
    BY <1>0 DEF TypeOK
  <2>2. LeaseRidesExecution'
    BY <1>2, <2>1 DEF LeaseInv, TypeOK, LeaseRidesExecution, Claim
  <2>3. IssuedBehind'
    BY <1>2 DEF LeaseInv, TypeOK, IssuedBehind, Claim
  <2> QED BY <2>2, <2>3
<1>3. ASSUME NEW t \in issued, Heartbeat(t)
      PROVE LeaseRidesExecution' /\ IssuedBehind'
  <2> DEFINE l == [holder |-> t.holder, run |-> t.run, expires |-> now + LeaseTtl]
  <2>1. l # NoLease /\ l.run = t.run
    BY <1>0, HeldTyped DEF TypeOK
  <2>2. lease[t.item] # NoLease /\ lease[t.item].run = t.run /\ t.item \in Items
    BY <1>3, <1>0, HeldTyped DEF Heartbeat, Held
  <2>3. LeaseRidesExecution'
    BY <1>3, <2>1, <2>2 DEF LeaseInv, TypeOK, LeaseRidesExecution, Heartbeat
  <2> QED BY <1>3, <2>3 DEF LeaseInv, IssuedBehind, Heartbeat
<1>4. ASSUME NEW t \in issued, Release(t)
      PROVE LeaseRidesExecution' /\ IssuedBehind'
  BY <1>4, <1>0, HeldTyped, TransitionLease DEF Release
<1>5. ASSUME NEW t \in issued, NEW outcome \in DOMAIN OutcomeToStatus,
             Complete(t, outcome)
      PROVE LeaseRidesExecution' /\ IssuedBehind'
  <2> DEFINE path == RunPath(status[t.item], OutcomeToStatus[outcome])
  <2>1. path[Len(path)] = OutcomeToStatus[outcome]
    BY DEF RunPath
  <2> QED BY <1>5, <1>0, <2>1, HeldTyped, OutcomeStatuses, SettleLease DEF Complete
<1>6. ASSUME NEW i \in Items, ResolveApproval(i)
      PROVE LeaseRidesExecution' /\ IssuedBehind'
  <2> DEFINE path == <<status[i], "done">>
  <2>1. path[Len(path)] = "done"
    OBVIOUS
  <2> QED BY <1>6, <2>1, SettleLease DEF ResolveApproval
<1>7. ASSUME NEW i \in Items,
             Cancel(i) \/ MarkStale(i) \/ Revive(i) \/ Demote(i) \/ RevokeLease(i)
      PROVE LeaseRidesExecution' /\ IssuedBehind'
  BY <1>7, TransitionLease DEF Cancel, MarkStale, Revive, Demote, RevokeLease
<1>8. ASSUME NEW t \in 0..now, NEW skipped \in SUBSET Items, Tick(t, skipped)
      PROVE LeaseRidesExecution' /\ IssuedBehind'
  BY <1>8 DEF LeaseInv, TypeOK, LeaseRidesExecution, IssuedBehind, Tick, Lapsed, Due
<1>9. CASE Advance
  BY <1>9 DEF LeaseInv, LeaseRidesExecution, IssuedBehind, Advance
<1>10. CASE UNCHANGED vars
  BY <1>10 DEF LeaseInv, LeaseRidesExecution, IssuedBehind, vars
<1> QED
  BY <1>1, <1>2, <1>3, <1>4, <1>5, <1>6, <1>7, <1>8, <1>9, <1>10
  DEF Next, WorkerNext, InvalidatorNext

LEMMA LeaseInvariant == Spec => []LeaseInv
<1>1. Init => LeaseInv
  BY TimeAssumption
  DEF Init, LeaseInv, TypeOK, LeaseRidesExecution, IssuedBehind
<1> QED BY <1>1, LeaseStep, PTL DEF Spec

(* A lease only rides a live execution: transitionLocked, complete,        *)
(* release and the reclaim tick all clear it, and only claim and heartbeat *)
(* write one.                                                              *)
THEOREM LeasesRideExecutions == Spec => []LeaseRidesExecution
<1>1. LeaseInv => LeaseRidesExecution
  BY DEF LeaseInv
<1> QED BY <1>1, LeaseInvariant, PTL

-----------------------------------------------------------------------------
(* A step that only keeps or clears leases revives none. *)
LEMMA NoLeaseWritten ==
  ASSUME LeaseInv, NEW t \in issued, ~Usable(t),
         lease'[t.item] \in {lease[t.item], NoLease}, now' = now
  PROVE  ~Usable(t)'
BY DEF Usable

LEMMA DeathStep ==
  ASSUME LeaseInv, [Next]_vars, NEW t \in issued, ~Usable(t)
  PROVE  ~Usable(t)'
<1> USE TimeAssumption
<1>0. /\ TypeOK
      /\ t.item \in Items /\ t.holder \in Principals /\ t.run \in Nat
  BY HeldTyped DEF LeaseInv
<1>1. ASSUME NEW i \in Items, NEW w \in WakeTimes, Open(i, w) PROVE ~Usable(t)'
  BY <1>1, NoLeaseWritten DEF Open
<1>2. ASSUME NEW p \in Principals, NEW i \in Items, Claim(p, i) PROVE ~Usable(t)'
  <2>1. CASE t.item = i
    <3>1. lease'[i].run = attempt[i] + 1
      BY <1>0, <1>2 DEF Claim, TypeOK
    <3>2. t.run <= attempt[i]
      BY <2>1 DEF LeaseInv, IssuedBehind
    <3>3. t.run # lease'[i].run
      BY <3>1, <3>2, <1>0 DEF TypeOK
    <3> QED BY <2>1, <3>3 DEF Usable
  <2>2. CASE t.item # i
    BY <1>0, <1>2, <2>2, NoLeaseWritten DEF Claim, TypeOK
  <2> QED BY <2>1, <2>2
<1>3. ASSUME NEW u \in issued, Heartbeat(u) PROVE ~Usable(t)'
  <2>1. CASE t.item = u.item
    <3>1. lease'[u.item].holder = u.holder /\ lease'[u.item].run = u.run
      BY <1>0, <1>3, HeldTyped DEF Heartbeat, TypeOK
    <3>2. SUFFICES ASSUME Usable(t)' PROVE FALSE
      OBVIOUS
    <3>3. t.holder = u.holder /\ t.run = u.run
      BY <2>1, <3>1, <3>2 DEF Usable
    <3>4. lease[u.item] \in Lease /\ now \in Nat
      BY <1>0, <1>3, HeldTyped DEF Heartbeat, TypeOK
    <3>5. now < lease[u.item].expires
      BY <1>3, <3>4 DEF Heartbeat, Held, Lease
    <3> QED BY <1>3, <2>1, <3>3, <3>5 DEF Heartbeat, Held, Usable
  <2>2. CASE t.item # u.item
    BY <1>0, <1>3, <2>2, NoLeaseWritten DEF Heartbeat, TypeOK
  <2> QED BY <2>1, <2>2
<1>4. ASSUME NEW i \in Items, NEW to, Transition(i, to) PROVE ~Usable(t)'
  BY <1>0, <1>4, NoLeaseWritten DEF Transition, TypeOK
<1>5. ASSUME NEW i \in Items, NEW path, Settle(i, path) PROVE ~Usable(t)'
  <2>1. lease'[t.item] \in {lease[t.item], NoLease} /\ now' = now
    BY <1>0, <1>5 DEF Settle
  <2> QED BY <2>1, NoLeaseWritten
<1>6. ASSUME NEW i \in Items,
             Cancel(i) \/ MarkStale(i) \/ Revive(i) \/ Demote(i) \/ RevokeLease(i)
      PROVE ~Usable(t)'
  BY <1>4, <1>6 DEF Cancel, MarkStale, Revive, Demote, RevokeLease
<1>7. ASSUME NEW c \in 0..now, NEW skipped \in SUBSET Items, Tick(c, skipped)
      PROVE ~Usable(t)'
  BY <1>0, <1>7, NoLeaseWritten DEF Tick
<1>8. CASE Advance
  <2>1. lease[t.item] # NoLease => lease[t.item].expires \in Nat
    BY <1>0 DEF TypeOK, Lease
  <2> QED BY <1>0, <1>8, <2>1 DEF Advance, Usable, TypeOK
<1>9. CASE UNCHANGED vars
  BY <1>9, NoLeaseWritten DEF vars
<1>10. ASSUME NEW u \in issued, Release(u) PROVE ~Usable(t)'
  BY <1>0, <1>4, <1>10, HeldTyped DEF Release
<1>11. ASSUME NEW u \in issued, NEW outcome \in DOMAIN OutcomeToStatus,
              Complete(u, outcome)
       PROVE ~Usable(t)'
  BY <1>0, <1>5, <1>11, HeldTyped DEF Complete
<1>12. ASSUME NEW i \in Items, ResolveApproval(i) PROVE ~Usable(t)'
  BY <1>5, <1>12 DEF ResolveApproval
<1> QED
  BY <1>1, <1>2, <1>3, <1>6, <1>7, <1>8, <1>9, <1>10, <1>11, <1>12
  DEF Next, WorkerNext, InvalidatorNext

(* A dead lease stays dead: run ids are never reused, a heartbeat renews   *)
(* only a lease that has not lapsed, and time does not run back.           *)
THEOREM DeadLeasesStayDead == Spec => LeaseDeathIsFinal
<1>1. LeaseInv /\ [Next]_vars => [\A t \in issued : ~Usable(t) => ~Usable(t)']_vars
  BY DeathStep
<1> QED BY <1>1, LeaseInvariant, PTL DEF Spec, LeaseDeathIsFinal
-----------------------------------------------------------------------------
(* With nobody invalidating, a done item stays done and a dependent moves  *)
(* only when its wait is over.                                             *)
DependencyInv == LeaseInv /\ DependencyGate /\ NoLostPromotion

LEMMA WorkerStepLease == LeaseInv /\ [WorkerNext]_vars => LeaseInv'
BY LeaseStep DEF Next

(* A single-item transition to a target the queue's workers use. *)
LEMMA TransitionDependency ==
  ASSUME DependencyInv, NEW i \in Items, NEW to, Transition(i, to),
         to = "cancelled" \/ (to = "ready" /\ status[i] \in {"claimed", "running"})
  PROVE  DependencyGate' /\ NoLostPromotion'
<1>0. TypeOK
  BY DEF DependencyInv, LeaseInv
<1>1. status[i] # "done" /\ wake' = wake
  BY DEF Transition, Transitions
<1>2. \A j \in Items : status'[j] = "done" <=> status[j] = "done"
  BY <1>0, <1>1 DEF Transition, TypeOK
<1>3. \A j \in Items : UpstreamsDone(status', j) <=> UpstreamsDone(status, j)
  BY <1>2, DependsOnAssumption DEF UpstreamsDone
<1>4. \A j \in Items : Released(j)' => Released(j)
  BY <1>0 DEF Transition, TypeOK, Released
<1>5. \A j \in Items : status'[j] = "pending" => status[j] = "pending"
  BY <1>0 DEF Transition, TypeOK
<1>6. \A j \in Items : UpstreamsDone(status, j)' <=> UpstreamsDone(status', j)
  BY DEF UpstreamsDone
<1> QED
  BY <1>1, <1>3, <1>4, <1>5, <1>6 DEF DependencyInv, DependencyGate, NoLostPromotion

LEMMA SettleDependency ==
  ASSUME DependencyInv, NEW i \in Items, NEW path,
         path[1] = status[i], Len(path) \in {2, 3}, status[i] # "done",
         Released(i) \/ path[Len(path)] = "cancelled",
         path[Len(path)] \in {"done", "awaiting_approval", "blocked", "failed", "cancelled"},
         Settle(i, path)
  PROVE  DependencyGate' /\ NoLostPromotion'
<1> DEFINE to == path[Len(path)]
           s == [status EXCEPT ![i] = to]
           up == IF to = "done" THEN Promotable(s, i) ELSE {}
<1>0. TypeOK
  BY DEF DependencyInv, LeaseInv
<1>1. /\ status' = [j \in Items |-> IF j \in up THEN "ready" ELSE s[j]]
      /\ wake' = wake
  BY DEF Settle
<1>2. \A j \in Items : s[j] = IF j = i THEN to ELSE status[j]
  BY <1>0 DEF TypeOK
<1>3. \A j \in up : j \in Items /\ s[j] # "done" /\ UpstreamsDone(s, j)
  BY DEF Promotable
<1>4. \A j \in Items : status'[j] = "done" <=> s[j] = "done"
  <2> HIDE DEF s, up
  <2> QED BY <1>1, <1>3
<1>5. \A j \in Items : UpstreamsDone(status, j)' <=> UpstreamsDone(s, j)
  BY <1>4, DependsOnAssumption DEF UpstreamsDone
<1>6. \A j \in Items : UpstreamsDone(status, j) => UpstreamsDone(s, j)
  BY <1>2, DependsOnAssumption DEF UpstreamsDone
<1>7. DependencyGate'
  <2> SUFFICES ASSUME NEW j \in Items, Released(j)', wake[j] = NoWake
               PROVE  UpstreamsDone(s, j)
    BY <1>1, <1>5 DEF DependencyGate
  <2>1. CASE j \in up
    BY <2>1, <1>3
  <2>2. CASE j \notin up
    <3>1. status'[j] = s[j]
      <4> HIDE DEF s, up
      <4> QED BY <1>1, <2>2
    <3>2. Released(j)
      BY <1>2, <3>1 DEF Released
    <3> QED BY <3>2, <1>6 DEF DependencyInv, DependencyGate
  <2> QED BY <2>1, <2>2
<1>8. NoLostPromotion'
  <2> SUFFICES ASSUME NEW j \in Items, status'[j] = "pending", wake[j] = NoWake,
                      UpstreamsDone(s, j)
               PROVE  FALSE
    BY <1>1, <1>5 DEF NoLostPromotion
  <2>1. j \notin up
    <3> HIDE DEF s, up
    <3> QED BY <1>1
  <2>2. status'[j] = s[j]
    <3> HIDE DEF s, up
    <3> QED BY <1>1, <2>1
  <2>3. j # i /\ status[j] = "pending"
    BY <1>2, <2>2
  <2>4. ~UpstreamsDone(status, j)
    BY <2>3 DEF DependencyInv, NoLostPromotion
  <2>5. i \in DependsOn[j] /\ to = "done"
    BY <1>2, <2>4, DependsOnAssumption DEF UpstreamsDone
  <2> QED BY <2>1, <2>2, <2>5 DEF Promotable
<1> QED BY <1>7, <1>8

LEMMA DependencyStep == DependencyInv /\ [WorkerNext]_vars => DependencyInv'
<1> SUFFICES ASSUME DependencyInv, [WorkerNext]_vars
             PROVE  DependencyGate' /\ NoLostPromotion'
  BY WorkerStepLease DEF DependencyInv
<1>0. TypeOK /\ LeaseRidesExecution
  BY DEF DependencyInv, LeaseInv
<1> USE TimeAssumption, DependsOnAssumption
<1>1. ASSUME NEW i \in Items, NEW w \in WakeTimes, Open(i, w)
      PROVE DependencyGate' /\ NoLostPromotion'
  <2>1. \A j \in Items : j # i => status'[j] = status[j] /\ wake'[j] = wake[j]
    BY <1>0, <1>1 DEF Open, TypeOK
  <2>2. status[i] = "absent" /\ status'[i] \in {"pending", "ready"} /\ wake'[i] = w
    BY <1>0, <1>1 DEF Open, TypeOK, InitialStatus
  <2>3. \A j \in Items : status'[j] = "done" <=> status[j] = "done"
    BY <2>1, <2>2
  <2>4. \A j \in Items : UpstreamsDone(status, j)' <=> UpstreamsDone(status, j)
    BY <2>3 DEF UpstreamsDone
  <2>5. status'[i] = "ready" => UpstreamsDone(status, i)
    BY <1>0, <1>1 DEF Open, TypeOK
  <2>6. status'[i] = "pending" /\ w = NoWake => ~UpstreamsDone(status, i)
    BY <1>0, <1>1 DEF Open, TypeOK, InitialStatus
  <2> QED
    BY <2>1, <2>2, <2>4, <2>5, <2>6
    DEF DependencyInv, DependencyGate, NoLostPromotion, Released
<1>2. ASSUME NEW p \in Principals, NEW i \in Items, Claim(p, i)
      PROVE DependencyGate' /\ NoLostPromotion'
  <2>1. \A j \in Items : /\ j # i => status'[j] = status[j]
                         /\ wake'[j] = wake[j]
    BY <1>0, <1>2 DEF Claim, TypeOK
  <2>2. status[i] = "ready" /\ status'[i] = "claimed"
    BY <1>0, <1>2 DEF Claim, TypeOK
  <2>3. \A j \in Items : UpstreamsDone(status, j)' <=> UpstreamsDone(status, j)
    BY <2>1, <2>2 DEF UpstreamsDone
  <2> QED
    BY <2>1, <2>2, <2>3 DEF DependencyInv, DependencyGate, NoLostPromotion, Released
<1>3. ASSUME UNCHANGED <<status, wake>>
      PROVE DependencyGate' /\ NoLostPromotion'
  BY <1>3 DEF DependencyInv, DependencyGate, NoLostPromotion, Released, UpstreamsDone
<1>4. ASSUME NEW t \in issued, Release(t)
      PROVE DependencyGate' /\ NoLostPromotion'
  <2>1. t.item \in Items /\ status[t.item] \in {"claimed", "running"}
    BY <1>0, <1>4, HeldTyped DEF Release, Held, LeaseRidesExecution
  <2> QED BY <1>4, <2>1, TransitionDependency DEF Release
<1>5. ASSUME NEW t \in issued, NEW outcome \in DOMAIN OutcomeToStatus,
             Complete(t, outcome)
      PROVE DependencyGate' /\ NoLostPromotion'
  <2> DEFINE path == RunPath(status[t.item], OutcomeToStatus[outcome])
  <2>1. t.item \in Items /\ status[t.item] \in {"claimed", "running"}
    BY <1>0, <1>5, HeldTyped DEF Complete, Held, LeaseRidesExecution
  <2>2. /\ path[1] = status[t.item] /\ Len(path) \in {2, 3}
        /\ path[Len(path)] = OutcomeToStatus[outcome]
    BY DEF RunPath
  <2>3. Released(t.item)
    BY <2>1 DEF Released
  <2> HIDE DEF path
  <2>4. path[Len(path)] \in
          {"done", "awaiting_approval", "blocked", "failed", "cancelled"}
    BY <2>2, OutcomeStatuses
  <2>5. Settle(t.item, path)
    BY <1>5 DEF Complete, path
  <2> QED BY <2>1, <2>2, <2>3, <2>4, <2>5, SettleDependency
<1>6. ASSUME NEW i \in Items, ResolveApproval(i)
      PROVE DependencyGate' /\ NoLostPromotion'
  <2> DEFINE path == <<status[i], "done">>
  <2>1. Settle(i, path)
    BY <1>6 DEF ResolveApproval
  <2>2. "done" \in Transitions(status[i])
    BY <2>1, SettleFrom
  <2>3. status[i] \in {"running", "awaiting_approval"}
    BY <2>2 DEF Transitions
  <2>4. Released(i) /\ status[i] # "done"
    BY <2>3 DEF Released
  <2>5. path[1] = status[i] /\ Len(path) \in {2, 3} /\ path[Len(path)] = "done"
    OBVIOUS
  <2> HIDE DEF path
  <2> QED BY <2>1, <2>4, <2>5, SettleDependency
<1>7. ASSUME NEW i \in Items, Cancel(i)
      PROVE DependencyGate' /\ NoLostPromotion'
  BY <1>7, TransitionDependency DEF Cancel
<1>8. ASSUME NEW t \in 0..now, NEW skipped \in SUBSET Items, Tick(t, skipped)
      PROVE DependencyGate' /\ NoLostPromotion'
  <2>1. \A j \in Items :
          \/ status'[j] = status[j]
          \/ /\ status'[j] = "ready"
             /\ status[j] \in {"claimed", "running"} \/ wake[j] # NoWake
             /\ status[j] # "done"
    BY <1>0, <1>8 DEF Tick, Lapsed, Due, TypeOK
  <2>2. wake' = wake
    BY <1>8 DEF Tick
  <2>3. \A j \in Items : UpstreamsDone(status, j)' <=> UpstreamsDone(status, j)
    BY <2>1 DEF UpstreamsDone
  <2> QED
    BY <2>1, <2>2, <2>3 DEF DependencyInv, DependencyGate, NoLostPromotion, Released
<1> QED
  BY <1>1, <1>2, <1>3, <1>4, <1>5, <1>6, <1>7, <1>8
  DEF WorkerNext, Heartbeat, Advance, vars

LEMMA DependencyInvariant == WorkerSpec => []DependencyInv
<1>1. Init => DependencyInv
  BY TimeAssumption
  DEF Init, DependencyInv, LeaseInv, TypeOK, LeaseRidesExecution, IssuedBehind,
      DependencyGate, NoLostPromotion, Released
<1> QED BY <1>1, DependencyStep, PTL DEF WorkerSpec

(* Dependencies are enforced: while nobody invalidates, an item without a  *)
(* wakeAt that has left pending has every upstream done, for every         *)
(* dependency graph.                                                       *)
THEOREM DependenciesEnforced == WorkerSpec => []DependencyGate
<1>1. DependencyInv => DependencyGate
  BY DEF DependencyInv
<1> QED BY <1>1, DependencyInvariant, PTL

(* No promotion is lost: a pending item without a wakeAt still has an      *)
(* unfinished upstream whose completion will release it.                   *)
THEOREM NoPromotionIsLost == WorkerSpec => []NoLostPromotion
<1>1. DependencyInv => NoLostPromotion
  BY DEF DependencyInv
<1> QED BY <1>1, DependencyInvariant, PTL
-----------------------------------------------------------------------------
(* The journal: what one transaction announces about an item.              *)
LEMMA SilenceExplains == ASSUME NEW s PROVE PathExplains(<<>>, s, s)
BY DEF PathExplains

LEMMA HopExplains ==
  ASSUME NEW from, NEW to \in Transitions(from)
  PROVE  PathExplains(<<from, to>>, from, to)
BY DEF PathExplains

Explained(i) ==
  status[i] # "absent" => PathExplains(hops'[i], status[i], status'[i])

LEMMA TransitionExplained ==
  ASSUME TypeOK, NEW i \in Items, NEW to, Transition(i, to), NEW j \in Items
  PROVE  Explained(j)
<1>1. CASE j = i
  <2>1. hops'[j] = <<status[i], to>> /\ status'[j] = to /\ to \in Transitions(status[i])
    BY <1>1 DEF Transition, NoHops, TypeOK
  <2> QED BY <1>1, <2>1, HopExplains DEF Explained
<1>2. CASE j # i
  <2>1. hops'[j] = <<>> /\ status'[j] = status[j]
    BY <1>2 DEF Transition, NoHops, TypeOK
  <2> QED BY <2>1, SilenceExplains DEF Explained
<1> QED BY <1>1, <1>2

LEMMA SettleExplained ==
  ASSUME TypeOK, NEW i \in Items, NEW path, path \in Seq(Statuses), Len(path) >= 2,
         path[1] = status[i], Settle(i, path), NEW j \in Items
  PROVE  Explained(j)
<1> DEFINE to == path[Len(path)]
           s == [status EXCEPT ![i] = to]
           up == IF to = "done" THEN Promotable(s, i) ELSE {}
<1>1. /\ \A k \in 1..(Len(path) - 1) : path[k + 1] \in Transitions(path[k])
      /\ status' = [k \in Items |-> IF k \in up THEN "ready" ELSE s[k]]
      /\ hops' = [k \in Items |-> IF k = i THEN path
                                  ELSE IF k \in up THEN <<status[k], "ready">>
                                  ELSE <<>>]
  BY DEF Settle
<1>2. s[i] = to /\ \A k \in Items : k # i => s[k] = status[k]
  BY DEF TypeOK
<1>3. i \notin up
  BY <1>2 DEF Promotable
<1>4. \A k \in up : s[k] \in {"pending", "stale"}
  BY DEF Promotable
<1> HIDE DEF s, up
<1>5. CASE j = i
  <2>1. hops'[j] = path /\ status'[j] = to /\ path # <<>>
    BY <1>1, <1>2, <1>3, <1>5
  <2> QED BY <1>1, <1>5, <2>1 DEF Explained, PathExplains
<1>6. CASE j # i /\ j \in up
  <2>1. /\ hops'[j] = <<status[j], "ready">> /\ status'[j] = "ready"
        /\ status[j] \in {"pending", "stale"}
    BY <1>1, <1>2, <1>4, <1>6
  <2>2. "ready" \in Transitions(status[j])
    BY <2>1 DEF Transitions
  <2> QED BY <2>1, <2>2, HopExplains DEF Explained
<1>7. CASE j # i /\ j \notin up
  <2>1. hops'[j] = <<>> /\ status'[j] = status[j]
    BY <1>1, <1>2, <1>7
  <2> QED BY <2>1, SilenceExplains DEF Explained
<1> QED BY <1>5, <1>6, <1>7

LEMMA JournalStep ==
  ASSUME TypeOK, Next, NEW j \in Items
  PROVE  Explained(j)
<1>1. ASSUME NEW i \in Items, NEW w \in WakeTimes, Open(i, w) PROVE Explained(j)
  <2>1. hops'[j] = <<>> /\ (status[j] # "absent" => status'[j] = status[j])
    BY <1>1 DEF Open, NoHops, TypeOK
  <2> QED BY <2>1, SilenceExplains DEF Explained
<1>2. ASSUME NEW p \in Principals, NEW i \in Items, Claim(p, i) PROVE Explained(j)
  <2>1. CASE j = i
    <3>1. /\ status[j] = "ready" /\ status'[j] = "claimed"
          /\ hops'[j] = <<"ready", "claimed">>
      BY <1>2, <2>1 DEF Claim, NoHops, TypeOK
    <3>2. "claimed" \in Transitions("ready")
      BY DEF Transitions
    <3> QED BY <3>1, <3>2, HopExplains DEF Explained
  <2>2. CASE j # i
    <3>1. hops'[j] = <<>> /\ status'[j] = status[j]
      BY <1>2, <2>2 DEF Claim, NoHops, TypeOK
    <3> QED BY <3>1, SilenceExplains DEF Explained
  <2> QED BY <2>1, <2>2
<1>3. ASSUME (\E t \in issued : Heartbeat(t)) \/ Advance PROVE Explained(j)
  <2>1. hops'[j] = <<>> /\ status'[j] = status[j]
    BY <1>3 DEF Heartbeat, Advance, NoHops
  <2> QED BY <2>1, SilenceExplains DEF Explained
<1>4. ASSUME NEW t \in issued, Release(t) PROVE Explained(j)
  BY <1>4, HeldTyped, TransitionExplained DEF Release
<1>5. ASSUME NEW t \in issued, NEW outcome \in DOMAIN OutcomeToStatus,
             Complete(t, outcome)
      PROVE Explained(j)
  <2> DEFINE i == t.item
             to == OutcomeToStatus[outcome]
             path == RunPath(status[i], to)
  <2>1. i \in Items /\ to \in Statuses
    BY HeldTyped, OutcomeStatuses DEF Statuses
  <2>2. status[i] \in Statuses
    <3>1. CASE status[i] = "claimed"
      BY <3>1 DEF Statuses
    <3>2. CASE status[i] # "claimed"
      <4>1. Settle(i, <<status[i], to>>)
        BY <1>5, <3>2 DEF Complete, RunPath
      <4> QED BY <2>1, <4>1, SettleFrom
    <3> QED BY <3>1, <3>2
  <2>3. path \in Seq(Statuses) /\ Len(path) >= 2
    BY <2>1, <2>2, RunPathType
  <2>4. path[1] = status[i] /\ Settle(i, path)
    BY <1>5 DEF Complete, RunPath
  <2> HIDE DEF path, i
  <2> QED BY <2>1, <2>3, <2>4, SettleExplained
<1>6. ASSUME NEW i \in Items, ResolveApproval(i) PROVE Explained(j)
  <2>1. status[i] \in Statuses /\ "done" \in Statuses
    BY <1>6, SettleFrom DEF ResolveApproval
  <2> DEFINE path == <<status[i], "done">>
  <2>2. path \in Seq(Statuses) /\ Len(path) >= 2 /\ path[1] = status[i] /\ Settle(i, path)
    BY <1>6, <2>1 DEF ResolveApproval
  <2> HIDE DEF path
  <2> QED BY <2>2, SettleExplained
<1>7. ASSUME NEW i \in Items,
             Cancel(i) \/ MarkStale(i) \/ Revive(i) \/ Demote(i) \/ RevokeLease(i)
      PROVE Explained(j)
  BY <1>7, TransitionExplained DEF Cancel, MarkStale, Revive, Demote, RevokeLease
<1>8. ASSUME NEW t \in 0..now, NEW skipped \in SUBSET Items, Tick(t, skipped)
      PROVE Explained(j)
  <2> DEFINE moved == j \in Items \ skipped /\ (Lapsed(j, t) \/ Due(j, t))
  <2>1. CASE moved
    <3>1. hops'[j] = <<status[j], "ready">> /\ status'[j] = "ready"
      BY <1>8, <2>1 DEF Tick
    <3>2. "ready" \in Transitions(status[j])
      BY <2>1 DEF Lapsed, Due, Transitions
    <3> QED BY <3>1, <3>2, HopExplains DEF Explained
  <2>2. CASE ~moved
    <3>1. hops'[j] = <<>> /\ status'[j] = status[j]
      BY <1>8, <2>2 DEF Tick
    <3> QED BY <3>1, SilenceExplains DEF Explained
  <2> QED BY <2>1, <2>2
<1> QED
  BY <1>1, <1>2, <1>3, <1>4, <1>5, <1>6, <1>7, <1>8
  DEF Next, WorkerNext, InvalidatorNext

(* The spine is a valid transition log of the work graph: in every         *)
(* transaction the status_changed events of an item lead along legal hops  *)
(* from its old status to its new one, the implied running hop of complete *)
(* and the promotions made in the same transaction included, and an item   *)
(* nothing was announced about has not moved.                              *)
THEOREM JournalIsATransitionLog == Spec => JournalExplainsStatus
<1>1. TypeOK /\ [Next]_vars =>
        [\A i \in Items :
           status[i] # "absent" => PathExplains(hops'[i], status[i], status'[i])]_vars
  BY JournalStep DEF Explained
<1> QED BY <1>1, TypeCorrect, PTL DEF Spec, JournalExplainsStatus
=============================================================================
