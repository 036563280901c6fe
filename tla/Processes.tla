----------------------------- MODULE Processes -----------------------------
(***************************************************************************)
(* The process engine (apps/server/src/processes) over the work queue and  *)
(* the human gate: the nodes of one active run are work items, reviewers   *)
(* resolve the gates of their results, documents arrive, and the engine's  *)
(* spine subscription turns both into cascades.                            *)
(*                                                                         *)
(* The engine handles one event at a time, in order, and again from the    *)
(* top when the handler throws or its process dies.  A cascade is a        *)
(* sequence of queue and gate transactions chosen from statuses read once; *)
(* workers and reviewers run between any two of them.  Time stands still:  *)
(* leases are lost here by release and revocation only.                    *)
(***************************************************************************)
EXTENDS Naturals, Sequences, FiniteSets, SequencesExt, HumanRequest

CONSTANTS
  Items, Principals, DependsOn, MaxAttempt, NoLease, NoWake,  \* as in WorkQueue
  Outcomes,   \* the run outcomes workers report
  AutoMax,    \* autoExecuteMaxWidth
  Holds,      \* ids of requests that hold a plan or a graph change
  Skippable,  \* nodes whose changePolicy lets an agent propose a skip
  ResultPort, \* whether a RunResultPort was injected; the default one throws
  MaxDocs,    \* bound on the documents that arrive
  MaxCrash,   \* bound on the engine's crashes
  Idle        \* no event in the handler

VARIABLES
  status, lease, attempt, wake, now, issued, hops,  \* the work queue
  gate,     \* node_result request of each node's attempt; "none" before
  holds,    \* the state of each hold's request; "none" before
  proposed, \* graph changes requested whose row is still to be written
  parked,   \* processes.pending_actions: what each request, once approved, does
  inbox,    \* spine events past the engine's cursor
  ahead,    \* how many of them are handled (the cursor is written by batch)
  engine,   \* the handler in progress, or Idle
  docs,     \* documents so far
  crashes   \* crashes so far

queue    == <<status, lease, attempt, wake, now, issued, hops>>
requests == <<gate, holds, proposed>>
progress == <<inbox, ahead>>
bounds   == <<docs, crashes>>
vars     == <<queue, requests, parked, progress, engine, bounds>>

Queue == INSTANCE WorkQueue WITH
  LeaseTtl <- 1, WakeTimes <- {NoWake}, MaxTime <- 0

(* The requests of the run, as rows of the gate: of each attempt of a node, *)
(* about its work item, and (0) of what is parked, about the run, written   *)
(* Idle.  None has an SLA here, so no sweep touches them.                   *)
Requests == (Items \X (1..MaxAttempt)) \cup (Holds \X {0})

About == [r \in Requests |-> IF r[2] = 0 THEN Idle ELSE r[1]]

RequestState ==
  [r \in Requests |->
     LET state == IF r[2] = 0 THEN holds[r[1]] ELSE gate[r[1]][r[2]]
     IN IF state = "none" THEN "absent" ELSE state]

Gate == INSTANCE HumanGate WITH
  Subjects <- Items \cup {Idle}, Sweepers <- {}, Assignees <- {Idle},
  SlaHours <- [r \in Requests |-> Idle], NoSla <- Idle,
  Path <- [r \in Requests |-> <<>>], Owner <- [r \in Requests |-> Idle],
  MaxTime <- 0, MaxLag <- 0,
  state <- RequestState, subject <- About, count <- [r \in Requests |-> 0],
  wake <- [r \in Requests |-> NoWake], begun <- [r \in Requests |-> NoWake],
  assignee <- [r \in Requests |-> Idle], now <- 0, sweep <- [p \in {} |-> Idle]

ASSUME RunAssumption ==
  /\ IsFiniteSet(Items) /\ DependsOn \in [Items -> SUBSET Items]
  /\ MaxAttempt \in Nat
  /\ NoLease \notin Queue!Lease
  /\ Outcomes \subseteq DOMAIN Queue!OutcomeToStatus
ASSUME EngineAssumption ==
  /\ AutoMax \in Nat /\ ResultPort \in BOOLEAN
  /\ MaxDocs \in Nat /\ MaxCrash \in Nat
  /\ Skippable \subseteq Items

(* instantiate, run to its end: a node with no upstreams is ready. *)
Init ==
  /\ status = [i \in Items |-> IF DependsOn[i] = {} THEN "ready" ELSE "pending"]
  /\ lease = [i \in Items |-> NoLease]
  /\ attempt = [i \in Items |-> 0]
  /\ wake = [i \in Items |-> NoWake]
  /\ now = 0 /\ issued = {} /\ hops = Queue!NoHops
  /\ gate = [i \in Items |-> [a \in 1..MaxAttempt |-> "none"]]
  /\ holds = [q \in Holds |-> "none"]
  /\ proposed = [q \in {} |-> <<>>] /\ parked = [q \in {} |-> <<>>]
  /\ inbox = <<>> /\ ahead = 0
  /\ engine = Idle
  /\ docs = 0 /\ crashes = 0

-----------------------------------------------------------------------------
(* Workers, reviewers and documents. *)

Work ==
  /\ \/ \E p \in Principals, i \in Items : Queue!Claim(p, i)
     \/ \E t \in issued : Queue!Release(t)
     \/ \E t \in issued, o \in Outcomes : Queue!Complete(t, o)
  /\ UNCHANGED <<requests, parked, progress, engine, bounds>>

(* The executor of a gated node asks for the review of its attempt. *)
RequestReview(i) ==
  /\ status[i] = "awaiting_approval" /\ gate[i][attempt[i]] = "none"
  /\ gate' = [gate EXCEPT ![i][attempt[i]] = "pending"]
  /\ UNCHANGED <<queue, holds, proposed, parked, progress, engine, bounds>>

(* Mutant: a verdict on a request that is settled. *)
ResolveSettled(i, a, verdict) ==
  /\ gate[i][a] # "none"
  /\ gate' = [gate EXCEPT ![i][a] = verdict]
  /\ inbox' = Append(inbox, [type |-> "review", item |-> i, verdict |-> verdict])
  /\ UNCHANGED <<queue, holds, proposed, parked, ahead, engine, bounds>>

ResolveReview(i, a, verdict) ==
  /\ gate[i][a] = "pending"
  /\ gate' = [gate EXCEPT ![i][a] = verdict]
  /\ inbox' = Append(inbox, [type |-> "review", item |-> i, verdict |-> verdict])
  /\ UNCHANGED <<queue, holds, proposed, parked, ahead, engine, bounds>>

ResolveHold(q, verdict) ==
  /\ holds[q] = "pending"
  /\ holds' = [holds EXCEPT ![q] = verdict]
  /\ inbox' = Append(inbox, [type |-> "hold", request |-> q, verdict |-> verdict])
  /\ UNCHANGED <<queue, gate, proposed, parked, ahead, engine, bounds>>

(* A document that the watch rules of these nodes match. *)
NewDoc(nodes) ==
  /\ docs < MaxDocs
  /\ docs' = docs + 1
  /\ inbox' = Append(inbox, [type |-> "doc", nodes |-> nodes])
  /\ UNCHANGED <<queue, requests, parked, ahead, engine, crashes>>

-----------------------------------------------------------------------------
(* Planning: the live graph, walked breadth first. *)

Live == {i \in Items : status[i] # "cancelled"}

(* The row of request q is written. *)
Put(rows, q, row) == [r \in DOMAIN rows \cup {q} |-> IF r = q THEN row ELSE rows[r]]

(* An agent proposes to skip a live node: the request, then the parked row. *)
ProposeSkip(q, i) ==
  /\ holds[q] = "none" /\ i \in Skippable \cap Live
  /\ holds' = [holds EXCEPT ![q] = "pending"]
  /\ proposed' = Put(proposed, q, [skip |-> i])
  /\ UNCHANGED <<queue, gate, parked, progress, engine, bounds>>

ParkSkip(q) ==
  /\ q \in DOMAIN proposed
  /\ parked' = Put(parked, q, proposed[q])
  /\ proposed' = Restrict(proposed, DOMAIN proposed \ {q})
  /\ UNCHANGED <<queue, gate, holds, progress, engine, bounds>>

(* The live nodes within n depends_on steps of x. *)
Within(x) ==
  LET reach[n \in Nat] ==
        IF n = 0 THEN {x}
        ELSE reach[n - 1] \cup {d \in Live : DependsOn[d] \cap reach[n - 1] # {}}
  IN reach

Depth(x, d) ==
  CHOOSE n \in 0..Cardinality(Items) :
    d \in Within(x)[n] /\ (n > 0 => d \notin Within(x)[n - 1])

(* The transitive dependents of x, nearer ones first. *)
WalkDependents(x) ==
  CHOOSE s \in SetToSeqs(Within(x)[Cardinality(Items)] \ {x}) :
    \A j, k \in DOMAIN s : j < k => Depth(x, s[j]) <= Depth(x, s[k])

(* The transactions that invalidate a node, by the status it was read in.  *)
(* Only the dirty node stays claimable or becomes so again.                *)

(* Mutant: a dependent is left claimable. *)
ParkNothing(dirty) == <<>>

Park(dirty) == IF dirty THEN <<>> ELSE <<"demote">>

(* Mutant: the dirty node keeps its lease. *)
InterruptDependents(dirty) == IF dirty THEN <<>> ELSE <<"revokeLease", "demote">>

Interrupt(dirty) == <<"revokeLease">> \o Park(dirty)

Repudiate(dirty) ==
  <<"supersede", "supersedeResults", "markStale">>
    \o IF dirty THEN <<"revive">> ELSE <<>>

Finished == {"done", "awaiting_approval"}

Moves(s, i, dirty) ==
  LET names == CASE s \in {"claimed", "running"} -> Interrupt(dirty)
                 [] s \in Finished               -> Repudiate(dirty)
                 [] s = "ready"                  -> Park(dirty)
                 [] OTHER                        -> <<>>
  IN [k \in DOMAIN names |-> [move |-> names[k], item |-> i]]

(* Dependents first, the dirty node last, from one reading of the statuses. *)
Cascade(plan) ==
  FlattenSeq([k \in DOMAIN plan.affected |->
                Moves(status[plan.affected[k]], plan.affected[k], FALSE)])
  \o Moves(status[plan.dirty], plan.dirty, TRUE)

-----------------------------------------------------------------------------
(* The handler.  phase: what it does next; causes: nodes still to be       *)
(* invalidated; plan and ops: the cascade and its remaining transactions;  *)
(* base: the attempts when its statuses were read; request: the parked     *)
(* action being settled or made.                                           *)

Plan == [dirty: Items, affected: Seq(Items)]

NoPlan == [dirty |-> Idle, affected |-> <<>>]

Names == {"resolveApproval", "skip", "revokeLease", "demote", "markStale",
          "revive", "supersede", "supersedeResults"}

(* These change requests or run results and move no node. *)
Still == {"supersede", "supersedeResults"}

Op == [move: Names, item: Items]

Phases == {"causes", "gating", "parking", "planned", "moves"}

Handlers ==
  [phase: Phases, causes: SUBSET Items, plan: Plan \cup {NoPlan}, ops: Seq(Op),
   base: [Items -> 0..MaxAttempt], request: Holds \cup {Idle}]

(* The null of the handler, of its request and of its plan is none of these. *)
ASSUME IdleAssumption == Idle \notin Items \cup Holds \cup Handlers

Handler(phase, causes) ==
  [phase |-> phase, causes |-> causes, plan |-> NoPlan, ops |-> <<>>,
   base |-> attempt, request |-> Idle]

Handles(phase) == engine # Idle /\ engine.phase = phase

(* Mutant: a modification is no cause. *)
CausesDenialOnly(e) ==
  CASE e.type = "doc" -> e.nodes
    [] e.type = "review" /\ e.verdict = "denied" -> {e.item}
    [] OTHER -> {}

(* The nodes an event invalidates. *)
Causes(e) ==
  CASE e.type = "doc" -> e.nodes
    [] e.type = "review" /\ e.verdict \in {"denied", "modified"} -> {e.item}
    [] OTHER -> {}

HeldBy(e) == e.type = "hold" /\ e.request \in DOMAIN parked

(* An approval completes the node that awaits it (of whatever attempt), or *)
(* does what is parked behind the request.                                 *)
Begin(e) ==
  CASE e.type = "review" /\ e.verdict = "approved"
       /\ status[e.item] = "awaiting_approval" ->
         [Handler("moves", {}) EXCEPT
            !.ops = <<[move |-> "resolveApproval", item |-> e.item]>>]
    [] HeldBy(e) /\ e.verdict = "approved" /\ "skip" \in DOMAIN parked[e.request] ->
         [Handler("moves", {}) EXCEPT
            !.ops = <<[move |-> "skip", item |-> parked[e.request].skip]>>,
            !.request = e.request]
    [] HeldBy(e) /\ e.verdict = "approved" /\ "skip" \notin DOMAIN parked[e.request] ->
         [Handler("planned", {}) EXCEPT
            !.plan = parked[e.request], !.request = e.request]
    [] OTHER -> Handler("causes", Causes(e))

Receive ==
  /\ engine = Idle /\ ahead < Len(inbox)
  /\ LET e == inbox[ahead + 1]
     IN /\ engine' = Begin(e)
        /\ parked' = IF HeldBy(e) /\ e.verdict # "approved"
                       THEN Restrict(parked, DOMAIN parked \ {e.request})
                       ELSE parked
  /\ UNCHANGED <<queue, requests, progress, bounds>>

(* Mutant: no plan is too wide. *)
PlanInvalidationUngated ==
  /\ Handles("causes")
  /\ \E c \in engine.causes \cap Live :
       engine' = [engine EXCEPT
         !.causes = @ \ {c}, !.phase = "planned",
         !.plan = [dirty |-> c, affected |-> WalkDependents(c)]]
  /\ UNCHANGED <<queue, requests, parked, progress, bounds>>

PlanInvalidation ==
  /\ Handles("causes")
  /\ \E c \in engine.causes \cap Live :
       LET plan == [dirty |-> c, affected |-> WalkDependents(c)]
       IN engine' = [engine EXCEPT
            !.causes = @ \ {c}, !.plan = plan,
            !.phase = IF 1 + Len(plan.affected) <= AutoMax THEN "planned" ELSE "gating"]
  /\ UNCHANGED <<queue, requests, parked, progress, bounds>>

(* A plan that is too wide is gated: the request, then the parked row. *)
RequestPlan(q) ==
  /\ Handles("gating") /\ holds[q] = "none"
  /\ holds' = [holds EXCEPT ![q] = "pending"]
  /\ engine' = [engine EXCEPT !.phase = "parking", !.request = q]
  /\ UNCHANGED <<queue, gate, proposed, parked, progress, bounds>>

ParkPlan ==
  /\ Handles("parking")
  /\ parked' = Put(parked, engine.request, engine.plan)
  /\ engine' = [engine EXCEPT !.phase = "causes", !.plan = NoPlan, !.request = Idle]
  /\ UNCHANGED <<queue, requests, progress, bounds>>

ReadStatuses ==
  /\ Handles("planned")
  /\ engine' = [engine EXCEPT !.phase = "moves", !.ops = Cascade(engine.plan),
                              !.base = attempt]
  /\ UNCHANGED <<queue, requests, parked, progress, bounds>>

(* The status a move leads to. *)
Target(op) ==
  CASE op.move = "resolveApproval" -> "done"
    [] op.move = "skip"            -> "cancelled"
    [] op.move = "revokeLease"     -> "ready"
    [] op.move = "demote"          -> "pending"
    [] op.move = "markStale"       -> "stale"
    [] op.move = "revive"          ->
         IF Queue!UpstreamsDone(status, op.item) THEN "ready" ELSE "pending"

(* The queue rejects a move its table does not have; without an injected   *)
(* port, results.supersede is a stub that throws.                          *)
Possible(op) ==
  IF op.move \in Still THEN op.move = "supersedeResults" => ResultPort
  ELSE Target(op) \in Queue!Transitions(status[op.item])

Apply(op) ==
  CASE op.move = "resolveApproval" -> Queue!ResolveApproval(op.item)
    [] op.move = "skip"            -> Queue!Cancel(op.item)
    [] op.move = "revokeLease"     -> Queue!RevokeLease(op.item)
    [] op.move = "demote"          -> Queue!Demote(op.item)
    [] op.move = "markStale"       -> Queue!MarkStale(op.item)
    [] op.move = "revive"          -> Queue!Revive(op.item)
    [] op.move \in Still           -> UNCHANGED queue

Move ==
  /\ Handles("moves") /\ engine.ops # <<>>
  /\ LET op == Head(engine.ops)
     IN /\ Possible(op) /\ Apply(op)
        /\ gate' = IF op.move = "supersede"
                     THEN [gate EXCEPT ![op.item] =
                             [a \in 1..MaxAttempt |->
                                IF @[a] \in Supersedable THEN "superseded" ELSE @[a]]]
                     ELSE gate
  /\ engine' = [engine EXCEPT !.ops = Tail(@)]
  /\ UNCHANGED <<holds, proposed, parked, progress, bounds>>

(* All moves made: a settled parked action is deleted, the next cause is up. *)
Executed ==
  /\ Handles("moves") /\ engine.ops = <<>>
  /\ parked' = Restrict(parked, DOMAIN parked \ {engine.request})
  /\ engine' = [engine EXCEPT !.phase = "causes", !.plan = NoPlan, !.request = Idle]
  /\ UNCHANGED <<queue, requests, progress, bounds>>

Finish ==
  /\ Handles("causes") /\ engine.causes = {}
  /\ engine' = Idle
  /\ ahead' = ahead + 1
  /\ UNCHANGED <<queue, requests, parked, inbox, bounds>>

(* The batch ends: the cursor moves past what was handled. *)
Persist ==
  /\ engine = Idle /\ ahead > 0
  /\ inbox' = SubSeq(inbox, ahead + 1, Len(inbox)) /\ ahead' = 0
  /\ UNCHANGED <<queue, requests, parked, engine, bounds>>

(* An impossible move (one rejected against the live graph included) or a  *)
(* cause whose node was cancelled throws: the batch ends before this event, *)
(* which is delivered again.                                               *)
Throw ==
  /\ \/ Handles("moves") /\ engine.ops # <<>> /\ ~Possible(Head(engine.ops))
     \/ Handles("causes") /\ engine.causes \ Live # {}
  /\ engine' = Idle
  /\ inbox' = SubSeq(inbox, ahead + 1, Len(inbox)) /\ ahead' = 0
  /\ UNCHANGED <<queue, requests, parked, bounds>>

Crash ==
  /\ engine # Idle \/ ahead > 0
  /\ crashes < MaxCrash
  /\ crashes' = crashes + 1
  /\ engine' = Idle /\ ahead' = 0
  /\ UNCHANGED <<queue, requests, parked, inbox, docs>>

-----------------------------------------------------------------------------
Engine ==
  \/ Receive
  \/ PlanInvalidation
  \/ \E q \in Holds : RequestPlan(q)
  \/ ParkPlan
  \/ ReadStatuses
  \/ Move
  \/ Executed
  \/ Finish
  \/ Persist
  \/ Throw

Next ==
  \/ Work
  \/ \E i \in Items : RequestReview(i)
  \/ \E i \in Items, a \in 1..MaxAttempt, v \in Verdicts : ResolveReview(i, a, v)
  \/ \E q \in Holds, v \in Verdicts : ResolveHold(q, v)
  \/ \E q \in Holds, i \in Items : ProposeSkip(q, i)
  \/ \E q \in Holds : ParkSkip(q)
  \/ \E nodes \in SUBSET Items \ {{}} : NewDoc(nodes)
  \/ Engine
  \/ Crash

Spec == Init /\ [][Next]_vars

(* The dispatcher keeps redelivering and every database statement ends.    *)
FairSpec == Spec /\ WF_vars(Engine)

-----------------------------------------------------------------------------
CascadeDone == Handles("moves") /\ engine.ops = <<>> /\ engine.plan # NoPlan

(* The queue's rows, the requests and the handler have their types. *)
TypeOK ==
  /\ status \in [Items -> Queue!Statuses]
  /\ gate \in [Items -> [1..MaxAttempt -> RequestStates \cup {"none"}]]
  /\ holds \in [Holds -> RequestStates \cup {"none"}]
  /\ DOMAIN proposed \cup DOMAIN parked \subseteq Holds
  /\ ahead \in 0..Len(inbox)
  /\ engine # Idle =>
       /\ engine.causes \subseteq Items /\ engine.base \in [Items -> 0..MaxAttempt]
       /\ engine.phase \in Phases

(* A cascade that ran to its end has killed every lease that was out on a  *)
(* node of its plan when it read the statuses, whatever the workers did    *)
(* meanwhile.                                                              *)
CascadeKillsOldLeases ==
  CascadeDone =>
    \A t \in issued :
      /\ t.item = engine.plan.dirty \/ \E k \in DOMAIN engine.plan.affected :
                                         engine.plan.affected[k] = t.item
      /\ t.run <= engine.base[t.item]
      => ~Queue!Usable(t)

(* A cascade over more nodes than may be rerun unasked moves none of them  *)
(* unless the request it is parked behind was approved.                    *)
WideCascadesAreApproved ==
  Handles("moves") /\ engine.plan # NoPlan /\ 1 + Len(engine.plan.affected) > AutoMax
    => engine.request \in Holds /\ holds[engine.request] = "approved"

(* The engine, its reviewers and its cascades use the human gate as it is  *)
(* meant to be used: each of their steps is a step of its transition table *)
(* (one request made or resolved, or all that are about one work item      *)
(* superseded) or leaves every request alone.                              *)
UsesTheGate == Gate!Spec

(* The engine has nothing left to do. *)
Settled == engine = Idle /\ inbox = <<>>

(* Then an invalidated node is on its way to a rerun (done -> stale ->     *)
(* ready, or parked behind an upstream): no node waits for upstreams that  *)
(* are all done.                                                           *)
NothingWaitsInVain ==
  Settled => \A i \in Items :
    status[i] \in {"pending", "stale"} => ~Queue!UpstreamsDone(status, i)

(* So it is while no process dies in mid-cascade: cascades interrupted by  *)
(* a worker's move and begun anew lose no promotion.                       *)
NoPromotionLostByRetries == crashes = 0 => NothingWaitsInVain

(* Then, too, no node runs, awaits review or is done on inputs that are    *)
(* not done.                                                               *)
NothingRunsAhead ==
  Settled => \A i \in Items :
    status[i] \in {"ready", "claimed", "awaiting_approval", "done"}
      => Queue!UpstreamsDone(status, i)

(* And nothing stays parked behind a request that was resolved: a cascade  *)
(* plan is executed or dropped with the answer, a graph change likewise.   *)
IsChange(q) == "skip" \in DOMAIN parked[q]

ParkedPlansAwaitAnswers ==
  Settled => \A q \in DOMAIN parked : ~IsChange(q) => holds[q] = "pending"

ParkedChangesAwaitAnswers ==
  Settled => \A q \in DOMAIN parked : IsChange(q) => holds[q] = "pending"

(* A run whose engine is at rest is sound: no promotion was lost by        *)
(* cascades begun anew, no node is ahead of its inputs, and no cascade     *)
(* plan is left behind.                                                    *)
SettledRunsAreSound ==
  NoPromotionLostByRetries /\ NothingRunsAhead /\ ParkedPlansAwaitAnswers

(* A node's review ends in done only by an approval of the result of the   *)
(* attempt that is under review, one that no cascade has superseded.       *)
OnlyApprovedResultsFinish ==
  [][\A i \in Items :
       status[i] = "awaiting_approval" /\ status'[i] = "done"
         => gate[i][attempt[i]] = "approved"]_vars

(* The engine catches up with its events, however often workers make it    *)
(* begin a cascade anew, and so a denied, modified or approved review moves *)
(* the node on from the attempt it was about.                              *)
EventsAreHandled == []<>(inbox = <<>>)

Reviewed(i, a) ==
  /\ status[i] = "awaiting_approval" /\ attempt[i] = a
  /\ gate[i][a] \in {"approved", "denied", "modified"}

ReviewMovesNode ==
  \A i \in Items, a \in 1..MaxAttempt : Reviewed(i, a) ~> ~Reviewed(i, a)

(* Together: the engine, and with it every reviewed node, keeps moving.    *)
EngineMovesOn == EventsAreHandled /\ ReviewMovesNode
=============================================================================
