--------------------------- MODULE ProcessesProofs ---------------------------
(***************************************************************************)
(* Proofs about the process engine, for every graph of nodes, every number *)
(* of requests and documents, and whatever workers, reviewers and crashes  *)
(* do between two transactions of a cascade.                               *)
(***************************************************************************)
EXTENDS Processes, FoldFacts

(* The queue's columns, and what its own proofs rest on: a lease rides the *)
(* latest claim of a live execution.                                       *)
Running == {"claimed", "running"}

QueueShape ==
  /\ status \in [Items -> Queue!Statuses]
  /\ lease \in [Items -> Queue!Lease \cup {NoLease}]
  /\ attempt \in [Items -> 0..MaxAttempt]
  /\ now \in Nat
  /\ issued \subseteq [item: Items, holder: Principals, run: Nat]

LeasesRide ==
  /\ Queue!LeaseRidesExecution
  /\ \A t \in issued : t.run <= attempt[t.item]

(* What is parked behind a request, and what the spine announces.          *)
Change == [skip: Items]

RequestShape ==
  /\ gate \in [Items -> [1..MaxAttempt -> RequestStates \cup {"none"}]]
  /\ holds \in [Holds -> RequestStates \cup {"none"}]
  /\ DOMAIN proposed \subseteq Holds /\ DOMAIN parked \subseteq Holds
  /\ \A q \in DOMAIN proposed : proposed[q] \in Change
  /\ \A q \in DOMAIN parked : parked[q] \in Change \cup Plan

Event ==
  [type: {"review"}, item: Items, verdict: Verdicts]
    \cup [type: {"hold"}, request: Holds, verdict: Verdicts]
    \cup [type: {"doc"}, nodes: SUBSET Items]

EngineShape ==
  /\ inbox \in Seq(Event) /\ ahead \in 0..Len(inbox)
  /\ engine # Idle =>
       /\ engine \in Handlers /\ ahead < Len(inbox)
       /\ engine.phase \in {"gating", "parking", "planned"} => engine.plan \in Plan
       /\ engine.phase = "parking" => engine.request \in Holds

Shape == QueueShape /\ LeasesRide /\ RequestShape /\ EngineShape

(* Answers are final: what an event announces of a request stays so.       *)
Answered ==
  \A k \in DOMAIN inbox :
    inbox[k].type = "hold" => holds[inbox[k].request] = inbox[k].verdict

(* A plan in the handler's hands is narrow or its request was approved.    *)
Approved(q) == q \in Holds /\ holds[q] = "approved"

PlansAreApproved ==
  engine # Idle /\ engine.phase \in {"planned", "moves"} /\ engine.plan # NoPlan
    => \/ 1 + Len(engine.plan.affected) <= AutoMax
       \/ Approved(engine.request)

(* A lease that was out on a node of the plan and still lives is one the   *)
(* rest of the cascade revokes.                                            *)
OnPlan(plan, i) == i = plan.dirty \/ \E k \in DOMAIN plan.affected : plan.affected[k] = i

Revoked(ops, i) == \E k \in DOMAIN ops : ops[k] = [move |-> "revokeLease", item |-> i]

LeasesAreRevoked ==
  engine # Idle /\ engine.phase = "moves" /\ engine.plan # NoPlan =>
    /\ \A i \in Items : engine.base[i] <= attempt[i]
    /\ \A t \in issued :
         OnPlan(engine.plan, t.item) /\ t.run <= engine.base[t.item] /\ Queue!Usable(t)
           => Revoked(engine.ops, t.item)

(* A parked plan waits for an answer that is still to come, or for one the *)
(* engine has before it.                                                   *)
HoldEvent(e, q) == e.type = "hold" /\ e.request = q

ParkedPlan(q) == q \in DOMAIN parked /\ ~IsChange(q)

AnswersAreAhead ==
  \A q \in DOMAIN parked :
    ~IsChange(q) => \/ holds[q] = "pending"
                    \/ \E k \in DOMAIN inbox : k > ahead /\ HoldEvent(inbox[k], q)

AnswerInHand ==
  engine # Idle =>
    /\ \A q \in DOMAIN parked :
         ~IsChange(q) /\ HoldEvent(inbox[ahead + 1], q) =>
           engine.phase \in {"planned", "moves"} /\ engine.request = q
    /\ engine.phase = "parking" =>
         /\ \A k \in 1..(ahead + 1) : ~HoldEvent(inbox[k], engine.request)
         /\ holds[engine.request] # "none"
         /\ \/ holds[engine.request] = "pending"
            \/ \E k \in DOMAIN inbox : HoldEvent(inbox[k], engine.request)
-----------------------------------------------------------------------------
(* The walk: what is within n steps is a set of live nodes, its members    *)
(* have a depth, and so it can be listed nearer ones first.                *)
Reach(x) ==
  CHOOSE reach : reach = [n \in Nat |->
    IF n = 0 THEN {x}
    ELSE reach[n - 1] \cup {d \in Live : DependsOn[d] \cap reach[n - 1] # {}}]

LEMMA WithinIsReach == ASSUME NEW x PROVE Within(x) = Reach(x)
BY DEF Within, Reach

LEMMA ReachType ==
  ASSUME NEW x \in Items
  PROVE  /\ Reach(x) \in [Nat -> SUBSET Items]
         /\ \A n \in Nat :
              Reach(x)[n] = IF n = 0 THEN {x}
                            ELSE Reach(x)[n - 1]
                                 \cup {d \in Live : DependsOn[d] \cap Reach(x)[n - 1] # {}}
<1> DEFINE T == SUBSET Items
           base == {x}
           more(S) == S \cup {d \in Live : DependsOn[d] \cap S # {}}
           step == [p \in Nat \X T |-> more(p[2])]
<1>1. \A S \in T : more(S) \in T
  BY DEF Live
<1> HIDE DEF more
<1>2. step \in [Nat \X T -> T] /\ base \in T
  BY <1>1
<1>3. ASSUME NEW n \in Nat, NEW S \in T PROVE step[<<n, S>>] = more(S)
  OBVIOUS
<1> HIDE DEF step, T, base
<1>4. PICK f : Solves(f, T, base, step)
  BY <1>2, RecursionExists
<1>5. ASSUME NEW n \in Nat PROVE f[n] = IF n = 0 THEN {x} ELSE more(f[n - 1])
  <2> DEFINE m == n - 1
  <2>1. CASE n = 0
    BY <1>4, <2>1 DEF Solves, base
  <2>2. CASE n # 0
    <3>1. m \in Nat /\ m + 1 = n
      BY <2>2
    <3> HIDE DEF m
    <3>2. f[m + 1] = step[<<m + 1, f[m]>>] /\ f[m] \in T
      BY <1>4, <3>1 DEF Solves
    <3>3. f[n] = more(f[m])
      BY <1>3, <3>1, <3>2
    <3> QED BY <2>2, <3>3 DEF m
  <2> QED BY <2>1, <2>2
<1>6. f \in [Nat -> T]
  BY <1>4 DEF Solves
<1>7. f = [n \in Nat |-> IF n = 0 THEN {x} ELSE more(f[n - 1])]
  BY <1>5, <1>6
<1> HIDE DEF more
<1> DEFINE Equation(r) == r = [n \in Nat |-> IF n = 0 THEN {x} ELSE more(r[n - 1])]
<1>8. \E r : Equation(r)
  BY <1>7
<1>9. Reach(x) = CHOOSE r : Equation(r)
  BY DEF Reach, more
<1> DEFINE g == Reach(x)
<1>10. g = [n \in Nat |-> IF n = 0 THEN {x} ELSE more(g[n - 1])]
  BY <1>8, <1>9
<1> HIDE DEF g, Equation
<1>11. ASSUME NEW n \in Nat PROVE g[n] \in T
  <2> DEFINE Wrong == {k \in Nat : g[k] \notin T}
  <2> SUFFICES ASSUME Wrong # {} PROVE FALSE
    OBVIOUS
  <2>1. PICK k \in Wrong : \A j \in Wrong : k <= j
    BY LeastNat
  <2>2. k # 0
    BY <1>10, <2>1 DEF T
  <2>3. k - 1 \in Nat /\ k - 1 \notin Wrong
    BY <2>1, <2>2
  <2>4. g[k] = more(g[k - 1]) /\ g[k - 1] \in T
    BY <1>10, <2>1, <2>2, <2>3
  <2> QED BY <1>1, <2>1, <2>4
<1>12. g = [n \in Nat |-> g[n]]
  BY <1>10
<1>13. \A n \in Nat : g[n] = IF n = 0 THEN {x} ELSE more(g[n - 1])
  BY <1>10
<1> QED BY <1>11, <1>12, <1>13 DEF g, T, more

LEMMA DepthType ==
  ASSUME NEW x \in Items, NEW d \in Reach(x)[Cardinality(Items)]
  PROVE  /\ Depth(x, d) \in 0..Cardinality(Items) /\ d \in Reach(x)[Depth(x, d)]
         /\ Depth(x, d) > 0 => d \notin Reach(x)[Depth(x, d) - 1]
<1> DEFINE C == Cardinality(Items)
           Ns == {n \in Nat : d \in Reach(x)[n]}
<1>1. C \in Nat
  BY RunAssumption, FS_CardinalityType
<1> HIDE DEF C
<1>2. C \in Ns
  BY <1>1 DEF C
<1>3. PICK n \in Ns : \A m \in Ns : n <= m
  BY <1>2, LeastNat
<1>4. n \in 0..C
  BY <1>1, <1>2, <1>3
<1>5. n > 0 => d \notin Reach(x)[n - 1]
  BY <1>3
<1> DEFINE IsDepth(k) == d \in Within(x)[k] /\ (k > 0 => d \notin Within(x)[k - 1])
<1>6. IsDepth(n)
  BY <1>3, <1>5, WithinIsReach
<1>7. Depth(x, d) = CHOOSE k \in 0..C : IsDepth(k)
  BY DEF Depth, C
<1> HIDE DEF IsDepth
<1>8. Depth(x, d) \in 0..C /\ IsDepth(Depth(x, d))
  BY <1>4, <1>6, <1>7
<1> QED BY <1>8, WithinIsReach DEF IsDepth, C

Dependents(x) == Reach(x)[Cardinality(Items)] \ {x}

LEMMA WalkType ==
  ASSUME NEW x \in Items
  PROVE  /\ WalkDependents(x) \in Seq(Items) /\ WalkDependents(x) \in SetToSeqs(Dependents(x))
         /\ \A j, k \in DOMAIN WalkDependents(x) :
              j < k => Depth(x, WalkDependents(x)[j]) <= Depth(x, WalkDependents(x)[k])
<1> DEFINE C == Cardinality(Items)
           S == Within(x)[C] \ {x}
           rank == [d \in S |-> Depth(x, d)]
           Listed(s) == \A j, k \in DOMAIN s : j < k => Depth(x, s[j]) <= Depth(x, s[k])
<1>1. Within(x)[C] \in SUBSET Items
  BY ReachType, WithinIsReach, RunAssumption, FS_CardinalityType
<1>2. IsFiniteSet(S) /\ S \subseteq Items
  BY <1>1, RunAssumption, FS_Subset
<1>3. \A d \in S : Depth(x, d) \in Nat
  BY DepthType, WithinIsReach, RunAssumption, FS_CardinalityType
<1>4. rank \in [S -> Nat]
  BY <1>3
<1>5. PICK s \in SetToSeqs(S) : InOrder(s, rank)
  BY <1>2, <1>4, SortedExists
<1>6. \A r \in SetToSeqs(S) : r \in [1..Cardinality(S) -> S]
  BY DEF SetToSeqs
<1>7. Listed(s)
  <2>1. \A k \in DOMAIN s : s[k] \in S
    BY <1>6
  <2>2. \A j, k \in DOMAIN s : j < k => rank[s[j]] <= rank[s[k]]
    BY <1>5 DEF InOrder
  <2> HIDE DEF S
  <2> QED BY <2>1, <2>2
<1>8. WalkDependents(x) = CHOOSE r \in SetToSeqs(S) : Listed(r)
  BY DEF WalkDependents
<1> HIDE DEF S, Listed
<1>9. WalkDependents(x) \in SetToSeqs(S) /\ Listed(WalkDependents(x))
  BY <1>7, <1>8
<1>10. Cardinality(S) \in Nat
  BY <1>2, FS_CardinalityType
<1>11. WalkDependents(x) \in Seq(Items)
  BY <1>2, <1>6, <1>9, <1>10
<1>12. S = Dependents(x)
  BY WithinIsReach DEF S, Dependents
<1> QED BY <1>9, <1>11, <1>12 DEF Listed

-----------------------------------------------------------------------------
(* The cascade: a sequence of moves of nodes, with a revocation for every  *)
(* node of the plan that was read as executing.                            *)
LEMMA JoinType ==
  ASSUME NEW S, NEW a \in Seq(S), NEW b \in Seq(S)
  PROVE  /\ a \o b \in Seq(S)
         /\ a # <<>> => 1 \in DOMAIN (a \o b) /\ (a \o b)[1] = a[1]
OBVIOUS

LEMMA MovesType ==
  ASSUME NEW s, NEW i \in Items, NEW dirty \in BOOLEAN
  PROVE  /\ Moves(s, i, dirty) \in Seq(Op)
         /\ s \in Running => Revoked(Moves(s, i, dirty), i)
<1> DEFINE names == CASE s \in {"claimed", "running"} -> Interrupt(dirty)
                      [] s \in Finished               -> Repudiate(dirty)
                      [] s = "ready"                  -> Park(dirty)
                      [] OTHER                        -> <<>>
<1>1. /\ <<>> \in Seq(Names) /\ <<"demote">> \in Seq(Names) /\ <<"revive">> \in Seq(Names)
      /\ <<"supersede", "supersedeResults", "markStale">> \in Seq(Names)
      /\ <<"revokeLease">> \in Seq(Names) /\ <<"revokeLease">> # <<>>
      /\ <<"revokeLease">>[1] = "revokeLease"
  BY DEF Names
<1>2. Park(dirty) \in Seq(Names) /\ Repudiate(dirty) \in Seq(Names)
  <2>1. Park(dirty) \in Seq(Names)
    BY <1>1 DEF Park
  <2> DEFINE tail == IF dirty THEN <<"revive">> ELSE <<>>
             first == <<"supersede", "supersedeResults", "markStale">>
  <2>2. tail \in Seq(Names) /\ first \in Seq(Names)
    BY <1>1
  <2>3. Repudiate(dirty) = first \o tail
    BY DEF Repudiate
  <2> HIDE DEF tail, first
  <2> QED BY <2>1, <2>2, <2>3, JoinType
<1>3. Interrupt(dirty) \in Seq(Names) /\ 1 \in DOMAIN Interrupt(dirty)
      /\ Interrupt(dirty)[1] = "revokeLease"
  <2> DEFINE first == <<"revokeLease">>
  <2>1. Interrupt(dirty) = first \o Park(dirty) /\ first \in Seq(Names)
        /\ first # <<>> /\ first[1] = "revokeLease"
    BY <1>1 DEF Interrupt
  <2> HIDE DEF first
  <2> QED BY <1>2, <2>1, JoinType
<1>4. names \in Seq(Names) /\ (s \in Running => 1 \in DOMAIN names /\ names[1] = "revokeLease")
  <2> DEFINE none == <<>>
  <2>1. names = IF s \in Running THEN Interrupt(dirty)
                ELSE IF s \in Finished THEN Repudiate(dirty)
                ELSE IF s = "ready" THEN Park(dirty) ELSE none
    BY DEF Running, Finished
  <2>2. none \in Seq(Names)
    BY <1>1
  <2> HIDE DEF names, none
  <2> QED BY <1>2, <1>3, <2>1, <2>2
<1>5. Moves(s, i, dirty) = [k \in DOMAIN names |-> [move |-> names[k], item |-> i]]
  BY DEF Moves
<1> HIDE DEF names
<1>6. \A k \in DOMAIN names : names[k] \in Names
  BY <1>4
<1>7. Len(names) \in Nat /\ DOMAIN names = 1..Len(names)
  BY <1>4
<1> DEFINE ops == [k \in DOMAIN names |-> [move |-> names[k], item |-> i]]
<1>8. ops \in [1..Len(names) -> Op]
  BY <1>6, <1>7 DEF Op
<1>9. s \in Running => Revoked(ops, i)
  BY <1>4 DEF Revoked
<1> HIDE DEF ops
<1> QED BY <1>5, <1>7, <1>8, <1>9 DEF ops

LEMMA CascadeType ==
  ASSUME QueueShape, NEW plan \in Plan
  PROVE  /\ Cascade(plan) \in Seq(Op)
         /\ \A i \in Items : OnPlan(plan, i) /\ status[i] \in Running
                               => Revoked(Cascade(plan), i)
<1> DEFINE a == plan.affected
           seqs == [k \in DOMAIN a |-> Moves(status[a[k]], a[k], FALSE)]
           head == FlattenSeq(seqs)
           last == Moves(status[plan.dirty], plan.dirty, TRUE)
<1>1. /\ a \in Seq(Items) /\ plan.dirty \in Items
      /\ \A k \in DOMAIN a : a[k] \in Items
  BY DEF Plan
<1>2. \A k \in DOMAIN a : /\ seqs[k] \in Seq(Op)
                          /\ status[a[k]] \in Running => Revoked(seqs[k], a[k])
  BY <1>1, MovesType
<1>3. seqs \in Seq(Seq(Op)) /\ DOMAIN seqs = DOMAIN a
  <2>1. Len(a) \in Nat /\ DOMAIN a = 1..Len(a)
    BY <1>1
  <2>2. seqs \in [1..Len(a) -> Seq(Op)]
    BY <1>2, <2>1
  <2> HIDE DEF seqs
  <2> QED BY <2>1, <2>2
<1>4. last \in Seq(Op) /\ (status[plan.dirty] \in Running => Revoked(last, plan.dirty))
  BY <1>1, MovesType
<1>5. Cascade(plan) = head \o last
  BY DEF Cascade
<1> HIDE DEF seqs, last, a
<1>6. /\ head \in Seq(Op)
      /\ \A i \in DOMAIN seqs : \A x \in DOMAIN seqs[i] :
           \E y \in DOMAIN head : head[y] = seqs[i][x]
  BY <1>3, FlattenHas
<1> HIDE DEF head
<1>7. /\ head \o last \in Seq(Op)
      /\ \A y \in DOMAIN head : y \in DOMAIN (head \o last) /\ (head \o last)[y] = head[y]
      /\ \A y \in DOMAIN last : /\ Len(head) + y \in DOMAIN (head \o last)
                                /\ (head \o last)[Len(head) + y] = last[y]
  BY <1>4, <1>6
<1>8. ASSUME NEW i \in Items, OnPlan(plan, i), status[i] \in Running
      PROVE  Revoked(head \o last, i)
  <2>1. CASE i = plan.dirty
    BY <1>4, <1>7, <1>8, <2>1 DEF Revoked
  <2>2. CASE \E k \in DOMAIN a : a[k] = i
    <3>1. PICK k \in DOMAIN a : a[k] = i
      BY <2>2
    <3>2. PICK x \in DOMAIN seqs[k] : seqs[k][x] = [move |-> "revokeLease", item |-> i]
      BY <1>2, <1>8, <3>1 DEF Revoked
    <3>3. PICK y \in DOMAIN head : head[y] = seqs[k][x]
      BY <1>3, <1>6, <3>1, <3>2
    <3> QED BY <1>7, <3>2, <3>3 DEF Revoked
  <2> QED BY <1>8, <2>1, <2>2 DEF OnPlan, a
<1> QED BY <1>5, <1>7, <1>8
-----------------------------------------------------------------------------
(* The queue's steps: claims are new, and no step revives a dead lease.    *)
Calm ==
  /\ \A i \in Items : attempt[i] <= attempt'[i]
  /\ \A t \in issued' : t \in issued \/ attempt[t.item] < t.run
  /\ \A t \in issued : ~Queue!Usable(t) => ~Queue!Usable(t)'

LEMMA StatusType ==
  ASSUME NEW from, NEW to \in Queue!Transitions(from)
  PROVE  to \in Queue!Statuses
BY DEF Queue!Transitions, Queue!Statuses

LEMMA TransitionCalm ==
  ASSUME QueueShape, LeasesRide, NEW i \in Items, NEW to, to \notin Running,
         Queue!Transition(i, to)
  PROVE  /\ (QueueShape /\ LeasesRide)' /\ Calm
         /\ \A t \in issued : t.item = i => ~Queue!Usable(t)'
<1>1. to \in Queue!Statuses
  BY StatusType DEF Queue!Transition
<1>2. QueueShape'
  BY <1>1 DEF QueueShape, Queue!Transition
<1>3. LeasesRide'
  BY DEF QueueShape, LeasesRide, Queue!LeaseRidesExecution, Queue!Transition, Running
<1>4. Calm
  BY DEF Calm, QueueShape, Queue!Transition, Queue!Usable
<1>5. \A t \in issued : t.item = i => ~Queue!Usable(t)'
  BY DEF QueueShape, Queue!Transition, Queue!Usable
<1> QED BY <1>2, <1>3, <1>4, <1>5

LEMMA SettleCalm ==
  ASSUME QueueShape, LeasesRide, NEW i \in Items, NEW path,
         path[Len(path)] \in Queue!Statuses \ Running, Queue!Settle(i, path)
  PROVE  (QueueShape /\ LeasesRide)' /\ Calm
<1> DEFINE to == path[Len(path)]
           s == [status EXCEPT ![i] = to]
           up == IF to = "done" THEN Queue!Promotable(s, i) ELSE {}
<1>1. /\ status' = [j \in Items |-> IF j \in up THEN "ready" ELSE s[j]]
      /\ lease' = [j \in Items |-> IF j \in up \cup {i} THEN NoLease ELSE lease[j]]
      /\ UNCHANGED <<attempt, now, issued>>
  BY DEF Queue!Settle
<1>2. /\ s \in [Items -> Queue!Statuses] /\ s[i] \notin Running
      /\ \A j \in Items : j # i => s[j] = status[j]
  BY DEF QueueShape
<1>3. "ready" \in Queue!Statuses \ Running
  BY DEF Queue!Statuses, Running
<1> HIDE DEF s, up, to
<1>4. QueueShape'
  BY <1>1, <1>2, <1>3 DEF QueueShape
<1>5. LeasesRide'
  BY <1>1, <1>2, <1>3 DEF QueueShape, LeasesRide, Queue!LeaseRidesExecution, Running
<1>6. Calm
  BY <1>1 DEF Calm, QueueShape, Queue!Usable
<1> QED BY <1>4, <1>5, <1>6

LEMMA ClaimCalm ==
  ASSUME QueueShape, LeasesRide, NEW p \in Principals, NEW i \in Items, Queue!Claim(p, i)
  PROVE  (QueueShape /\ LeasesRide)' /\ Calm
<1> DEFINE l == [holder |-> p, run |-> attempt[i] + 1, expires |-> now + 1]
           t == [item |-> i, holder |-> p, run |-> attempt[i] + 1]
<1>1. attempt[i] + 1 \in 0..MaxAttempt /\ now + 1 \in Nat
  BY RunAssumption DEF QueueShape, Queue!Claim
<1>2. l \in Queue!Lease /\ l # NoLease /\ l.run = attempt[i] + 1
  BY <1>1, RunAssumption DEF Queue!Lease
<1>3. /\ t \in [item: Items, holder: Principals, run: Nat]
      /\ t.item = i /\ t.run = attempt[i] + 1
  BY <1>1
<1>4. /\ lease' = [lease EXCEPT ![i] = l] /\ issued' = issued \cup {t}
      /\ attempt' = [attempt EXCEPT ![i] = attempt[i] + 1]
      /\ status' = [status EXCEPT ![i] = "claimed"] /\ now' = now
  BY DEF Queue!Claim
<1> HIDE DEF l, t
<1>5. QueueShape'
  BY <1>1, <1>2, <1>3, <1>4 DEF QueueShape, Queue!Statuses
<1>6. LeasesRide'
  BY <1>1, <1>2, <1>3, <1>4 DEF QueueShape, LeasesRide, Queue!LeaseRidesExecution
<1>7. Calm
  BY <1>1, <1>2, <1>3, <1>4 DEF QueueShape, LeasesRide, Calm, Queue!Usable
<1> QED BY <1>5, <1>6, <1>7

LEMMA OutcomeType ==
  ASSUME NEW o \in Outcomes
  PROVE  Queue!OutcomeToStatus[o] \in Queue!Statuses \ Running
BY RunAssumption DEF Queue!OutcomeToStatus, Queue!Statuses, Running

LEMMA WorkCalm ==
  ASSUME QueueShape, LeasesRide, Work
  PROVE  (QueueShape /\ LeasesRide)' /\ Calm
<1>1. ASSUME NEW p \in Principals, NEW i \in Items, Queue!Claim(p, i)
      PROVE  (QueueShape /\ LeasesRide)' /\ Calm
  BY <1>1, ClaimCalm
<1>2. ASSUME NEW t \in issued, Queue!Release(t)
      PROVE  (QueueShape /\ LeasesRide)' /\ Calm
  <2>1. t.item \in Items /\ "ready" \notin Running
    BY DEF QueueShape, Running
  <2> QED BY <1>2, <2>1, TransitionCalm DEF Queue!Release
<1>3. ASSUME NEW t \in issued, NEW o \in Outcomes, Queue!Complete(t, o)
      PROVE  (QueueShape /\ LeasesRide)' /\ Calm
  <2> DEFINE path == Queue!RunPath(status[t.item], Queue!OutcomeToStatus[o])
  <2>1. path[Len(path)] = Queue!OutcomeToStatus[o]
    BY DEF Queue!RunPath
  <2>2. t.item \in Items
    BY DEF QueueShape
  <2>3. Queue!Settle(t.item, path)
    BY <1>3 DEF Queue!Complete
  <2> HIDE DEF path
  <2> QED BY <2>1, <2>2, <2>3, OutcomeType, SettleCalm
<1> QED BY <1>1, <1>2, <1>3 DEF Work

LEMMA MoveCalm ==
  ASSUME QueueShape, LeasesRide, NEW op \in Op, Apply(op)
  PROVE  /\ (QueueShape /\ LeasesRide)' /\ Calm
         /\ op.move = "revokeLease" => \A t \in issued : t.item = op.item => ~Queue!Usable(t)'
<1> DEFINE i == op.item
<1>0. i \in Items /\ op.move \in Names
  BY DEF Op
<1>1. CASE op.move = "resolveApproval"
  <2> DEFINE path == <<status[i], "done">>
  <2>1. path[Len(path)] = "done" /\ "done" \in Queue!Statuses \ Running
    BY DEF Queue!Statuses, Running
  <2>2. Queue!Settle(i, path)
    BY <1>1 DEF Apply, Still, Queue!ResolveApproval
  <2> HIDE DEF path
  <2> QED BY <1>0, <1>1, <2>1, <2>2, SettleCalm
<1>2. CASE op.move \in Still
  <2>1. UNCHANGED queue
    BY <1>2 DEF Apply, Still
  <2>2. (QueueShape /\ LeasesRide)'
    BY <2>1 DEF queue, QueueShape, LeasesRide, Queue!LeaseRidesExecution
  <2>3. Calm
    BY <2>1 DEF queue, Calm, Queue!Usable, QueueShape
  <2> QED BY <1>2, <2>2, <2>3 DEF Still
<1>3. CASE op.move \notin {"resolveApproval"} \cup Still
  <2>1. \E to \in {"cancelled", "ready", "pending", "stale"} : Queue!Transition(i, to)
    BY <1>0, <1>3
    DEF Names, Still, Apply, Queue!Cancel, Queue!RevokeLease, Queue!Demote, Queue!MarkStale,
        Queue!Revive
  <2>2. PICK to \in {"cancelled", "ready", "pending", "stale"} : Queue!Transition(i, to)
    BY <2>1
  <2>3. to \notin Running
    BY DEF Running
  <2> QED BY <1>0, <2>2, <2>3, TransitionCalm
<1> QED BY <1>1, <1>2, <1>3

LEMMA HeadType ==
  ASSUME EngineShape, Handles("moves"), engine.ops # <<>>
  PROVE  Head(engine.ops) \in Op /\ Tail(engine.ops) \in Seq(Op)
BY DEF EngineShape, Handles, Handlers

LEMMA QueueStep ==
  ASSUME QueueShape, LeasesRide, EngineShape, [Next]_vars
  PROVE  (QueueShape /\ LeasesRide)' /\ Calm
<1>1. ASSUME UNCHANGED queue PROVE (QueueShape /\ LeasesRide)' /\ Calm
  BY <1>1 DEF queue, QueueShape, LeasesRide, Queue!LeaseRidesExecution, Calm, Queue!Usable
<1>2. CASE Work
  BY <1>2, WorkCalm
<1>3. CASE Move
  BY <1>3, HeadType, MoveCalm DEF Move
<1>4. CASE ~Work /\ ~Move
  <2>1. UNCHANGED queue
    BY <1>4
    DEF Next, Engine, RequestReview, ResolveReview, ResolveHold, ProposeSkip, ParkSkip,
        NewDoc, Receive, PlanInvalidation, RequestPlan, ParkPlan, ReadStatuses, Executed,
        Finish, Persist, Throw, Crash, vars
  <2> QED BY <1>1, <2>1
<1> QED BY <1>2, <1>3, <1>4
-----------------------------------------------------------------------------
(* The requests and what is parked behind them.                            *)
LEMMA HeadEvent ==
  ASSUME EngineShape, engine = Idle, ahead < Len(inbox)
  PROVE  ahead + 1 \in DOMAIN inbox /\ inbox[ahead + 1] \in Event
BY DEF EngineShape

LEMMA PlanIsNoChange ==
  /\ \A x \in Change : "skip" \in DOMAIN x /\ x.skip \in Items
  /\ \A x \in Plan : "skip" \notin DOMAIN x
BY DEF Change, Plan

LEMMA RequestStep ==
  ASSUME RequestShape, EngineShape, [Next]_vars
  PROVE  RequestShape'
<1> USE DEF RequestShape
<1>1. ASSUME NEW i \in Items, RequestReview(i) PROVE RequestShape'
  <2>1. "pending" \in RequestStates
    BY DEF RequestStates
  <2>2. gate' = [gate EXCEPT ![i] = [gate[i] EXCEPT ![attempt[i]] = "pending"]]
    BY <1>1 DEF RequestReview
  <2>3. [gate[i] EXCEPT ![attempt[i]] = "pending"]
          \in [1..MaxAttempt -> RequestStates \cup {"none"}]
    BY <2>1
  <2>4. UNCHANGED <<holds, proposed, parked>>
    BY <1>1 DEF RequestReview
  <2> QED BY <2>2, <2>3, <2>4
<1>2. CASE \E i \in Items, a \in 1..MaxAttempt, v \in Verdicts : ResolveReview(i, a, v)
  BY <1>2 DEF ResolveReview, RequestStates, Verdicts
<1>3. CASE \E q \in Holds, v \in Verdicts : ResolveHold(q, v)
  BY <1>3 DEF ResolveHold, RequestStates, Verdicts
<1>4. ASSUME NEW q \in Holds, NEW i \in Items, ProposeSkip(q, i) PROVE RequestShape'
  <2>1. [skip |-> i] \in Change
    BY DEF Change
  <2>2. /\ DOMAIN proposed' \subseteq Holds
        /\ \A r \in DOMAIN proposed' : proposed'[r] \in Change
    BY <1>4, <2>1 DEF ProposeSkip, Put
  <2>3. holds' \in [Holds -> RequestStates \cup {"none"}]
    BY <1>4 DEF ProposeSkip, RequestStates
  <2> QED BY <1>4, <2>2, <2>3 DEF ProposeSkip
<1>5. ASSUME NEW q \in Holds, ParkSkip(q) PROVE RequestShape'
  <2>1. /\ DOMAIN proposed' \subseteq Holds
        /\ \A r \in DOMAIN proposed' : proposed'[r] \in Change
    BY <1>5 DEF ParkSkip, Restrict
  <2>2. /\ DOMAIN parked' \subseteq Holds
        /\ \A r \in DOMAIN parked' : parked'[r] \in Change \cup Plan
    BY <1>5 DEF ParkSkip, Put
  <2> QED BY <1>5, <2>1, <2>2 DEF ParkSkip
<1>6. CASE Receive \/ Executed
  <2>1. \/ parked' = parked
        \/ \E q : parked' = Restrict(parked, DOMAIN parked \ {q})
    BY <1>6 DEF Receive, Executed
  <2>2. /\ DOMAIN parked' \subseteq Holds
        /\ \A r \in DOMAIN parked' : parked'[r] \in Change \cup Plan
    BY <2>1 DEF Restrict
  <2>3. UNCHANGED requests
    BY <1>6 DEF Receive, Executed
  <2> QED BY <2>2, <2>3 DEF requests
<1>7. CASE \E q \in Holds : RequestPlan(q)
  BY <1>7 DEF RequestPlan, RequestStates
<1>8. CASE ParkPlan
  <2>1. engine.request \in Holds /\ engine.plan \in Plan
    BY <1>8 DEF ParkPlan, Handles, EngineShape
  <2>2. /\ DOMAIN parked' \subseteq Holds
        /\ \A r \in DOMAIN parked' : parked'[r] \in Change \cup Plan
    BY <1>8, <2>1 DEF ParkPlan, Put
  <2> QED BY <1>8, <2>2 DEF ParkPlan, requests
<1>9. CASE Move
  <2>1. gate' \in [Items -> [1..MaxAttempt -> RequestStates \cup {"none"}]]
    BY <1>9 DEF Move, RequestStates
  <2> QED BY <1>9, <2>1 DEF Move
<1>10. CASE \/ Work \/ PlanInvalidation \/ ReadStatuses \/ Finish \/ Persist \/ Throw
            \/ Crash \/ (\E nodes \in SUBSET Items \ {{}} : NewDoc(nodes))
            \/ UNCHANGED vars
  <2>1. UNCHANGED <<gate, holds, proposed, parked>>
    BY <1>10
    DEF Work, PlanInvalidation, ReadStatuses, Finish, Persist, Throw, Crash, NewDoc,
        requests, vars
  <2> QED BY <2>1
<1> QED
  BY <1>1, <1>2, <1>3, <1>4, <1>5, <1>6, <1>7, <1>8, <1>9, <1>10 DEF Next, Engine

-----------------------------------------------------------------------------
(* The inbox and the handler.                                              *)
LEMMA AppendType ==
  ASSUME EngineShape, NEW e \in Event
  PROVE  /\ Append(inbox, e) \in Seq(Event)
         /\ Len(Append(inbox, e)) = Len(inbox) + 1
         /\ \A k \in DOMAIN inbox : Append(inbox, e)[k] = inbox[k]
         /\ Append(inbox, e)[Len(inbox) + 1] = e
BY DEF EngineShape

LEMMA InboxGrows ==
  ASSUME EngineShape, NEW e \in Event, inbox' = Append(inbox, e),
         UNCHANGED <<ahead, engine>>
  PROVE  EngineShape'
<1>1. ahead' \in 0..Len(inbox') /\ (engine # Idle => ahead' < Len(inbox'))
  BY AppendType DEF EngineShape
<1> QED BY <1>1, AppendType DEF EngineShape

LEMMA ReadEnds ==
  ASSUME EngineShape, inbox' = SubSeq(inbox, ahead + 1, Len(inbox)), ahead' = 0
  PROVE  /\ inbox' \in Seq(Event) /\ ahead' \in 0..Len(inbox')
         /\ \A k \in DOMAIN inbox' : /\ k + ahead \in DOMAIN inbox
                                     /\ inbox'[k] = inbox[k + ahead]
         /\ \A k \in DOMAIN inbox : k > ahead => /\ k - ahead \in DOMAIN inbox'
                                                 /\ inbox'[k - ahead] = inbox[k]
<1> DEFINE n == Len(inbox)
<1>1. n \in Nat /\ ahead \in 0..n /\ inbox \in Seq(Event) /\ DOMAIN inbox = 1..n
  BY DEF EngineShape
<1>2. inbox' = SubSeq(inbox, ahead + 1, n)
  OBVIOUS
<1> HIDE DEF n
<1>3. /\ inbox' \in Seq(Event) /\ Len(inbox') = n - ahead
      /\ \A k \in 1..(n - ahead) : inbox'[k] = inbox[k + ahead]
  BY <1>1, <1>2
<1> QED BY <1>1, <1>3

LEMMA HandlerType ==
  ASSUME QueueShape, NEW phase \in Phases, NEW causes \in SUBSET Items
  PROVE  Handler(phase, causes) \in Handlers
BY DEF QueueShape, Handler, Handlers

LEMMA BeginType ==
  ASSUME QueueShape, RequestShape, NEW e \in Event
  PROVE  /\ Begin(e) \in Handlers
         /\ Begin(e).phase \in {"planned", "moves", "causes"}
         /\ Begin(e).phase = "moves" => Begin(e).plan = NoPlan
         /\ Begin(e).phase = "planned" =>
              /\ HeldBy(e) /\ e.verdict = "approved" /\ "skip" \notin DOMAIN parked[e.request]
              /\ Begin(e).plan = parked[e.request] /\ Begin(e).plan \in Plan
              /\ Begin(e).request = e.request
         /\ HeldBy(e) /\ e.verdict = "approved" /\ "skip" \notin DOMAIN parked[e.request]
              => Begin(e).phase = "planned"
<1>1. CASE e.type = "review" /\ e.verdict = "approved" /\ status[e.item] = "awaiting_approval"
  <2> DEFINE h == Handler("moves", {})
             op == [move |-> "resolveApproval", item |-> e.item]
             ops == <<op>>
  <2>1. op \in Op
    BY <1>1 DEF Event, Op, Names
  <2>2. ops \in Seq(Op)
    BY <2>1
  <2>3. h \in Handlers /\ h.phase = "moves" /\ h.plan = NoPlan
    <3>1. h \in Handlers
      BY HandlerType DEF Phases
    <3> QED BY <3>1 DEF Handler
  <2>4. Begin(e) = [h EXCEPT !.ops = ops] /\ ~HeldBy(e)
    BY <1>1 DEF Begin, HeldBy
  <2> HIDE DEF h, ops
  <2> QED BY <2>2, <2>3, <2>4 DEF Handlers
<1>2. CASE HeldBy(e) /\ e.verdict = "approved" /\ "skip" \in DOMAIN parked[e.request]
  <2> DEFINE h == Handler("moves", {})
             op == [move |-> "skip", item |-> parked[e.request].skip]
             ops == <<op>>
  <2>1. op \in Op /\ e.request \in Holds
    BY <1>2, PlanIsNoChange DEF HeldBy, RequestShape, Op, Names
  <2>2. ops \in Seq(Op)
    BY <2>1
  <2>3. h \in Handlers /\ h.phase = "moves" /\ h.plan = NoPlan
    <3>1. h \in Handlers
      BY HandlerType DEF Phases
    <3> QED BY <3>1 DEF Handler
  <2>4. Begin(e) = [h EXCEPT !.ops = ops, !.request = e.request]
    BY <1>2 DEF Begin, HeldBy
  <2> HIDE DEF h, ops
  <2> QED BY <1>2, <2>1, <2>2, <2>3, <2>4 DEF Handlers
<1>3. CASE HeldBy(e) /\ e.verdict = "approved" /\ "skip" \notin DOMAIN parked[e.request]
  <2> DEFINE h == Handler("planned", {})
             plan == parked[e.request]
  <2>1. plan \in Plan /\ e.request \in Holds
    BY <1>3, PlanIsNoChange DEF HeldBy, RequestShape
  <2>2. h \in Handlers /\ h.phase = "planned"
    <3>1. h \in Handlers
      BY HandlerType DEF Phases
    <3> QED BY <3>1 DEF Handler
  <2>3. Begin(e) = [h EXCEPT !.plan = plan, !.request = e.request]
    BY <1>3 DEF Begin, HeldBy
  <2> HIDE DEF h, plan
  <2>4. /\ Begin(e) \in Handlers /\ Begin(e).phase = "planned" /\ Begin(e).plan = plan
        /\ Begin(e).request = e.request
    BY <2>1, <2>2, <2>3 DEF Handlers
  <2> QED BY <1>3, <2>1, <2>4 DEF plan
<1>4. CASE /\ ~(e.type = "review" /\ e.verdict = "approved"
                /\ status[e.item] = "awaiting_approval")
           /\ ~(HeldBy(e) /\ e.verdict = "approved")
  <2> DEFINE h == Handler("causes", Causes(e))
  <2>1. Causes(e) \in SUBSET Items
    BY DEF Causes, Event
  <2>2. h \in Handlers /\ h.phase = "causes"
    <3>1. h \in Handlers
      BY <2>1, HandlerType DEF Phases
    <3> QED BY <3>1 DEF Handler
  <2>3. Begin(e) = h
    BY <1>4 DEF Begin
  <2> HIDE DEF h
  <2> QED BY <1>4, <2>2, <2>3
<1> QED BY <1>1, <1>2, <1>3, <1>4

LEMMA EngineStep ==
  ASSUME QueueShape, RequestShape, EngineShape, [Next]_vars
  PROVE  EngineShape'
<1>0. ASSUME UNCHANGED <<inbox, ahead, engine>> PROVE EngineShape'
  BY <1>0 DEF EngineShape
<1>1. ASSUME UNCHANGED <<inbox, ahead>>, engine # Idle,
             engine' \in Handlers,
             engine'.phase \in {"gating", "parking", "planned"} => engine'.plan \in Plan,
             engine'.phase = "parking" => engine'.request \in Holds
      PROVE EngineShape'
  BY <1>1 DEF EngineShape
<1>2. ASSUME NEW i \in Items, NEW a \in 1..MaxAttempt, NEW v \in Verdicts,
             ResolveReview(i, a, v)
      PROVE  EngineShape'
  <2> DEFINE e == [type |-> "review", item |-> i, verdict |-> v]
  <2>1. e \in Event
    BY DEF Event
  <2> QED BY <1>2, <2>1, InboxGrows DEF ResolveReview
<1>3. ASSUME NEW q \in Holds, NEW v \in Verdicts, ResolveHold(q, v) PROVE EngineShape'
  <2> DEFINE e == [type |-> "hold", request |-> q, verdict |-> v]
  <2>1. e \in Event
    BY DEF Event
  <2> QED BY <1>3, <2>1, InboxGrows DEF ResolveHold
<1>4. ASSUME NEW nodes \in SUBSET Items, NewDoc(nodes) PROVE EngineShape'
  <2> DEFINE e == [type |-> "doc", nodes |-> nodes]
  <2>1. e \in Event
    BY DEF Event
  <2> QED BY <1>4, <2>1, InboxGrows DEF NewDoc
<1>5. CASE Receive
  <2>1. /\ ahead < Len(inbox) /\ UNCHANGED <<inbox, ahead>>
        /\ engine' = Begin(inbox[ahead + 1]) /\ inbox[ahead + 1] \in Event
    BY <1>5, HeadEvent DEF Receive, progress
  <2> QED BY <2>1, BeginType DEF EngineShape
<1>6. CASE PlanInvalidation
  <2>1. PICK c \in engine.causes \cap Live :
          LET plan == [dirty |-> c, affected |-> WalkDependents(c)]
          IN engine' = [engine EXCEPT
               !.causes = @ \ {c}, !.plan = plan,
               !.phase = IF 1 + Len(plan.affected) <= AutoMax THEN "planned" ELSE "gating"]
    BY <1>6 DEF PlanInvalidation
  <2> DEFINE plan == [dirty |-> c, affected |-> WalkDependents(c)]
             phase == IF 1 + Len(plan.affected) <= AutoMax THEN "planned" ELSE "gating"
  <2>2. plan \in Plan /\ phase \in {"planned", "gating"}
    BY WalkType DEF Plan, Live
  <2>3. engine' = [engine EXCEPT !.causes = @ \ {c}, !.plan = plan, !.phase = phase]
    BY <2>1
  <2> HIDE DEF plan, phase
  <2>4. engine # Idle /\ engine \in Handlers /\ UNCHANGED <<inbox, ahead>>
    BY <1>6 DEF PlanInvalidation, Handles, EngineShape, progress
  <2>5. engine' \in Handlers /\ engine'.phase \in {"planned", "gating"} /\ engine'.plan \in Plan
    BY <2>2, <2>3, <2>4 DEF Handlers, Phases
  <2> QED BY <1>1, <2>4, <2>5
<1>7. CASE \E q \in Holds : RequestPlan(q)
  <2>1. PICK q \in Holds : engine' = [engine EXCEPT !.phase = "parking", !.request = q]
    BY <1>7 DEF RequestPlan
  <2>2. /\ engine # Idle /\ engine \in Handlers /\ UNCHANGED <<inbox, ahead>>
        /\ engine.plan \in Plan
    BY <1>7 DEF RequestPlan, Handles, EngineShape, progress
  <2>3. /\ engine' \in Handlers /\ engine'.plan \in Plan /\ engine'.request \in Holds
    BY <2>1, <2>2 DEF Handlers, Phases
  <2> QED BY <1>1, <2>2, <2>3
<1>8. CASE ParkPlan \/ Executed
  <2>1. /\ engine # Idle /\ engine \in Handlers /\ UNCHANGED <<inbox, ahead>>
        /\ engine' = [engine EXCEPT !.phase = "causes", !.plan = NoPlan, !.request = Idle]
    BY <1>8 DEF ParkPlan, Executed, Handles, EngineShape, progress
  <2>2. engine' \in Handlers /\ engine'.phase = "causes"
    BY <2>1 DEF Handlers, Phases
  <2> QED BY <1>1, <2>1, <2>2
<1>9. CASE ReadStatuses
  <2>1. /\ engine # Idle /\ engine \in Handlers /\ UNCHANGED <<inbox, ahead>>
        /\ engine' = [engine EXCEPT !.phase = "moves", !.ops = Cascade(engine.plan),
                                    !.base = attempt]
        /\ engine.plan \in Plan
    BY <1>9 DEF ReadStatuses, Handles, EngineShape, progress
  <2>2. Cascade(engine.plan) \in Seq(Op) /\ attempt \in [Items -> 0..MaxAttempt]
    BY <2>1, CascadeType DEF QueueShape
  <2>3. engine' \in Handlers /\ engine'.phase = "moves"
    BY <2>1, <2>2 DEF Handlers, Phases
  <2> QED BY <1>1, <2>1, <2>3
<1>10. CASE Move
  <2>1. /\ engine # Idle /\ engine \in Handlers /\ UNCHANGED <<inbox, ahead>>
        /\ engine' = [engine EXCEPT !.ops = Tail(engine.ops)]
        /\ Tail(engine.ops) \in Seq(Op) /\ engine.phase = "moves"
    BY <1>10, HeadType DEF Move, Handles, EngineShape, progress
  <2>2. engine' \in Handlers /\ engine'.phase = "moves"
    BY <2>1 DEF Handlers, Phases
  <2> QED BY <1>1, <2>1, <2>2
<1>11. CASE Finish \/ Persist \/ Throw \/ Crash
  <2>1. engine' = Idle
    BY <1>11 DEF Finish, Persist, Throw, Crash
  <2>2. CASE Persist \/ Throw
    <3>1. inbox' = SubSeq(inbox, ahead + 1, Len(inbox)) /\ ahead' = 0
      BY <2>2 DEF Persist, Throw
    <3> QED BY <2>1, <3>1, ReadEnds DEF EngineShape
  <2>3. CASE Crash
    BY <2>1, <2>3 DEF Crash, EngineShape
  <2>4. CASE Finish
    <3>1. /\ ahead < Len(inbox) /\ ahead \in 0..Len(inbox) /\ inbox \in Seq(Event)
          /\ ahead' = ahead + 1 /\ inbox' = inbox
      BY <2>4 DEF Finish, Handles, EngineShape
    <3>2. ahead' \in 0..Len(inbox')
      BY <3>1
    <3> QED BY <2>1, <3>1, <3>2 DEF EngineShape
  <2> QED BY <1>11, <2>2, <2>3, <2>4
<1>12. CASE \/ Work \/ (\E i \in Items : RequestReview(i))
            \/ (\E q \in Holds, i \in Items : ProposeSkip(q, i))
            \/ (\E q \in Holds : ParkSkip(q)) \/ UNCHANGED vars
  <2>1. UNCHANGED <<inbox, ahead, engine>>
    BY <1>12 DEF Work, RequestReview, ProposeSkip, ParkSkip, progress, vars
  <2> QED BY <1>0, <2>1
<1> QED
  BY <1>2, <1>3, <1>4, <1>5, <1>6, <1>7, <1>8, <1>9, <1>10, <1>11, <1>12 DEF Next, Engine

LEMMA ShapeInit == Init => Shape
<1> SUFFICES ASSUME Init PROVE Shape
  OBVIOUS
<1>1. QueueShape
  BY RunAssumption DEF Init, QueueShape, Queue!Statuses
<1>2. LeasesRide
  BY DEF Init, LeasesRide, Queue!LeaseRidesExecution
<1>3. RequestShape
  BY DEF Init, RequestShape
<1>4. EngineShape
  BY DEF Init, EngineShape
<1> QED BY <1>1, <1>2, <1>3, <1>4 DEF Shape

LEMMA ShapeInvariant == Spec => []Shape
<1>1. Shape /\ [Next]_vars => Shape'
  BY QueueStep, RequestStep, EngineStep DEF Shape
<1> QED BY <1>1, ShapeInit, PTL DEF Spec
-----------------------------------------------------------------------------
(* Answers: only a pending request is resolved, and never again after that.*)
LEMMA HoldsChange ==
  ASSUME RequestShape, [Next]_vars, NEW q \in Holds
  PROVE  \/ holds'[q] = holds[q]
         \/ holds[q] = "none" /\ holds'[q] = "pending"
         \/ holds[q] = "pending" /\ holds'[q] \in Verdicts
<1>1. CASE \E r \in Holds, v \in Verdicts : ResolveHold(r, v)
  BY <1>1 DEF ResolveHold, RequestShape
<1>2. CASE \/ \E r \in Holds, i \in Items : ProposeSkip(r, i)
           \/ \E r \in Holds : RequestPlan(r)
  BY <1>2 DEF ProposeSkip, RequestPlan, RequestShape
<1>3. CASE \/ Work \/ (\E i \in Items : RequestReview(i))
           \/ (\E i \in Items, a \in 1..MaxAttempt, v \in Verdicts : ResolveReview(i, a, v))
           \/ (\E r \in Holds : ParkSkip(r)) \/ (\E nodes \in SUBSET Items \ {{}} : NewDoc(nodes))
           \/ Receive \/ PlanInvalidation \/ ParkPlan \/ ReadStatuses \/ Move \/ Executed
           \/ Finish \/ Persist \/ Throw \/ Crash \/ UNCHANGED vars
  <2>1. holds' = holds
    BY <1>3
    DEF Work, RequestReview, ResolveReview, ParkSkip, NewDoc, Receive, PlanInvalidation,
        ParkPlan, ReadStatuses, Move, Executed, Finish, Persist, Throw, Crash, requests, vars
  <2> QED BY <2>1
<1> QED BY <1>1, <1>2, <1>3 DEF Next, Engine

LEMMA VerdictsAreFinal ==
  /\ "pending" \notin Verdicts /\ "none" \notin Verdicts /\ "approved" \in Verdicts
  /\ \A e \in Event : e.type = "hold" => e.request \in Holds /\ e.verdict \in Verdicts
BY DEF Verdicts, Event

LEMMA ApprovalStays ==
  ASSUME RequestShape, [Next]_vars, NEW q, Approved(q)
  PROVE  Approved(q)'
BY HoldsChange, VerdictsAreFinal DEF Approved

(* The inbox grows at its end, by events that say what just happened, and  *)
(* shrinks at its front.                                                   *)
LEMMA InboxChange ==
  ASSUME RequestShape, EngineShape, [Next]_vars
  PROVE  \/ inbox' = inbox
         \/ \E e \in Event :
              /\ inbox' = Append(inbox, e)
              /\ e.type = "hold" => holds'[e.request] = e.verdict /\ holds[e.request] = "pending"
              /\ UNCHANGED <<ahead, engine, parked>>
         \/ /\ inbox' = SubSeq(inbox, ahead + 1, Len(inbox)) /\ ahead' = 0 /\ engine' = Idle
            /\ UNCHANGED <<holds, parked>>
<1>1. ASSUME NEW i \in Items, NEW a \in 1..MaxAttempt, NEW v \in Verdicts,
             ResolveReview(i, a, v)
      PROVE  \E e \in Event : /\ inbox' = Append(inbox, e) /\ e.type # "hold"
                              /\ UNCHANGED <<ahead, engine, parked>>
  <2> DEFINE e == [type |-> "review", item |-> i, verdict |-> v]
  <2>1. e \in Event /\ e.type # "hold"
    BY DEF Event
  <2> QED BY <1>1, <2>1 DEF ResolveReview
<1>2. ASSUME NEW q \in Holds, NEW v \in Verdicts, ResolveHold(q, v)
      PROVE  \E e \in Event :
              /\ inbox' = Append(inbox, e)
              /\ holds'[e.request] = e.verdict /\ holds[e.request] = "pending"
              /\ UNCHANGED <<ahead, engine, parked>>
  <2> DEFINE e == [type |-> "hold", request |-> q, verdict |-> v]
  <2>1. e \in Event /\ e.request = q /\ e.verdict = v
    BY DEF Event
  <2>2. holds'[q] = v
    BY <1>2 DEF ResolveHold, RequestShape
  <2> QED BY <1>2, <2>1, <2>2 DEF ResolveHold
<1>3. ASSUME NEW nodes \in SUBSET Items, NewDoc(nodes)
      PROVE  \E e \in Event : /\ inbox' = Append(inbox, e) /\ e.type # "hold"
                              /\ UNCHANGED <<ahead, engine, parked>>
  <2> DEFINE e == [type |-> "doc", nodes |-> nodes]
  <2>1. e \in Event /\ e.type # "hold"
    BY DEF Event
  <2> QED BY <1>3, <2>1 DEF NewDoc
<1>4. CASE Persist \/ Throw
  BY <1>4 DEF Persist, Throw, requests
<1>5. CASE \/ Work \/ (\E i \in Items : RequestReview(i))
           \/ (\E q \in Holds, i \in Items : ProposeSkip(q, i))
           \/ (\E q \in Holds : ParkSkip(q)) \/ Receive \/ PlanInvalidation
           \/ (\E q \in Holds : RequestPlan(q)) \/ ParkPlan \/ ReadStatuses \/ Move
           \/ Executed \/ Finish \/ Crash \/ UNCHANGED vars
  <2>1. inbox' = inbox
    BY <1>5
    DEF Work, RequestReview, ProposeSkip, ParkSkip, Receive, PlanInvalidation, RequestPlan,
        ParkPlan, ReadStatuses, Move, Executed, Finish, Crash, progress, vars
  <2> QED BY <2>1
<1> QED BY <1>1, <1>2, <1>3, <1>4, <1>5 DEF Next, Engine

LEMMA AnsweredStep ==
  ASSUME RequestShape, EngineShape, Answered, [Next]_vars
  PROVE  Answered'
<1>0. \A k \in DOMAIN inbox :
        inbox[k].type = "hold" => holds'[inbox[k].request] = inbox[k].verdict
  <2> SUFFICES ASSUME NEW k \in DOMAIN inbox, inbox[k].type = "hold"
               PROVE  holds'[inbox[k].request] = inbox[k].verdict
    OBVIOUS
  <2>1. inbox[k] \in Event
    BY DEF EngineShape
  <2>2. inbox[k].request \in Holds /\ holds[inbox[k].request] \in Verdicts
    BY <2>1, VerdictsAreFinal DEF Answered
  <2> QED BY <2>2, HoldsChange, VerdictsAreFinal DEF Answered
<1>1. CASE inbox' = inbox
  BY <1>0, <1>1 DEF Answered
<1>2. ASSUME NEW e \in Event, inbox' = Append(inbox, e),
             e.type = "hold" => holds'[e.request] = e.verdict
      PROVE  Answered'
  <2>1. \A k \in DOMAIN inbox' : k \in DOMAIN inbox \/ k = Len(inbox) + 1
    BY <1>2 DEF EngineShape
  <2> QED BY <1>0, <1>2, <2>1, AppendType DEF Answered
<1>3. CASE inbox' = SubSeq(inbox, ahead + 1, Len(inbox)) /\ ahead' = 0
  BY <1>0, <1>3, ReadEnds DEF Answered
<1> QED BY <1>1, <1>2, <1>3, InboxChange

(* What the handler does to its plan.                                      *)
LEMMA ApprovedStep ==
  ASSUME QueueShape, RequestShape, EngineShape, Answered, PlansAreApproved, [Next]_vars
  PROVE  PlansAreApproved'
<1>0. ASSUME engine' # Idle, engine'.phase \in {"planned", "moves"},
             engine # Idle, engine.phase \in {"planned", "moves"},
             engine'.plan = engine.plan, engine'.request = engine.request
      PROVE  PlansAreApproved'
  BY <1>0, ApprovalStays DEF PlansAreApproved
<1>1. ASSUME UNCHANGED engine PROVE PlansAreApproved'
  BY <1>1, ApprovalStays DEF PlansAreApproved
<1>2. CASE Receive
  <2> DEFINE e == inbox[ahead + 1]
  <2>1. engine' = Begin(e) /\ e \in Event /\ ahead + 1 \in DOMAIN inbox /\ holds' = holds
    BY <1>2, HeadEvent DEF Receive, requests
  <2> HIDE DEF e
  <2>2. engine'.phase = "planned" =>
          engine'.request \in Holds /\ holds'[engine'.request] = "approved"
    <3>1. ASSUME engine'.phase = "planned"
          PROVE  /\ HeldBy(e) /\ e.verdict = "approved" /\ engine'.request = e.request
      BY <2>1, <3>1, BeginType
    <3>2. HeldBy(e) => e.type = "hold" /\ e.request \in Holds /\ holds[e.request] = e.verdict
      BY <2>1, VerdictsAreFinal DEF HeldBy, Answered, e
    <3> QED BY <2>1, <3>1, <3>2
  <2>3. engine'.phase = "moves" => engine'.plan = NoPlan
    BY <2>1, BeginType
  <2>4. NoPlan' = NoPlan
    BY DEF NoPlan
  <2> QED BY <2>1, <2>2, <2>3, <2>4, BeginType DEF PlansAreApproved, Approved, Shape
<1>3. CASE PlanInvalidation
  <2>1. PICK c \in engine.causes \cap Live :
          LET plan == [dirty |-> c, affected |-> WalkDependents(c)]
          IN engine' = [engine EXCEPT
               !.causes = @ \ {c}, !.plan = plan,
               !.phase = IF 1 + Len(plan.affected) <= AutoMax THEN "planned" ELSE "gating"]
    BY <1>3 DEF PlanInvalidation
  <2> DEFINE plan == [dirty |-> c, affected |-> WalkDependents(c)]
             phase == IF 1 + Len(plan.affected) <= AutoMax THEN "planned" ELSE "gating"
  <2>2. phase \in {"planned", "moves"} => 1 + Len(plan.affected) <= AutoMax
    OBVIOUS
  <2>3. engine' = [engine EXCEPT !.causes = @ \ {c}, !.plan = plan, !.phase = phase]
    BY <2>1
  <2>4. engine \in Handlers
    BY <1>3 DEF PlanInvalidation, Handles, EngineShape
  <2> HIDE DEF plan, phase
  <2>5. engine'.plan = plan /\ engine'.phase = phase
    BY <2>3, <2>4 DEF Handlers
  <2> QED BY <2>2, <2>5 DEF PlansAreApproved
<1>4. CASE \/ (\E q \in Holds : RequestPlan(q)) \/ ParkPlan \/ Executed
  <2>1. engine \in Handlers
    BY <1>4 DEF RequestPlan, ParkPlan, Executed, Handles, EngineShape
  <2>2. engine'.phase \in {"parking", "causes"}
    BY <1>4, <2>1 DEF RequestPlan, ParkPlan, Executed, Handlers
  <2> QED BY <2>2 DEF PlansAreApproved
<1>5. CASE ReadStatuses \/ Move
  <2>1. engine \in Handlers /\ engine # Idle /\ engine.phase \in {"planned", "moves"}
    BY <1>5 DEF ReadStatuses, Move, Handles, EngineShape
  <2>2. /\ engine'.phase \in {"planned", "moves"}
        /\ engine'.plan = engine.plan /\ engine'.request = engine.request
    BY <1>5, <2>1 DEF ReadStatuses, Move, Handlers
  <2> QED BY <1>0, <2>1, <2>2 DEF PlansAreApproved
<1>6. CASE Finish \/ Persist \/ Throw \/ Crash
  BY <1>6 DEF Finish, Persist, Throw, Crash, PlansAreApproved
<1>7. CASE /\ ~Receive /\ ~PlanInvalidation /\ ~(\E q \in Holds : RequestPlan(q))
           /\ ~ParkPlan /\ ~Executed /\ ~ReadStatuses /\ ~Move
           /\ ~Finish /\ ~Persist /\ ~Throw /\ ~Crash
  <2>1. UNCHANGED engine
    BY <1>7
    DEF Next, Engine, Work, RequestReview, ResolveReview, ResolveHold, ProposeSkip,
        ParkSkip, NewDoc, vars
  <2> QED BY <1>1, <2>1
<1> QED BY <1>2, <1>3, <1>4, <1>5, <1>6, <1>7

LEMMA ApprovedInvariant == Spec => [](Shape /\ Answered /\ PlansAreApproved)
<1>1. Init => Answered /\ PlansAreApproved
  BY DEF Init, Answered, PlansAreApproved
<1>2. Shape /\ Answered /\ PlansAreApproved /\ [Next]_vars => (Answered /\ PlansAreApproved)'
  BY AnsweredStep, ApprovedStep DEF Shape
<1> QED BY <1>1, <1>2, ShapeInvariant, PTL DEF Spec

(* A cascade wider than autoExecuteMaxWidth moves no node unless the       *)
(* request it was parked behind was approved: whatever is resolved, parked,*)
(* redelivered or begun again meanwhile.                                   *)
THEOREM WideCascadesNeedApproval == Spec => []WideCascadesAreApproved
<1>1. Shape /\ PlansAreApproved => WideCascadesAreApproved
  <2> SUFFICES ASSUME Shape, PlansAreApproved, Handles("moves"), engine.plan # NoPlan,
                      1 + Len(engine.plan.affected) > AutoMax
               PROVE  Approved(engine.request)
    BY DEF WideCascadesAreApproved, Approved
  <2>1. engine \in Handlers /\ engine # Idle /\ engine.phase = "moves"
    BY DEF Shape, EngineShape, Handles
  <2>2. engine.plan \in Plan
    BY <2>1 DEF Handlers
  <2>3. Len(engine.plan.affected) \in Nat
    BY <2>2 DEF Plan
  <2> QED BY <2>1, <2>3, EngineAssumption DEF PlansAreApproved
<1> QED BY <1>1, ApprovedInvariant, PTL

-----------------------------------------------------------------------------
(* Revocation.                                                             *)
LEMMA RevokedStep ==
  ASSUME Shape, LeasesAreRevoked, [Next]_vars
  PROVE  LeasesAreRevoked'
<1>1. QueueShape' /\ LeasesRide' /\ Calm
  BY QueueStep DEF Shape
<1>2. ASSUME engine' # Idle, engine'.phase = "moves", engine # Idle, engine.phase = "moves",
             engine'.plan = engine.plan, engine'.base = engine.base, engine \in Handlers,
             \A t \in issued : Revoked(engine.ops, t.item) /\ Queue!Usable(t)'
                               => Revoked(engine'.ops, t.item)
      PROVE  LeasesAreRevoked'
  <2> SUFFICES ASSUME engine.plan # NoPlan PROVE LeasesAreRevoked'
    BY <1>2 DEF LeasesAreRevoked, NoPlan
  <2>1. /\ attempt \in [Items -> Nat] /\ attempt' \in [Items -> Nat]
        /\ engine.base \in [Items -> Nat]
        /\ \A t \in issued' : t.item \in Items /\ t.run \in Nat
    BY <1>1, <1>2, RunAssumption DEF Shape, QueueShape, Handlers
  <2>2. \A i \in Items : engine.base[i] <= attempt[i] /\ attempt[i] <= attempt'[i]
    BY <1>1, <1>2 DEF LeasesAreRevoked, Calm
  <2>3. \A t \in issued' : t.run <= engine.base[t.item] => t \in issued
    BY <1>1, <2>1, <2>2 DEF Calm
  <2>4. \A t \in issued : Queue!Usable(t)' => Queue!Usable(t)
    BY <1>1 DEF Calm
  <2>5. \A i \in Items : engine.base[i] <= attempt'[i]
    BY <2>1, <2>2
  <2> QED BY <1>2, <2>3, <2>4, <2>5 DEF LeasesAreRevoked
<1>3. CASE ReadStatuses
  <2>1. /\ engine \in Handlers /\ engine # Idle /\ engine.plan \in Plan
        /\ UNCHANGED queue
    BY <1>3 DEF ReadStatuses, Handles, Shape, EngineShape
  <2>2. /\ engine'.ops = Cascade(engine.plan) /\ engine'.base = attempt
        /\ engine'.plan = engine.plan
    BY <1>3, <2>1 DEF ReadStatuses, Handlers
  <2>3. \A i \in Items : OnPlan(engine.plan, i) /\ status[i] \in Running
                           => Revoked(engine'.ops, i)
    BY <2>1, <2>2, CascadeType DEF Shape
  <2>4. \A t \in issued : t.item \in Items /\ (Queue!Usable(t) => status[t.item] \in Running)
    BY DEF Shape, QueueShape, LeasesRide, Queue!LeaseRidesExecution, Queue!Usable, Running
  <2>5. \A i \in Items : attempt[i] \in Nat /\ attempt[i] <= attempt[i]
    BY RunAssumption DEF Shape, QueueShape
  <2>6. /\ issued' = issued /\ attempt' = attempt
        /\ \A t \in issued : Queue!Usable(t)' <=> Queue!Usable(t)
    BY <2>1 DEF queue, Queue!Usable
  <2> QED BY <2>2, <2>3, <2>4, <2>5, <2>6 DEF LeasesAreRevoked
<1>4. CASE Move
  <2> DEFINE op == Head(engine.ops)
  <2>1. /\ engine \in Handlers /\ engine # Idle /\ engine.phase = "moves"
        /\ engine.ops \in Seq(Op) /\ engine.ops # <<>>
    BY <1>4 DEF Move, Handles, Shape, EngineShape, Handlers
  <2>2. /\ engine' = [engine EXCEPT !.ops = Tail(@)] /\ Apply(op) /\ op \in Op
    BY <1>4, HeadType DEF Move, Shape
  <2>3. /\ engine'.ops = Tail(engine.ops) /\ engine'.phase = "moves"
        /\ engine'.plan = engine.plan /\ engine'.base = engine.base
        /\ engine' \in Handlers
    <3>1. Tail(engine.ops) \in Seq(Op)
      BY <2>1
    <3> QED BY <2>1, <2>2, <3>1 DEF Handlers
  <2>4. op.move = "revokeLease" => \A t \in issued : t.item = op.item => ~Queue!Usable(t)'
    BY <2>2, MoveCalm DEF Shape
  <2>5. ASSUME NEW t \in issued, Revoked(engine.ops, t.item), Queue!Usable(t)'
        PROVE  Revoked(Tail(engine.ops), t.item)
    <3>1. PICK k \in DOMAIN engine.ops :
            engine.ops[k] = [move |-> "revokeLease", item |-> t.item]
      BY <2>5 DEF Revoked
    <3>2. k # 1
      BY <2>1, <2>4, <2>5, <3>1
    <3>3. k - 1 \in DOMAIN Tail(engine.ops) /\ Tail(engine.ops)[k - 1] = engine.ops[k]
      BY <2>1, <3>1, <3>2
    <3> QED BY <3>1, <3>3 DEF Revoked
  <2>6. engine' # Idle \/ engine' = Idle
    OBVIOUS
  <2> HIDE DEF op
  <2> QED BY <1>2, <2>1, <2>3, <2>5, <2>6 DEF LeasesAreRevoked
<1>5. CASE \/ Receive \/ PlanInvalidation \/ (\E q \in Holds : RequestPlan(q))
           \/ ParkPlan \/ Executed
  <2>1. engine # Idle => engine \in Handlers
    BY DEF Shape, EngineShape
  <2>2. Receive => engine'.phase # "moves" \/ engine'.plan = NoPlan
    BY HeadEvent, BeginType DEF Receive, Shape
  <2>3. ~Receive => engine'.phase # "moves"
    BY <1>5, <2>1
    DEF PlanInvalidation, RequestPlan, ParkPlan, Executed, Handles, Handlers
  <2>4. NoPlan' = NoPlan
    BY DEF NoPlan
  <2> QED BY <2>2, <2>3, <2>4 DEF LeasesAreRevoked
<1>6. CASE Finish \/ Persist \/ Throw \/ Crash
  BY <1>6 DEF Finish, Persist, Throw, Crash, LeasesAreRevoked
<1>7. CASE /\ ~Receive /\ ~PlanInvalidation /\ ~(\E q \in Holds : RequestPlan(q))
           /\ ~ParkPlan /\ ~Executed /\ ~ReadStatuses /\ ~Move
           /\ ~Finish /\ ~Persist /\ ~Throw /\ ~Crash
  <2>1. UNCHANGED engine
    BY <1>7
    DEF Next, Engine, Work, RequestReview, ResolveReview, ResolveHold, ProposeSkip,
        ParkSkip, NewDoc, vars
  <2>2. CASE engine # Idle /\ engine.phase = "moves"
    <3>1. engine \in Handlers
      BY <2>2 DEF Shape, EngineShape
    <3> QED BY <1>2, <2>1, <2>2, <3>1
  <2>3. CASE engine = Idle \/ engine.phase # "moves"
    BY <2>1, <2>3 DEF LeasesAreRevoked
  <2> QED BY <2>2, <2>3
<1> QED BY <1>3, <1>4, <1>5, <1>6, <1>7

(* A cascade that ran to its end has killed every lease that was out on a  *)
(* node of its plan when it read the statuses: no claim, release or        *)
(* completion between its transactions saves one, for any graph.           *)
THEOREM CascadesKillLeases == Spec => []CascadeKillsOldLeases
<1>1. Init => LeasesAreRevoked
  BY DEF Init, LeasesAreRevoked
<1>2. Shape /\ LeasesAreRevoked /\ [Next]_vars => LeasesAreRevoked'
  BY RevokedStep
<1>3. LeasesAreRevoked => CascadeKillsOldLeases
  <2> SUFFICES ASSUME LeasesAreRevoked, CascadeDone, NEW t \in issued,
                      OnPlan(engine.plan, t.item), t.run <= engine.base[t.item]
               PROVE  ~Queue!Usable(t)
    BY DEF CascadeKillsOldLeases, OnPlan
  <2>1. Queue!Usable(t) => Revoked(engine.ops, t.item)
    BY DEF LeasesAreRevoked, CascadeDone, Handles
  <2>2. engine.ops = <<>>
    BY DEF CascadeDone
  <2> QED BY <2>1, <2>2 DEF Revoked
<1> QED BY <1>1, <1>2, <1>3, ShapeInvariant, PTL DEF Spec
-----------------------------------------------------------------------------
(* Answers to parked plans.                                                *)
AheadInv == AnswersAreAhead /\ AnswerInHand

LEMMA InboxKept ==
  ASSUME EngineShape, NEW e \in Event, inbox' = Append(inbox, e)
  PROVE  /\ \A k \in DOMAIN inbox : k \in DOMAIN inbox' /\ inbox'[k] = inbox[k]
         /\ Len(inbox) + 1 \in DOMAIN inbox' /\ inbox'[Len(inbox) + 1] = e
         /\ Len(inbox) + 1 > ahead
         /\ engine # Idle => 1..(ahead + 1) \subseteq DOMAIN inbox /\ ahead + 1 \in DOMAIN inbox
BY AppendType DEF EngineShape

(* A step of somebody else: a row is proposed or parked as a change, a     *)
(* request is made, answered and announced.                                *)
LEMMA OthersAhead ==
  ASSUME Shape, AheadInv, UNCHANGED <<engine, ahead>>,
         \A k \in DOMAIN inbox : k \in DOMAIN inbox' /\ inbox'[k] = inbox[k],
         \A q \in DOMAIN parked' :
           ~IsChange(q)' => q \in DOMAIN parked /\ ~IsChange(q),
         \A q \in Holds :
           \/ holds'[q] = holds[q]
           \/ holds[q] = "none" /\ holds'[q] = "pending"
           \/ holds[q] = "pending" /\ holds'[q] # "none"
              /\ \E k \in DOMAIN inbox' : k > ahead /\ HoldEvent(inbox'[k], q)
  PROVE  AheadInv'
<1>1. ahead \in Nat /\ ahead' = ahead
      /\ (engine # Idle => 1..(ahead + 1) \subseteq DOMAIN inbox /\ ahead + 1 \in DOMAIN inbox)
  BY DEF Shape, EngineShape
<1>2. DOMAIN parked \subseteq Holds
  BY DEF Shape, RequestShape
<1>3. AnswersAreAhead'
  <2> SUFFICES ASSUME NEW q \in DOMAIN parked', ~IsChange(q)', holds'[q] # "pending"
               PROVE  \E k \in DOMAIN inbox' : k > ahead /\ HoldEvent(inbox'[k], q)
    BY <1>1 DEF AnswersAreAhead, HoldEvent
  <2>1. q \in DOMAIN parked /\ ~IsChange(q) /\ q \in Holds
    BY <1>2
  <2>2. \/ holds[q] = "pending"
        \/ \E k \in DOMAIN inbox : k > ahead /\ HoldEvent(inbox[k], q)
    BY <2>1 DEF AheadInv, AnswersAreAhead
  <2> QED BY <2>1, <2>2
<1>4. AnswerInHand'
  <2> SUFFICES ASSUME engine # Idle PROVE AnswerInHand'
    BY DEF AnswerInHand
  <2>1. inbox'[ahead + 1] = inbox[ahead + 1] /\ \A k \in 1..(ahead + 1) : inbox'[k] = inbox[k]
    BY <1>1
  <2>2. engine.phase = "parking" => engine.request \in Holds
    BY DEF Shape, EngineShape
  <2>3. ASSUME NEW q \in DOMAIN parked', ~IsChange(q)', HoldEvent(inbox[ahead + 1], q)
        PROVE  engine.phase \in {"planned", "moves"} /\ engine.request = q
    BY <2>3 DEF AheadInv, AnswerInHand
  <2>4. ASSUME engine.phase = "parking"
        PROVE  /\ \A k \in 1..(ahead + 1) : ~HoldEvent(inbox[k], engine.request)
               /\ holds'[engine.request] # "none"
               /\ \/ holds'[engine.request] = "pending"
                  \/ \E k \in DOMAIN inbox' : HoldEvent(inbox'[k], engine.request)
    BY <2>2, <2>4 DEF AheadInv, AnswerInHand
  <2> QED BY <1>1, <2>1, <2>3, <2>4 DEF AnswerInHand, HoldEvent
<1> QED BY <1>3, <1>4 DEF AheadInv

LEMMA AheadStep ==
  ASSUME Shape, Answered, AheadInv, [Next]_vars
  PROVE  AheadInv'
<1>0. /\ inbox \in Seq(Event) /\ ahead \in 0..Len(inbox) /\ DOMAIN inbox = 1..Len(inbox)
      /\ DOMAIN parked \subseteq Holds /\ DOMAIN holds = Holds
      /\ engine # Idle => engine \in Handlers /\ ahead + 1 \in DOMAIN inbox
  BY DEF Shape, EngineShape, RequestShape
<1>1. CASE \/ \E i \in Items, a \in 1..MaxAttempt, v \in Verdicts : ResolveReview(i, a, v)
           \/ \E q \in Holds, v \in Verdicts : ResolveHold(q, v)
           \/ \E nodes \in SUBSET Items \ {{}} : NewDoc(nodes)
  <2>1. PICK e \in Event :
          /\ inbox' = Append(inbox, e)
          /\ e.type = "hold" => holds'[e.request] = e.verdict /\ holds[e.request] = "pending"
          /\ UNCHANGED <<ahead, engine, parked>>
    <3>1. inbox' # inbox /\ inbox' # SubSeq(inbox, ahead + 1, Len(inbox))
      <4>1. PICK e : inbox' = Append(inbox, e)
        BY <1>1 DEF ResolveReview, ResolveHold, NewDoc
      <4> DEFINE n == Len(inbox)
                 rest == SubSeq(inbox, ahead + 1, Len(inbox))
      <4>2. n \in Nat /\ ahead \in 0..n /\ Len(inbox') = n + 1
        BY <1>0, <4>1
      <4>3. Len(rest) = n - ahead
        <5>1. rest = SubSeq(inbox, ahead + 1, n)
          OBVIOUS
        <5> HIDE DEF n, rest
        <5> QED BY <1>0, <4>2, <5>1
      <4>4. Len(inbox) = n
        OBVIOUS
      <4> HIDE DEF n, rest
      <4>5. Len(rest) # Len(inbox') /\ Len(inbox) # Len(inbox')
        BY <4>2, <4>3, <4>4
      <4>6. rest # inbox' /\ inbox # inbox'
        BY <4>5
      <4> QED BY <4>6 DEF rest
    <3> QED BY <3>1, InboxChange DEF Shape
  <2>2. ASSUME NEW q \in Holds, holds'[q] # holds[q]
        PROVE  \/ holds[q] = "none" /\ holds'[q] = "pending"
               \/ holds[q] = "pending" /\ holds'[q] # "none"
                  /\ \E k \in DOMAIN inbox' : k > ahead /\ HoldEvent(inbox'[k], q)
    <3>1. PICK v \in Verdicts : ResolveHold(q, v)
      BY <1>1, <2>2 DEF ResolveReview, ResolveHold, NewDoc, requests, Shape, RequestShape
    <3>2. holds[q] = "pending" /\ holds'[q] = v /\ v # "none"
      BY <3>1, VerdictsAreFinal DEF ResolveHold, Shape, RequestShape
    <3>3. inbox' = Append(inbox, [type |-> "hold", request |-> q, verdict |-> v])
      BY <3>1 DEF ResolveHold
    <3>4. [type |-> "hold", request |-> q, verdict |-> v] \in Event
      BY DEF Event
    <3>5. HoldEvent([type |-> "hold", request |-> q, verdict |-> v], q)
      BY DEF HoldEvent
    <3> QED BY <3>2, <3>3, <3>4, <3>5, InboxKept DEF Shape
  <2>3. \A k \in DOMAIN inbox : k \in DOMAIN inbox' /\ inbox'[k] = inbox[k]
    BY <2>1, InboxKept DEF Shape
  <2>4. \A q : IsChange(q)' <=> IsChange(q)
    BY <2>1 DEF IsChange
  <2> QED BY <2>1, <2>2, <2>3, <2>4, OthersAhead
<1>2. ASSUME NEW q \in Holds, NEW i \in Items, ProposeSkip(q, i) PROVE AheadInv'
  <2>1. UNCHANGED <<engine, ahead, inbox, parked>> /\ \A r : IsChange(r)' <=> IsChange(r)
    BY <1>2 DEF ProposeSkip, progress, IsChange
  <2>2. \A r \in Holds : holds'[r] = holds[r] \/ (holds[r] = "none" /\ holds'[r] = "pending")
    BY <1>2 DEF ProposeSkip, Shape, RequestShape
  <2> QED BY <2>1, <2>2, OthersAhead
<1>3. ASSUME NEW q \in Holds, ParkSkip(q) PROVE AheadInv'
  <2>1. UNCHANGED <<engine, ahead, inbox, holds>>
    BY <1>3 DEF ParkSkip, progress
  <2>2. proposed[q] \in Change
    BY <1>3 DEF ParkSkip, Shape, RequestShape
  <2>3. \A r \in DOMAIN parked' :
          IF r = q THEN parked'[r] = proposed[q]
                   ELSE r \in DOMAIN parked /\ parked'[r] = parked[r]
    BY <1>3 DEF ParkSkip, Put
  <2>4. \A r \in DOMAIN parked' : ~IsChange(r)' => r \in DOMAIN parked /\ ~IsChange(r)
    BY <2>2, <2>3, PlanIsNoChange DEF IsChange
  <2> QED BY <2>1, <2>4, OthersAhead
<1>4. CASE Work \/ (\E i \in Items : RequestReview(i)) \/ UNCHANGED vars
  <2>1. UNCHANGED <<engine, ahead, inbox, parked, holds>>
    BY <1>4 DEF Work, RequestReview, progress, requests, vars
  <2>2. \A r : IsChange(r)' <=> IsChange(r)
    BY <2>1 DEF IsChange
  <2> QED BY <2>1, <2>2, OthersAhead
<1>5. CASE Receive
  <2> DEFINE e == inbox[ahead + 1]
  <2>1. /\ engine' = Begin(e) /\ e \in Event
        /\ parked' = IF HeldBy(e) /\ e.verdict # "approved"
                       THEN Restrict(parked, DOMAIN parked \ {e.request}) ELSE parked
        /\ UNCHANGED <<holds, inbox, ahead>>
    BY <1>5, HeadEvent DEF Receive, requests, progress, Shape
  <2>2. \A q \in DOMAIN parked' :
          /\ q \in DOMAIN parked /\ parked'[q] = parked[q]
          /\ (IsChange(q)' <=> IsChange(q))
          /\ HeldBy(e) /\ e.verdict # "approved" => q # e.request
    <3> HIDE DEF e
    <3> QED BY <2>1 DEF Restrict, IsChange
  <2>3. AnswersAreAhead'
    BY <2>1, <2>2 DEF AheadInv, AnswersAreAhead
  <2>4. engine'.phase # "parking"
    <3> HIDE DEF e
    <3> QED BY <2>1, BeginType DEF Shape
  <2>5. ASSUME NEW q \in DOMAIN parked', ~IsChange(q)', HoldEvent(e, q)
        PROVE  engine'.phase = "planned" /\ engine'.request = q
    <3> HIDE DEF e
    <3>1. HeldBy(e) /\ e.request = q /\ "skip" \notin DOMAIN parked[q]
      BY <2>2, <2>5 DEF HeldBy, HoldEvent, IsChange
    <3>2. e.verdict = "approved"
      BY <2>2, <3>1
    <3> QED BY <2>1, <3>1, <3>2, BeginType DEF Shape
  <2> QED BY <2>1, <2>3, <2>4, <2>5 DEF AheadInv, AnswerInHand
<1>6. CASE PlanInvalidation \/ ReadStatuses \/ Move
  <2>1. /\ engine # Idle /\ UNCHANGED <<parked, holds, inbox, ahead>>
        /\ \A q : IsChange(q)' <=> IsChange(q)
    BY <1>6 DEF PlanInvalidation, ReadStatuses, Move, Handles, requests, progress, IsChange
  <2>2. /\ engine'.phase # "parking"
        /\ engine.phase \in {"planned", "moves"} =>
             engine'.phase \in {"planned", "moves"} /\ engine'.request = engine.request
    BY <1>0, <1>6, <2>1 DEF PlanInvalidation, ReadStatuses, Move, Handles, Handlers
  <2>3. AnswersAreAhead'
    BY <2>1 DEF AheadInv, AnswersAreAhead
  <2>4. AnswerInHand'
    BY <2>1, <2>2 DEF AheadInv, AnswerInHand
  <2> QED BY <2>3, <2>4 DEF AheadInv
<1>7. ASSUME NEW q \in Holds, RequestPlan(q) PROVE AheadInv'
  <2>1. /\ engine # Idle /\ engine.phase = "gating" /\ UNCHANGED <<parked, inbox, ahead>>
        /\ \A r : IsChange(r)' <=> IsChange(r)
        /\ holds[q] = "none" /\ holds' = [holds EXCEPT ![q] = "pending"]
    BY <1>7 DEF RequestPlan, Handles, progress, IsChange
  <2>2. engine'.phase = "parking" /\ engine'.request = q
    BY <1>0, <1>7, <2>1 DEF RequestPlan, Handlers
  <2>3. \A r \in Holds : holds[r] = "pending" => holds'[r] = "pending"
    BY <1>0, <2>1
  <2>4. AnswersAreAhead'
    BY <1>0, <2>1, <2>3 DEF AheadInv, AnswersAreAhead
  <2>5. ASSUME NEW k \in DOMAIN inbox PROVE ~HoldEvent(inbox[k], q)
    <3>1. inbox[k] \in Event
      BY <1>0
    <3> QED BY <2>1, <3>1, VerdictsAreFinal DEF Answered, HoldEvent
  <2>6. 1..(ahead + 1) \subseteq DOMAIN inbox
    BY <1>0, <2>1
  <2>7. holds'[q] = "pending"
    BY <1>0, <2>1
  <2>8. AnswerInHand'
    BY <2>1, <2>2, <2>5, <2>6, <2>7 DEF AheadInv, AnswerInHand
  <2> QED BY <2>4, <2>8 DEF AheadInv
<1>8. CASE ParkPlan
  <2> DEFINE q == engine.request
  <2>1. /\ engine # Idle /\ engine.phase = "parking" /\ UNCHANGED <<holds, inbox, ahead>>
        /\ parked' = Put(parked, q, engine.plan)
    BY <1>8 DEF ParkPlan, Handles, progress, requests
  <2>2. engine'.phase = "causes"
    BY <1>0, <1>8, <2>1 DEF ParkPlan, Handlers
  <2>3. /\ \A k \in 1..(ahead + 1) : ~HoldEvent(inbox[k], q)
        /\ \/ holds[q] = "pending"
           \/ \E k \in DOMAIN inbox : HoldEvent(inbox[k], q)
    BY <2>1 DEF AheadInv, AnswerInHand
  <2>4. ~HoldEvent(inbox[ahead + 1], q)
        /\ (holds[q] = "pending" \/ \E k \in DOMAIN inbox : k > ahead /\ HoldEvent(inbox[k], q))
    BY <1>0, <2>1, <2>3
  <2> HIDE DEF q
  <2>5. \A r \in DOMAIN parked' : r # q => r \in DOMAIN parked /\ (IsChange(r)' <=> IsChange(r))
    BY <2>1 DEF Put, IsChange
  <2>6. AnswersAreAhead'
    BY <2>1, <2>4, <2>5 DEF AheadInv, AnswersAreAhead
  <2>7. AnswerInHand'
    BY <2>1, <2>2, <2>4, <2>5 DEF AheadInv, AnswerInHand
  <2> QED BY <2>6, <2>7 DEF AheadInv
<1>9. CASE Executed
  <2>1. /\ engine # Idle /\ engine.phase = "moves" /\ UNCHANGED <<holds, inbox, ahead>>
        /\ parked' = Restrict(parked, DOMAIN parked \ {engine.request})
    BY <1>9 DEF Executed, Handles, progress, requests
  <2>2. engine'.phase = "causes"
    BY <1>0, <1>9, <2>1 DEF Executed, Handlers
  <2>3. \A r \in DOMAIN parked' :
          r \in DOMAIN parked /\ r # engine.request /\ (IsChange(r)' <=> IsChange(r))
    BY <2>1 DEF Restrict, IsChange
  <2>4. AnswersAreAhead'
    BY <2>1, <2>3 DEF AheadInv, AnswersAreAhead
  <2>5. AnswerInHand'
    BY <2>1, <2>2, <2>3 DEF AheadInv, AnswerInHand
  <2> QED BY <2>4, <2>5 DEF AheadInv
<1>10. CASE Finish
  <2>1. /\ engine # Idle /\ engine.phase = "causes" /\ UNCHANGED <<holds, inbox, parked>>
        /\ ahead' = ahead + 1 /\ engine' = Idle /\ \A r : IsChange(r)' <=> IsChange(r)
    BY <1>10 DEF Finish, Handles, requests, IsChange
  <2>2. \A q \in DOMAIN parked : ~IsChange(q) => ~HoldEvent(inbox[ahead + 1], q)
    BY <2>1 DEF AheadInv, AnswerInHand
  <2>3. \A k \in DOMAIN inbox : k > ahead /\ k # ahead + 1 => k > ahead + 1
    BY <1>0
  <2>4. AnswersAreAhead'
    BY <2>1, <2>2, <2>3 DEF AheadInv, AnswersAreAhead
  <2> QED BY <2>1, <2>4 DEF AheadInv, AnswerInHand
<1>11. CASE Persist \/ Throw \/ Crash
  <2>1. /\ engine' = Idle /\ ahead' = 0 /\ UNCHANGED <<holds, parked>>
        /\ \A r : IsChange(r)' <=> IsChange(r)
    BY <1>11 DEF Persist, Throw, Crash, requests, IsChange
  <2>2. ASSUME NEW q, NEW k \in DOMAIN inbox, k > ahead, HoldEvent(inbox[k], q)
        PROVE  \E j \in DOMAIN inbox' : j > 0 /\ HoldEvent(inbox'[j], q)
    <3>1. CASE Crash
      BY <1>0, <2>2, <3>1 DEF Crash
    <3>2. CASE Persist \/ Throw
      <4>1. inbox' = SubSeq(inbox, ahead + 1, Len(inbox))
        BY <3>2 DEF Persist, Throw
      <4>2. k - ahead \in DOMAIN inbox' /\ inbox'[k - ahead] = inbox[k] /\ k - ahead > 0
        BY <1>0, <2>1, <2>2, <4>1, ReadEnds DEF Shape
      <4> QED BY <2>2, <4>2
    <3> QED BY <1>11, <3>1, <3>2
  <2>3. AnswersAreAhead'
    BY <2>1, <2>2 DEF AheadInv, AnswersAreAhead
  <2> QED BY <2>1, <2>3 DEF AheadInv, AnswerInHand
<1> QED
  BY <1>1, <1>2, <1>3, <1>4, <1>5, <1>6, <1>7, <1>8, <1>9, <1>10, <1>11 DEF Next, Engine

(* No cascade plan is left behind: when the engine has nothing left to do, *)
(* every plan still parked waits for a request nobody has answered, however *)
(* often the handler was cut short between the request and the parked row, *)
(* or between the last move and the row's deletion.                        *)
THEOREM NoPlanIsLeftBehind == Spec => []ParkedPlansAwaitAnswers
<1>1. Init => AheadInv
  BY DEF Init, AheadInv, AnswersAreAhead, AnswerInHand
<1>2. Shape /\ Answered /\ AheadInv /\ [Next]_vars => AheadInv'
  BY AheadStep
<1>3. AheadInv => ParkedPlansAwaitAnswers
  BY DEF AheadInv, AnswersAreAhead, ParkedPlansAwaitAnswers, Settled
<1> QED BY <1>1, <1>2, <1>3, ApprovedInvariant, PTL DEF Spec

(* The engine works the queue only by the operations of its service: every *)
(* step of a run is one of the queue's or leaves it alone, and what is     *)
(* proved of the queue's steps holds of every cascade.                     *)
THEOREM CascadesUseTheQueue == Spec => [][Queue!Next]_(Queue!vars)
<1>1. Shape /\ [Next]_vars => [Queue!Next]_(Queue!vars)
  <2> SUFFICES ASSUME Shape, [Next]_vars PROVE Queue!Next \/ UNCHANGED queue
    BY DEF queue, Queue!vars
  <2>1. CASE Work
    <3>1. Outcomes \subseteq DOMAIN Queue!OutcomeToStatus
      BY RunAssumption
    <3> QED BY <2>1, <3>1 DEF Work, Queue!Next, Queue!WorkerNext
  <2>2. CASE Move
    <3>1. PICK op \in Op : Apply(op)
      BY <2>2, HeadType DEF Move, Shape
    <3>2. op.item \in Items /\ op.move \in Names
      BY DEF Op
    <3> QED
      BY <3>1, <3>2 DEF Apply, Names, Still, Queue!Next, Queue!WorkerNext, Queue!InvalidatorNext
  <2>3. CASE ~Work /\ ~Move
    BY <2>3
    DEF Next, Engine, RequestReview, ResolveReview, ResolveHold, ProposeSkip, ParkSkip,
        NewDoc, Receive, PlanInvalidation, RequestPlan, ParkPlan, ReadStatuses, Executed,
        Finish, Persist, Throw, Crash, vars
  <2> QED BY <2>1, <2>2, <2>3
<1> QED BY <1>1, ShapeInvariant, PTL DEF Spec

-----------------------------------------------------------------------------
(* The rows of the gate: a review of an attempt, and what is parked.       *)
Shown(s) == IF s = "none" THEN "absent" ELSE s

Review(r, i, a) == i \in Items /\ a \in 1..MaxAttempt /\ r = <<i, a>>

Parked(r, q) == q \in Holds /\ r = <<q, 0>>

LEMMA RowKinds ==
  ASSUME NEW r \in Requests
  PROVE  (\E i, a : Review(r, i, a)) \/ (\E q : Parked(r, q))
BY DEF Requests, Review, Parked

LEMMA ReviewRow ==
  ASSUME NEW r, NEW i, NEW a, Review(r, i, a)
  PROVE  /\ r \in Requests /\ r[1] = i /\ r[2] = a /\ a # 0 /\ About[r] = i
         /\ RequestState[r] = Shown(gate[i][a])
         /\ RequestState'[r] = Shown(gate'[i][a])
<1>1. r \in Requests /\ r[1] = i /\ r[2] = a /\ a # 0
  BY RunAssumption DEF Requests, Review
<1> QED BY <1>1 DEF About, RequestState, Shown

LEMMA ParkedRow ==
  ASSUME NEW r, NEW q, Parked(r, q)
  PROVE  /\ r \in Requests /\ r[1] = q /\ r[2] = 0 /\ About[r] = Idle
         /\ RequestState[r] = Shown(holds[q])
         /\ RequestState'[r] = Shown(holds'[q])
<1>1. r \in Requests /\ r[1] = q /\ r[2] = 0
  BY DEF Requests, Parked
<1> QED BY <1>1 DEF About, RequestState, Shown

(* A step that changes no request, and one that changes one row.           *)
LEMMA RowsStay ==
  ASSUME UNCHANGED <<gate, holds>>
  PROVE  RequestState' = RequestState
BY DEF RequestState

LEMMA StatesAreRows == /\ RequestState = [r \in Requests |-> RequestState[r]]
                       /\ RequestState' = [r \in Requests |-> RequestState'[r]]
BY DEF RequestState

LEMMA OneReview ==
  ASSUME RequestShape, NEW i \in Items, NEW a \in 1..MaxAttempt, NEW s,
         gate' = [gate EXCEPT ![i][a] = s], UNCHANGED holds
  PROVE  RequestState' = [RequestState EXCEPT ![<<i, a>>] = Shown(s)]
<1> DEFINE new == [RequestState EXCEPT ![<<i, a>>] = Shown(s)]
<1>1. Review(<<i, a>>, i, a)
  BY DEF Review
<1>2. ASSUME NEW r \in Requests PROVE RequestState'[r] = new[r]
  <2>1. new[r] = IF r = <<i, a>> THEN Shown(s) ELSE RequestState[r]
    BY DEF RequestState
  <2>2. CASE \E j, b : Review(r, j, b)
    <3>1. PICK j, b : Review(r, j, b)
      BY <2>2
    <3>2. gate'[j][b] = IF j = i /\ b = a THEN s ELSE gate[j][b]
      BY <3>1 DEF RequestShape, Review
    <3>3. r = <<i, a>> <=> j = i /\ b = a
      BY <3>1 DEF Review
    <3> QED BY <2>1, <3>1, <3>2, <3>3, ReviewRow
  <2>3. CASE \E q : Parked(r, q)
    <3>1. PICK q : Parked(r, q)
      BY <2>3
    <3>2. r # <<i, a>>
      BY <3>1, <1>1, ReviewRow, ParkedRow
    <3> QED BY <2>1, <3>1, <3>2, ParkedRow
  <2> QED BY <2>2, <2>3, RowKinds
<1>3. new = [r \in Requests |-> new[r]]
  BY DEF RequestState
<1> QED BY <1>2, <1>3, StatesAreRows

LEMMA OneHold ==
  ASSUME RequestShape, NEW q \in Holds, NEW s,
         holds' = [holds EXCEPT ![q] = s], UNCHANGED gate
  PROVE  RequestState' = [RequestState EXCEPT ![<<q, 0>>] = Shown(s)]
<1> DEFINE new == [RequestState EXCEPT ![<<q, 0>>] = Shown(s)]
<1>1. Parked(<<q, 0>>, q)
  BY DEF Parked
<1>2. ASSUME NEW r \in Requests PROVE RequestState'[r] = new[r]
  <2>1. new[r] = IF r = <<q, 0>> THEN Shown(s) ELSE RequestState[r]
    BY DEF RequestState
  <2>2. CASE \E i, a : Review(r, i, a)
    <3>1. PICK i, a : Review(r, i, a)
      BY <2>2
    <3>2. r # <<q, 0>>
      BY <3>1, <1>1, ReviewRow, ParkedRow
    <3> QED BY <2>1, <3>1, <3>2, ReviewRow
  <2>3. CASE \E p : Parked(r, p)
    <3>1. PICK p : Parked(r, p)
      BY <2>3
    <3>2. holds'[p] = IF p = q THEN s ELSE holds[p]
      BY <3>1 DEF RequestShape, Parked
    <3>3. r = <<q, 0>> <=> p = q
      BY <3>1 DEF Parked
    <3> QED BY <2>1, <3>1, <3>2, <3>3, ParkedRow
  <2> QED BY <2>2, <2>3, RowKinds
<1>3. new = [r \in Requests |-> new[r]]
  BY DEF RequestState
<1> QED BY <1>2, <1>3, StatesAreRows

(* A request is made, resolved, or superseded with its work item.          *)
LEMMA RequestMade ==
  ASSUME NEW r \in Requests, RequestState[r] = "absent",
         RequestState' = [RequestState EXCEPT ![r] = "pending"]
  PROVE  Gate!Next
<1>1. Gate!NextFollowUpAt(r, 0) = NoWake
  BY DEF Gate!NextFollowUpAt
<1>2. Gate!Request(r, NoWake)
  BY <1>1 DEF Gate!Request
<1> QED BY <1>2 DEF Gate!Next

LEMMA RequestResolved ==
  ASSUME NEW r \in Requests, RequestState[r] = "pending", NEW v \in Verdicts,
         RequestState' = [RequestState EXCEPT ![r] = v]
  PROVE  Gate!Next
<1>1. v \in Gate!Verdicts /\ v \in Gate!RequestTransitions("pending")
  BY DEF Verdicts, Gate!Verdicts, Gate!RequestTransitions, Gate!RequestStates
<1>2. Gate!Resolve(r, v)
  BY <1>1 DEF Gate!Resolve
<1> QED BY <1>1, <1>2 DEF Gate!Next

LEMMA RequestsSuperseded ==
  ASSUME RequestShape, NEW i \in Items, UNCHANGED holds,
         gate' = [gate EXCEPT ![i] = [a \in 1..MaxAttempt |->
                    IF @[a] \in Supersedable THEN "superseded" ELSE @[a]]]
  PROVE  Gate!Next \/ UNCHANGED RequestState
<1> DEFINE hit == {r \in Requests : About[r] = i /\ RequestState[r] \in Gate!Supersedable}
           new == [r \in Requests |-> IF r \in hit THEN "superseded" ELSE RequestState[r]]
<1>1. ASSUME NEW r \in Requests PROVE RequestState'[r] = new[r]
  <2>1. CASE \E j, b : Review(r, j, b)
    <3>1. PICK j, b : Review(r, j, b)
      BY <2>1
    <3>2. /\ About[r] = j /\ RequestState[r] = Shown(gate[j][b])
          /\ RequestState'[r] = Shown(gate'[j][b])
      BY <3>1, ReviewRow
    <3>3. gate'[j][b] = IF j = i /\ gate[j][b] \in Supersedable
                          THEN "superseded" ELSE gate[j][b]
      BY <3>1 DEF RequestShape, Review
    <3> QED BY <3>2, <3>3 DEF Shown, Supersedable, Gate!Supersedable
  <2>2. CASE \E q : Parked(r, q)
    <3>1. PICK q : Parked(r, q)
      BY <2>2
    <3>2. About[r] = Idle /\ RequestState'[r] = RequestState[r]
      BY <3>1, ParkedRow
    <3> QED BY <3>2, IdleAssumption
  <2> QED BY <2>1, <2>2, RowKinds
<1>2. RequestState' = new
  BY <1>1, StatesAreRows
<1>3. CASE hit = {}
  BY <1>2, <1>3, StatesAreRows
<1>4. CASE hit # {}
  <2>1. Gate!SupersedeForSubject(i)
    BY <1>2, <1>4 DEF Gate!SupersedeForSubject
  <2> QED BY <2>1 DEF Gate!Next
<1> QED BY <1>3, <1>4

LEMMA GateStep ==
  ASSUME Shape, [Next]_vars
  PROVE  Gate!Next \/ UNCHANGED RequestState
<1> USE DEF Shape
<1>1. ASSUME NEW i \in Items, RequestReview(i)
      PROVE  Gate!Next \/ UNCHANGED RequestState
  <2> DEFINE a == attempt[i]
  <2>1. gate' = [gate EXCEPT ![i][a] = "pending"] /\ UNCHANGED holds
    BY <1>1 DEF RequestReview
  <2>2. CASE a \in 1..MaxAttempt
    <3>1. Review(<<i, a>>, i, a)
      BY <2>2 DEF Review
    <3>2. gate[i][a] = "none"
      BY <1>1 DEF RequestReview
    <3>3. RequestState' = [RequestState EXCEPT ![<<i, a>>] = Shown("pending")]
      BY <2>1, <2>2, OneReview
    <3> QED BY <3>1, <3>2, <3>3, ReviewRow, RequestMade DEF Shown
  <2>3. CASE a \notin 1..MaxAttempt
    <3>1. gate' = gate
      BY <2>1, <2>3 DEF RequestShape
    <3> QED BY <2>1, <3>1, RowsStay
  <2> QED BY <2>2, <2>3
<1>2. ASSUME NEW i \in Items, NEW a \in 1..MaxAttempt, NEW v \in Verdicts,
             ResolveReview(i, a, v)
      PROVE  Gate!Next
  <2>1. gate[i][a] = "pending" /\ gate' = [gate EXCEPT ![i][a] = v] /\ UNCHANGED holds
    BY <1>2 DEF ResolveReview
  <2>2. Review(<<i, a>>, i, a)
    BY DEF Review
  <2>3. RequestState' = [RequestState EXCEPT ![<<i, a>>] = v]
    BY <2>1, OneReview DEF Shown, Verdicts
  <2>4. <<i, a>> \in Requests /\ RequestState[<<i, a>>] = "pending"
    BY <2>1, <2>2, ReviewRow DEF Shown
  <2> QED BY <2>3, <2>4, RequestResolved
<1>3. ASSUME NEW q \in Holds, NEW v \in Verdicts, ResolveHold(q, v)
      PROVE  Gate!Next
  <2>1. holds[q] = "pending" /\ holds' = [holds EXCEPT ![q] = v] /\ UNCHANGED gate
    BY <1>3 DEF ResolveHold
  <2>2. Parked(<<q, 0>>, q)
    BY DEF Parked
  <2>3. RequestState' = [RequestState EXCEPT ![<<q, 0>>] = v]
    BY <2>1, OneHold DEF Shown, Verdicts
  <2>4. <<q, 0>> \in Requests /\ RequestState[<<q, 0>>] = "pending"
    BY <2>1, <2>2, ParkedRow DEF Shown
  <2> QED BY <2>3, <2>4, RequestResolved
<1>4. ASSUME NEW q \in Holds, (\E i \in Items : ProposeSkip(q, i)) \/ RequestPlan(q)
      PROVE  Gate!Next
  <2>1. holds[q] = "none" /\ holds' = [holds EXCEPT ![q] = "pending"] /\ UNCHANGED gate
    BY <1>4 DEF ProposeSkip, RequestPlan
  <2>2. Parked(<<q, 0>>, q)
    BY DEF Parked
  <2>3. RequestState' = [RequestState EXCEPT ![<<q, 0>>] = "pending"]
    BY <2>1, OneHold DEF Shown
  <2> QED BY <2>1, <2>2, <2>3, ParkedRow, RequestMade DEF Shown
<1>5. CASE Move
  <2>1. PICK op \in Op : gate' = IF op.move = "supersede"
                     THEN [gate EXCEPT ![op.item] =
                             [a \in 1..MaxAttempt |->
                                IF @[a] \in Supersedable THEN "superseded" ELSE @[a]]]
                     ELSE gate
    BY <1>5, HeadType DEF Move
  <2>2. op.item \in Items /\ UNCHANGED holds
    BY <1>5 DEF Move, Op
  <2> QED BY <2>1, <2>2, RequestsSuperseded, RowsStay
<1>6. CASE UNCHANGED <<gate, holds>>
  BY <1>6, RowsStay
<1> QED
  BY <1>1, <1>2, <1>3, <1>4, <1>5, <1>6
  DEF Next, Engine, Work, ParkSkip, NewDoc, Receive, PlanInvalidation, ParkPlan,
      ReadStatuses, Executed, Finish, Persist, Throw, Crash, vars, requests

(* The engine uses the gate as it is meant to be used: what it does to the *)
(* requests of its reviews and of its parked actions, a superseded work    *)
(* item's included, is what the gate's own operations do, for any number   *)
(* of attempts, requests and crashes.                                      *)
THEOREM EngineUsesTheGate == Spec => UsesTheGate
<1>1. Init => Gate!Init
  <2> SUFFICES ASSUME Init PROVE Gate!Init
    OBVIOUS
  <2>1. ASSUME NEW r \in Requests PROVE RequestState[r] = "absent"
    <3>1. CASE \E i, a : Review(r, i, a)
      BY <3>1, ReviewRow DEF Review, Shown, Init
    <3>2. CASE \E q : Parked(r, q)
      BY <3>2, ParkedRow DEF Parked, Shown, Init
    <3> QED BY <3>1, <3>2, RowKinds
  <2>2. RequestState = [r \in Requests |-> "absent"]
    BY <2>1, StatesAreRows
  <2>3. About \in [Requests -> Items \cup {Idle}]
    <3>1. ASSUME NEW r \in Requests PROVE About[r] \in Items \cup {Idle}
      BY RowKinds, ReviewRow, ParkedRow DEF Review
    <3> QED BY <3>1 DEF About
  <2> QED BY <2>2, <2>3 DEF Gate!Init
<1>2. Shape /\ [Next]_vars => [Gate!Next]_(Gate!vars)
  BY GateStep DEF Gate!vars, Gate!row
<1> QED BY <1>1, <1>2, ShapeInvariant, PTL DEF Spec, UsesTheGate, Gate!Spec

-----------------------------------------------------------------------------
(* Runs whose engine is at rest are sound, on forests: no node has two     *)
(* upstreams, and only leaves are skipped.  What is above a node is then a *)
(* line, and a node ahead of its inputs hangs on one node only.            *)

(* Forests: no node has two upstreams, and none is upstream of itself. *)
OneUpstream == \A i \in Items : \A u, w \in DependsOn[i] : u = w

Ranks(rank) == rank \in [Items -> Nat]
               /\ \A i \in Items : \A u \in DependsOn[i] : rank[u] < rank[i]

Forest == OneUpstream /\ \E rank : Ranks(rank)

OnlyLeavesSkipped == \A i \in Items : DependsOn[i] \cap Skippable = {}

(* The transitive upstreams of a node: what every set holds that is closed *)
(* under depends_on and holds the node's own upstreams.                    *)
ClosedUp(S) == \A s \in S : DependsOn[s] \subseteq S

Above(n) ==
  {a \in Items : \A S \in SUBSET Items :
     DependsOn[n] \subseteq S /\ ClosedUp(S) => a \in S}

Between(a, n) == {t \in Above(n) : a \in Above(t)}

LEMMA EdgeType == \A i \in Items : DependsOn[i] \subseteq Items
BY RunAssumption

LEMMA AboveHolds ==
  ASSUME NEW n \in Items
  PROVE  Above(n) \subseteq Items /\ DependsOn[n] \subseteq Above(n) /\ ClosedUp(Above(n))
BY EdgeType DEF Above, ClosedUp

LEMMA AboveLeast ==
  ASSUME NEW n \in Items, NEW S \in SUBSET Items, DependsOn[n] \subseteq S, ClosedUp(S)
  PROVE  Above(n) \subseteq S
BY DEF Above

LEMMA AboveTransitive ==
  ASSUME NEW n \in Items, NEW b \in Above(n)
  PROVE  Above(b) \subseteq Above(n)
<1>1. /\ b \in Items /\ Above(n) \in SUBSET Items
      /\ DependsOn[b] \subseteq Above(n) /\ ClosedUp(Above(n))
  BY AboveHolds DEF ClosedUp
<1> QED BY <1>1, AboveLeast

LEMMA AboveRank ==
  ASSUME NEW rank, Ranks(rank), NEW n \in Items, NEW a \in Above(n)
  PROVE  rank[a] < rank[n]
<1> DEFINE S == {x \in Items : rank[x] < rank[n]}
<1>1. DependsOn[n] \subseteq S
  BY EdgeType DEF Ranks
<1>2. ClosedUp(S)
  <2> SUFFICES ASSUME NEW s \in S, NEW u \in DependsOn[s] PROVE u \in S
    BY DEF ClosedUp
  <2>1. u \in Items /\ rank[u] < rank[s] /\ rank[s] < rank[n]
    BY EdgeType DEF Ranks
  <2>2. rank[u] \in Nat /\ rank[s] \in Nat /\ rank[n] \in Nat
    BY <2>1 DEF Ranks
  <2> QED BY <2>1, <2>2
<1>3. Above(n) \subseteq S
  BY <1>1, <1>2, AboveLeast
<1> QED BY <1>3

LEMMA AboveAcyclic ==
  ASSUME Forest, NEW n \in Items, NEW a \in Above(n)
  PROVE  a \in Items /\ a # n /\ n \notin Above(a)
<1>1. PICK rank : Ranks(rank)
  BY DEF Forest
<1>2. a \in Items
  BY AboveHolds
<1>3. rank[a] \in Nat /\ rank[n] \in Nat /\ rank[a] < rank[n]
  BY <1>1, <1>2, AboveRank DEF Ranks
<1>4. n \notin Above(a)
  <2> SUFFICES ASSUME n \in Above(a) PROVE FALSE
    OBVIOUS
  <2>1. rank[n] < rank[a]
    BY <1>1, <1>2, AboveRank
  <2> QED BY <1>3, <2>1
<1> QED BY <1>2, <1>3, <1>4

(* In a forest what is above a node is its upstream and what is above that.*)
LEMMA AboveUpstream ==
  ASSUME Forest, NEW n \in Items, NEW u \in DependsOn[n]
  PROVE  Above(n) = {u} \cup Above(u)
<1>1. u \in Items /\ u \in Above(n)
  BY EdgeType, AboveHolds
<1>2. {u} \cup Above(u) \subseteq Above(n)
  BY <1>1, AboveTransitive
<1>3. DependsOn[n] \subseteq {u} \cup Above(u)
  BY DEF Forest, OneUpstream
<1>4. ClosedUp({u} \cup Above(u)) /\ {u} \cup Above(u) \in SUBSET Items
  BY <1>1, AboveHolds DEF ClosedUp
<1>5. Above(n) \subseteq {u} \cup Above(u)
  BY <1>3, <1>4, AboveLeast
<1> QED BY <1>2, <1>5

LEMMA AboveRoot ==
  ASSUME NEW n \in Items, DependsOn[n] = {}
  PROVE  Above(n) = {}
BY AboveLeast DEF ClosedUp

LEMMA AboveHasUpstream ==
  ASSUME NEW n \in Items, NEW a \in Above(n)
  PROVE  \E u \in DependsOn[n] : TRUE
BY AboveRoot

(* What is above a node is a line.                                         *)
LEMMA AboveIsLine ==
  ASSUME Forest, NEW n \in Items, NEW a \in Above(n), NEW b \in Above(n)
  PROVE  a = b \/ a \in Above(b) \/ b \in Above(a)
<1> DEFINE S == {x \in Items : x = a \/ x \in Above(a) \/ a \in Above(x)}
<1>0. a \in Items
  BY AboveHolds
<1>1. ASSUME NEW x \in Items, a \in Above(x), NEW u \in DependsOn[x] PROVE u \in S
  <2>1. Above(x) = {u} \cup Above(u) /\ u \in Items
    BY AboveUpstream, EdgeType
  <2> QED BY <1>1, <2>1
<1>2. DependsOn[n] \subseteq S
  BY <1>1
<1>3. ClosedUp(S)
  <2> SUFFICES ASSUME NEW s \in S, NEW u \in DependsOn[s] PROVE u \in S
    BY DEF ClosedUp
  <2>1. u \in Items
    BY EdgeType
  <2>2. CASE s = a \/ s \in Above(a)
    <3>1. u \in Above(a)
      BY <1>0, <2>2, AboveHolds DEF ClosedUp
    <3> QED BY <2>1, <3>1
  <2>3. CASE a \in Above(s)
    BY <1>1, <2>3
  <2> QED BY <2>2, <2>3
<1>4. Above(n) \subseteq S
  BY <1>2, <1>3, AboveLeast
<1> QED BY <1>4

LEMMA BetweenUpstream ==
  ASSUME Forest, NEW n \in Items, NEW u \in DependsOn[n], NEW a \in Above(n)
  PROVE  \/ a = u /\ Between(a, n) = {}
         \/ a \in Above(u) /\ Between(a, n) = Between(a, u) \cup {u}
<1>1. Above(n) = {u} \cup Above(u) /\ u \in Items /\ a \in Items
  BY AboveUpstream, EdgeType, AboveHolds
<1>2. CASE a = u
  <2>1. \A t \in Above(n) : a \notin Above(t)
    BY <1>1, <1>2, AboveAcyclic
  <2> QED BY <1>2, <2>1 DEF Between
<1>3. CASE a # u
  <2>1. a \in Above(u)
    BY <1>1, <1>3
  <2>2. Between(a, n) = Between(a, u) \cup {u}
    BY <1>1, <2>1 DEF Between
  <2> QED BY <2>1, <2>2
<1> QED BY <1>2, <1>3

LEMMA BetweenJoined ==
  ASSUME Forest, NEW n \in Items, NEW b \in Above(n), NEW a \in Above(b)
  PROVE  /\ a \in Above(n)
         /\ Between(a, n) = Between(a, b) \cup {b} \cup Between(b, n)
<1>1. a \in Above(n) /\ b \in Items /\ a \in Items
  BY AboveTransitive, AboveHolds
<1>2. ASSUME NEW t \in Between(a, n) PROVE t \in Between(a, b) \cup {b} \cup Between(b, n)
  <2>1. t \in Above(n) /\ a \in Above(t)
    BY <1>2 DEF Between
  <2> QED BY <2>1, AboveIsLine DEF Between
<1>3. Between(a, b) \subseteq Between(a, n) /\ b \in Between(a, n)
  BY AboveTransitive DEF Between
<1>4. ASSUME NEW t \in Between(b, n) PROVE t \in Between(a, n)
  <2>1. t \in Above(n) /\ b \in Above(t) /\ t \in Items
    BY <1>4, AboveHolds DEF Between
  <2>2. a \in Above(t)
    BY <2>1, AboveTransitive
  <2> QED BY <2>1, <2>2 DEF Between
<1> QED BY <1>1, <1>2, <1>3, <1>4

LEMMA BetweenType ==
  ASSUME NEW n \in Items, NEW a
  PROVE  Between(a, n) \subseteq Items /\ Between(a, n) \subseteq Above(n)
BY AboveHolds DEF Between

-----------------------------------------------------------------------------
(* A run's nodes, by their statuses s and the moves ops a cascade has left *)
(* to make.  A node is exposed when it may run or has run, or when a move  *)
(* still to come makes it claimable again.                                 *)
Off == {"pending", "stale"}

Working == {"ready", "claimed", "running", "awaiting_approval", "done"}

Left(ops, i, name) == \E k \in DOMAIN ops : ops[k] = [move |-> name, item |-> i]

Exposed(s, ops, n) == s[n] \in Working \/ Left(ops, n, "revokeLease")

(* Node n hangs on node a: all that is between them is off.  It is         *)
(* anchored when it hangs on a node that is done.                          *)
Hangs(s, a, n) == a \in Above(n) /\ \A t \in Between(a, n) : s[t] \in Off

Anchored(s, n) == \E r \in Above(n) : s[r] = "done" /\ Hangs(s, r, n)

(* An exposed node is anchored, or has nothing above it.                   *)
ExposedAreAnchored(s, ops) ==
  \A n \in Items : Exposed(s, ops, n) /\ DependsOn[n] # {} => Anchored(s, n)

(* A node exposed on inputs that are not done hangs on one that is to be   *)
(* invalidated; a node that is off though its inputs are done waits for    *)
(* the rerun of one of them, or is revived by the move that is left.       *)
ExposedAreCovered(s, ops, coming) ==
  \A n \in Items :
    Exposed(s, ops, n) /\ ~Queue!UpstreamsDone(s, n) => \E c \in coming : Hangs(s, c, n)

WaitsAreExcused(s, ops, reruns) ==
  \A n \in Items :
    s[n] \in Off /\ Queue!UpstreamsDone(s, n)
      => \/ ops = <<[move |-> "revive", item |-> n]>>
         \/ DependsOn[n] \cap reruns # {}
-----------------------------------------------------------------------------
(* Ranks of the forest: a lowest node, and lines of upstreams.             *)
LEMMA LeastRank ==
  ASSUME NEW rank, Ranks(rank), NEW S \in SUBSET Items, S # {}
  PROVE  \E n \in S : \A m \in S : rank[n] <= rank[m]
<1> DEFINE T == {rank[n] : n \in S}
<1>1. T \subseteq Nat /\ T # {}
  BY DEF Ranks
<1>2. PICK x \in T : \A y \in T : x <= y
  BY <1>1, LeastNat
<1> QED BY <1>2

LEMMA HangsUpstream ==
  ASSUME Forest, NEW s, NEW n \in Items, NEW u \in DependsOn[n]
  PROVE  /\ Hangs(s, u, n)
         /\ \A a : Hangs(s, a, n) => a = u \/ (s[u] \in Off /\ Hangs(s, a, u))
<1>1. u \in Items /\ u \in Above(n)
  BY EdgeType, AboveHolds
<1>2. Hangs(s, u, n)
  <2>1. Between(u, n) = {}
    BY <1>1, BetweenUpstream, AboveAcyclic
  <2> QED BY <1>1, <2>1 DEF Hangs
<1>3. ASSUME NEW a, Hangs(s, a, n), a # u PROVE s[u] \in Off /\ Hangs(s, a, u)
  <2>1. a \in Above(u) /\ Between(a, n) = Between(a, u) \cup {u}
    BY <1>3, BetweenUpstream DEF Hangs
  <2> QED BY <1>3, <2>1 DEF Hangs
<1> QED BY <1>2, <1>3

LEMMA HangsJoined ==
  ASSUME Forest, NEW s, NEW n \in Items, NEW b, NEW a,
         Hangs(s, b, n), s[b] \in Off, Hangs(s, a, b)
  PROVE  Hangs(s, a, n)
<1>1. b \in Above(n) /\ a \in Above(b)
  BY DEF Hangs
<1>2. a \in Above(n) /\ Between(a, n) = Between(a, b) \cup {b} \cup Between(b, n)
  BY <1>1, BetweenJoined
<1> QED BY <1>2 DEF Hangs

LEMMA HangsPart ==
  ASSUME Forest, NEW s, NEW n \in Items, NEW a, Hangs(s, a, n), NEW b \in Between(a, n)
  PROVE  Hangs(s, a, b) /\ Hangs(s, b, n) /\ s[b] \in Off
<1>1. b \in Above(n) /\ a \in Above(b)
  BY DEF Between
<1>2. Between(a, n) = Between(a, b) \cup {b} \cup Between(b, n)
  BY <1>1, BetweenJoined
<1> QED BY <1>1, <1>2 DEF Hangs

(* What is above an anchored node and neither off nor done is above its    *)
(* anchor; what the node hangs on is the anchor or off and anchored.       *)
LEMMA AboveAnchor ==
  ASSUME Forest, NEW s, NEW n \in Items, NEW r, Hangs(s, r, n), s[r] = "done",
         NEW a \in Above(n)
  PROVE  /\ s[a] \notin Off => a = r \/ a \in Above(r)
         /\ s[a] \in Off /\ a \notin Above(r) => Hangs(s, r, a)
         /\ Hangs(s, a, n) => a = r \/ (s[a] \in Off /\ Hangs(s, r, a))
<1>1. r \in Above(n)
  BY DEF Hangs
<1>2. a = r \/ a \in Above(r) \/ r \in Above(a)
  BY <1>1, AboveIsLine
<1>3. r \in Above(a) => s[a] \in Off /\ Hangs(s, r, a)
  <2> SUFFICES ASSUME r \in Above(a) PROVE s[a] \in Off /\ Hangs(s, r, a)
    OBVIOUS
  <2>1. a \in Between(r, n)
    BY DEF Between
  <2> QED BY <2>1, HangsPart
<1>4. Hangs(s, a, n) => a \notin Above(r)
  <2> SUFFICES ASSUME Hangs(s, a, n), a \in Above(r) PROVE FALSE
    OBVIOUS
  <2>1. r \in Between(a, n)
    BY <1>1 DEF Between
  <2> QED BY <2>1 DEF Hangs, Off
<1>5. s[r] \notin Off
  BY DEF Off
<1> QED BY <1>2, <1>3, <1>4, <1>5

(* Above an exposed node everything is off or done, and what is off is     *)
(* anchored.                                                               *)
LEMMA AboveExposed ==
  ASSUME Forest, NEW s, NEW ops, ExposedAreAnchored(s, ops),
         NEW n \in Items, Exposed(s, ops, n), NEW a \in Above(n)
  PROVE  s[a] = "done" \/ (s[a] \in Off /\ Anchored(s, a))
<1>1. PICK rank : Ranks(rank)
  BY DEF Forest
<1> DEFINE Good(x) == s[x] = "done" \/ (s[x] \in Off /\ Anchored(s, x))
           Wrong == {m \in Items : Exposed(s, ops, m) /\ \E b \in Above(m) : ~Good(b)}
<1> SUFFICES ASSUME Wrong # {} PROVE FALSE
  OBVIOUS
<1>2. PICK m \in Wrong : \A k \in Wrong : rank[m] <= rank[k]
  <2>1. Wrong \in SUBSET Items
    OBVIOUS
  <2> HIDE DEF Wrong
  <2> QED BY <1>1, <2>1, LeastRank
<1>3. PICK b \in Above(m) : ~Good(b)
  BY <1>2
<1>4. PICK r \in Above(m) : s[r] = "done" /\ Hangs(s, r, m)
  BY <1>2, <1>3, AboveRoot DEF ExposedAreAnchored, Anchored
<1>5. r \in Items /\ m \in Items
  BY <1>2, <1>4, AboveHolds
<1>6. b \in Above(r)
  <2>1. /\ s[b] \notin Off => b = r \/ b \in Above(r)
        /\ s[b] \in Off /\ b \notin Above(r) => Hangs(s, r, b)
    BY <1>3, <1>4, <1>5, AboveAnchor
  <2>2. Hangs(s, r, b) => Anchored(s, b)
    BY <1>4 DEF Anchored, Hangs
  <2> QED BY <1>3, <1>4, <2>1, <2>2
<1>7. r \in Wrong
  BY <1>3, <1>4, <1>5, <1>6 DEF Exposed, Working
<1>8. rank[r] < rank[m] /\ rank[m] <= rank[r] /\ rank[r] \in Nat /\ rank[m] \in Nat
  BY <1>1, <1>2, <1>4, <1>5, <1>7, AboveRank DEF Ranks
<1> QED BY <1>8
-----------------------------------------------------------------------------
(* A node with dependents.                                                 *)
Inner == UNION {DependsOn[n] : n \in Items}

LEMMA AboveIsInner == ASSUME NEW n \in Items PROVE Above(n) \subseteq Inner
<1>1. Inner \in SUBSET Items
  BY EdgeType DEF Inner
<1>2. ClosedUp(Inner) /\ DependsOn[n] \subseteq Inner
  BY <1>1 DEF ClosedUp, Inner
<1> QED BY <1>1, <1>2, AboveLeast

(* A change of statuses that keeps what is off and what is done.           *)
Steady(s, t) ==
  \A j \in Inner : (s[j] \in Off => t[j] \in Off) /\ (s[j] = "done" <=> t[j] = "done")

LEMMA SteadyHangs ==
  ASSUME NEW s, NEW t, Steady(s, t), NEW n \in Items
  PROVE  /\ \A a : Hangs(s, a, n) => Hangs(t, a, n)
         /\ Anchored(s, n) => Anchored(t, n)
         /\ Queue!UpstreamsDone(s, n) <=> Queue!UpstreamsDone(t, n)
<1>1. Above(n) \subseteq Inner /\ \A a : Between(a, n) \subseteq Above(n)
  BY AboveIsInner, BetweenType
<1>2. DependsOn[n] \subseteq Inner
  BY DEF Inner
<1>3. \A a : Hangs(s, a, n) => Hangs(t, a, n)
  BY <1>1 DEF Steady, Hangs
<1>4. Anchored(s, n) => Anchored(t, n)
  BY <1>1, <1>3 DEF Steady, Anchored
<1>5. Queue!UpstreamsDone(s, n) <=> Queue!UpstreamsDone(t, n)
  BY <1>2 DEF Steady, Queue!UpstreamsDone
<1> QED BY <1>3, <1>4, <1>5

LEMMA SteadyAnchored ==
  ASSUME NEW s, NEW t, Steady(s, t), NEW ops, NEW left,
         \A n \in Items : Exposed(t, left, n) => Exposed(s, ops, n),
         ExposedAreAnchored(s, ops)
  PROVE  ExposedAreAnchored(t, left)
BY SteadyHangs DEF ExposedAreAnchored

LEMMA SteadyCovered ==
  ASSUME NEW s, NEW t, Steady(s, t), NEW ops, NEW left,
         \A n \in Items : Exposed(t, left, n) => Exposed(s, ops, n),
         NEW W, NEW X, W \subseteq X, ExposedAreCovered(s, ops, W)
  PROVE  ExposedAreCovered(t, left, X)
BY SteadyHangs DEF ExposedAreCovered

LEMMA SteadyExcused ==
  ASSUME NEW s, NEW t, Steady(s, t), NEW ops, NEW left,
         \A n \in Items : t[n] \in Off => s[n] \in Off,
         \A n \in Items : ops = <<[move |-> "revive", item |-> n]>> => left = ops,
         NEW W, NEW X, W \subseteq X, WaitsAreExcused(s, ops, W)
  PROVE  WaitsAreExcused(t, left, X)
<1> SUFFICES ASSUME NEW n \in Items, t[n] \in Off, Queue!UpstreamsDone(t, n)
             PROVE  \/ left = <<[move |-> "revive", item |-> n]>>
                    \/ DependsOn[n] \cap X # {}
  BY DEF WaitsAreExcused
<1>1. s[n] \in Off /\ Queue!UpstreamsDone(s, n)
  BY SteadyHangs
<1> QED BY <1>1 DEF WaitsAreExcused

(* A node is finished: its dependents that are off become ready.           *)
Settles(s, t, i) ==
  /\ i \in Items /\ s[i] \in Working /\ s[i] # "done" /\ t[i] = "done"
  /\ \A j \in Items \ {i} :
       t[j] = IF i \in DependsOn[j] /\ s[j] \in Off THEN "ready" ELSE s[j]

LEMMA SettlesChange ==
  ASSUME Forest, NEW s, NEW t, NEW i, Settles(s, t, i), NEW n \in Items
  PROVE  /\ s[n] = "done" => t[n] = "done"
         /\ t[n] = "done" => n = i \/ s[n] = "done"
         /\ t[n] \in Off => t[n] = s[n] /\ i \notin DependsOn[n]
         /\ t[n] \in Working => s[n] \in Working \/ i \in DependsOn[n]
BY DEF Settles, Off, Working

LEMMA SettlesGap ==
  ASSUME Forest, NEW s, NEW t, NEW i, Settles(s, t, i),
         NEW n \in Items, NEW r, Hangs(s, r, n), r # i
  PROVE  Hangs(t, r, n)
<1>1. r \in Above(n) /\ i \in Items
  BY DEF Hangs, Settles
<1> SUFFICES ASSUME NEW x \in Between(r, n) PROVE t[x] \in Off
  BY <1>1 DEF Hangs
<1>2. x \in Items /\ x \in Above(n) /\ r \in Above(x) /\ s[x] \in Off /\ x # i
  BY BetweenType DEF Between, Hangs, Settles, Off, Working
<1>3. i \notin DependsOn[x]
  <2> SUFFICES ASSUME i \in DependsOn[x] PROVE FALSE
    OBVIOUS
  <2>1. Above(x) = {i} \cup Above(i) /\ Above(x) \subseteq Above(n)
    BY <1>2, AboveUpstream, AboveTransitive
  <2>2. i \in Between(r, n)
    BY <1>2, <2>1 DEF Between
  <2> QED BY <2>2 DEF Hangs, Settles, Off, Working
<1> QED BY <1>2, <1>3 DEF Settles

LEMMA SettlesAnchored ==
  ASSUME Forest, NEW s, NEW t, NEW i, Settles(s, t, i), NEW n \in Items, Anchored(s, n)
  PROVE  Anchored(t, n)
<1>1. PICK r \in Above(n) : s[r] = "done" /\ Hangs(s, r, n)
  BY DEF Anchored
<1>2. r \in Items /\ r # i
  BY <1>1, AboveHolds DEF Settles
<1>3. t[r] = "done" /\ Hangs(t, r, n)
  BY <1>1, <1>2, SettlesGap, SettlesChange
<1> QED BY <1>3 DEF Anchored, Hangs

LEMMA SettlesExposed ==
  ASSUME Forest, NEW s, NEW t, NEW i, Settles(s, t, i), NEW ops, ExposedAreAnchored(s, ops)
  PROVE  ExposedAreAnchored(t, ops)
<1> SUFFICES ASSUME NEW n \in Items, Exposed(t, ops, n), DependsOn[n] # {}
             PROVE  Anchored(t, n)
  BY DEF ExposedAreAnchored
<1>1. CASE Exposed(s, ops, n)
  BY <1>1, SettlesAnchored DEF ExposedAreAnchored
<1>2. CASE ~Exposed(s, ops, n)
  <2>1. i \in DependsOn[n] /\ t[i] = "done"
    BY <1>2, SettlesChange DEF Exposed, Settles
  <2>2. Hangs(t, i, n)
    BY <2>1, HangsUpstream
  <2> QED BY <2>1, <2>2 DEF Anchored, Hangs
<1> QED BY <1>1, <1>2

LEMMA SettlesCovered ==
  ASSUME Forest, NEW s, NEW t, NEW i, Settles(s, t, i), NEW ops, ExposedAreAnchored(s, ops),
         NEW W, ExposedAreCovered(s, ops, W)
  PROVE  ExposedAreCovered(t, ops, W)
<1> SUFFICES ASSUME NEW n \in Items, Exposed(t, ops, n), ~Queue!UpstreamsDone(t, n)
             PROVE  \E c \in W : Hangs(t, c, n)
  BY DEF ExposedAreCovered
<1>1. PICK u \in DependsOn[n] : t[u] # "done"
  BY DEF Queue!UpstreamsDone
<1>2. u \in Items /\ s[u] # "done" /\ u # i /\ i \notin DependsOn[n]
  BY <1>1, EdgeType, SettlesChange DEF Settles, Forest, OneUpstream
<1>3. Exposed(s, ops, n)
  BY <1>2, SettlesChange DEF Exposed
<1>4. PICK c \in W : Hangs(s, c, n)
  BY <1>1, <1>2, <1>3 DEF ExposedAreCovered, Queue!UpstreamsDone
<1>5. c # i
  <2> SUFFICES ASSUME c = i PROVE FALSE
    OBVIOUS
  <2>1. PICK r \in Above(n) : s[r] = "done" /\ Hangs(s, r, n)
    BY <1>1, <1>3 DEF ExposedAreAnchored, Anchored
  <2>2. i = r \/ s[i] \in Off
    BY <1>4, <2>1, AboveAnchor DEF Hangs
  <2> QED BY <2>1, <2>2 DEF Settles, Off, Working
<1> QED BY <1>4, <1>5, SettlesGap

LEMMA SettlesExcused ==
  ASSUME Forest, NEW s, NEW t, NEW i, Settles(s, t, i), NEW ops,
         NEW W, WaitsAreExcused(s, ops, W)
  PROVE  WaitsAreExcused(t, ops, W)
<1> SUFFICES ASSUME NEW n \in Items, t[n] \in Off, Queue!UpstreamsDone(t, n)
             PROVE  s[n] \in Off /\ Queue!UpstreamsDone(s, n)
  BY DEF WaitsAreExcused
<1>1. s[n] \in Off /\ i \notin DependsOn[n]
  BY SettlesChange
<1>2. \A u \in DependsOn[n] : s[u] = "done"
  BY <1>1, EdgeType, SettlesChange DEF Queue!UpstreamsDone
<1> QED BY <1>1, <1>2 DEF Queue!UpstreamsDone

-----------------------------------------------------------------------------
(* A plan of the forest: the nodes below the dirty one, with all that is   *)
(* between, upstream ones first, and every live dependent of theirs.       *)
Listed(p) == {p.affected[k] : k \in DOMAIN p.affected}

Covers(s, R) ==
  \A x \in Items : s[x] # "cancelled" /\ DependsOn[x] \cap R # {} => x \in R

SoundPlan(s, p) ==
  /\ \A x \in Listed(p) : p.dirty \in Above(x) /\ Between(p.dirty, x) \subseteq Listed(p)
  /\ \A j, k \in DOMAIN p.affected :
       /\ p.affected[j] = p.affected[k] => j = k
       /\ p.affected[j] \in Above(p.affected[k]) => j < k
  /\ Covers(s, {p.dirty} \cup Listed(p))

(* The moves of a cascade: of nodes of the plan, upstream ones first, the  *)
(* dirty node last; a revoked dependent is demoted, what is superseded is  *)
(* then marked stale, the dirty node is revived at the very end.           *)
Repudiations == {"markStale"} \cup Still

Rest(ops, i) == \E k \in DOMAIN ops : ops[k].item = i

InPlanOrder(ops, p) ==
  \A j, k \in DOMAIN ops : j < k =>
    /\ ops[j] # ops[k]
    /\ ops[k].item # p.dirty => ops[j].item # p.dirty /\ ops[k].item \notin Above(ops[j].item)

OfThePlan(ops, p) ==
  \A k \in DOMAIN ops :
    IF ops[k].item = p.dirty
      THEN ops[k].move \in {"revokeLease", "revive"} \cup Repudiations
      ELSE /\ ops[k].item \in Listed(p)
           /\ ops[k].move \in {"revokeLease", "demote"} \cup Repudiations

Alternatives(ops) ==
  \A j, k \in DOMAIN ops :
    ops[j].item = ops[k].item /\ ops[j].move \in Repudiations
      => ops[k].move \notin {"revokeLease", "demote"}

InPairs(ops, p) ==
  \A j \in DOMAIN ops :
    /\ ops[j].move = "revokeLease" /\ ops[j].item # p.dirty =>
         \E k \in DOMAIN ops : j < k /\ ops[k] = [move |-> "demote", item |-> ops[j].item]
    /\ ops[j].move \in Still =>
         \E k \in DOMAIN ops : j < k /\ ops[k] = [move |-> "markStale", item |-> ops[j].item]
    /\ ops[j].move = "markStale" /\ ops[j].item = p.dirty =>
         j + 1 = Len(ops) /\ ops[j + 1] = [move |-> "revive", item |-> p.dirty]
    /\ ops[j].move = "revive" => j = Len(ops)

OpsShape(ops, p) ==
  InPlanOrder(ops, p) /\ OfThePlan(ops, p) /\ Alternatives(ops) /\ InPairs(ops, p)

(* How far the cascade has come, whatever workers did since it read the    *)
(* statuses.                                                               *)
StatusesFit(s, ops) ==
  \A k \in DOMAIN ops :
    /\ ops[k].move \in Repudiations => s[ops[k].item] \in Finished
    /\ ops[k].move = "revokeLease" => s[ops[k].item] \notin Off

(* Above a node still to be moved a node of the plan is off, or still to   *)
(* be moved, or the cascade cannot go on: a node above is done that it     *)
(* means to demote.                                                        *)
PathsAreMoved(s, ops, p) ==
  \A m \in Listed(p) : Rest(ops, m) =>
    \A t \in Between(p.dirty, m) :
      \/ s[t] \in Off
      \/ Rest(ops, t)
      \/ \E v \in Between(p.dirty, t) : s[v] = "done" /\ Left(ops, v, "demote")

DirtyIsLast(s, ops, p) ==
  (\E k \in DOMAIN ops : ops[k].item # p.dirty) =>
    \/ s[p.dirty] = "done" /\ Left(ops, p.dirty, "markStale")
    \/ s[p.dirty] \in Off /\ Anchored(s, p.dirty)

MovedAreSound(s, ops, p) ==
  \A m \in Listed(p) : ~Rest(ops, m) /\ s[m] \in Working =>
    /\ Queue!UpstreamsDone(s, m)
    /\ \A u \in DependsOn[m] : ~Left(ops, u, "markStale")

CascadeInv(s, ops, p) ==
  /\ StatusesFit(s, ops) /\ PathsAreMoved(s, ops, p) /\ DirtyIsLast(s, ops, p)
  /\ MovedAreSound(s, ops, p)
-----------------------------------------------------------------------------
(* A cascade's moves, one taken from the front at a time.                  *)
LEMMA TailAt ==
  ASSUME NEW ops \in Seq(Op), ops # <<>>
  PROVE  /\ Tail(ops) \in Seq(Op) /\ Len(Tail(ops)) = Len(ops) - 1
         /\ 1 \in DOMAIN ops /\ Head(ops) = ops[1]
         /\ \A k \in DOMAIN Tail(ops) :
              k + 1 \in DOMAIN ops /\ Tail(ops)[k] = ops[k + 1] /\ 1 < k + 1 /\ k \in Nat
         /\ \A k \in DOMAIN ops : k # 1 => /\ k - 1 \in DOMAIN Tail(ops)
                                           /\ Tail(ops)[k - 1] = ops[k] /\ 1 < k
OBVIOUS

(* What is left when the first move is made.                               *)
LEMMA TailLeaves ==
  ASSUME NEW ops \in Seq(Op), ops # <<>>, NEW i, NEW name
  PROVE  /\ Left(Tail(ops), i, name) => Left(ops, i, name)
         /\ Left(ops, i, name) =>
              Left(Tail(ops), i, name) \/ Head(ops) = [move |-> name, item |-> i]
         /\ Rest(Tail(ops), i) => Rest(ops, i)
         /\ Rest(ops, i) => Rest(Tail(ops), i) \/ Head(ops).item = i
         /\ Rest(ops, Head(ops).item)
<1> DEFINE rest == Tail(ops)
<1>1. /\ 1 \in DOMAIN ops /\ Head(ops) = ops[1]
      /\ \A k \in DOMAIN rest : k + 1 \in DOMAIN ops /\ rest[k] = ops[k + 1]
      /\ \A k \in DOMAIN ops : k # 1 => k - 1 \in DOMAIN rest /\ rest[k - 1] = ops[k]
  BY TailAt
<1> HIDE DEF rest
<1>2. Left(rest, i, name) => Left(ops, i, name)
  BY <1>1 DEF Left
<1>3. Left(ops, i, name) => Left(rest, i, name) \/ ops[1] = [move |-> name, item |-> i]
  BY <1>1 DEF Left
<1>4. /\ Rest(rest, i) => Rest(ops, i)
      /\ Rest(ops, i) => Rest(rest, i) \/ ops[1].item = i
      /\ Rest(ops, ops[1].item)
  BY <1>1 DEF Rest
<1> QED BY <1>1, <1>2, <1>3, <1>4 DEF rest

LEMMA OneMove == ASSUME NEW ops \in Seq(Op), Len(ops) = 1 PROVE ops = <<ops[1]>>
OBVIOUS

LEMMA LeftIsRest ==
  ASSUME NEW ops, NEW i, NEW name, Left(ops, i, name)
  PROVE  Rest(ops, i)
BY DEF Left, Rest

LEMMA TailShape ==
  ASSUME NEW ops \in Seq(Op), ops # <<>>, NEW p, OpsShape(ops, p)
  PROVE  OpsShape(Tail(ops), p)
<1> DEFINE rest == Tail(ops)
<1>1. \A k \in DOMAIN rest :
        k + 1 \in DOMAIN ops /\ rest[k] = ops[k + 1] /\ k \in Nat /\ k # 0
  BY TailAt
<1>2. /\ \A k \in DOMAIN ops : k # 1 => k - 1 \in DOMAIN rest /\ rest[k - 1] = ops[k]
      /\ DOMAIN ops \subseteq Nat /\ Len(rest) = Len(ops) - 1 /\ Len(ops) \in Nat
  BY TailAt
<1> HIDE DEF rest
<1>3. \A j, k \in DOMAIN rest : j < k => j + 1 < k + 1
  BY <1>1
<1>4. InPlanOrder(rest, p)
  BY <1>1, <1>3 DEF OpsShape, InPlanOrder
<1>5. OfThePlan(rest, p) /\ Alternatives(rest)
  BY <1>1 DEF OpsShape, OfThePlan, Alternatives
<1>6. InPairs(rest, p)
  <2> SUFFICES ASSUME NEW j \in DOMAIN rest
               PROVE  InPairs(rest, p)!(j)
    BY DEF InPairs
  <2>1. j + 1 \in DOMAIN ops /\ rest[j] = ops[j + 1] /\ j \in Nat
    BY <1>1
  <2>2. ASSUME NEW k \in DOMAIN ops, j + 1 < k
        PROVE  k - 1 \in DOMAIN rest /\ j < k - 1 /\ rest[k - 1] = ops[k]
    BY <1>2, <2>1, <2>2
  <2>3. rest[j].move = "revokeLease" /\ rest[j].item # p.dirty =>
         \E k \in DOMAIN rest : j < k /\ rest[k] = [move |-> "demote", item |-> rest[j].item]
    BY <2>1, <2>2 DEF OpsShape, InPairs
  <2>4. rest[j].move \in Still =>
         \E k \in DOMAIN rest : j < k /\ rest[k] = [move |-> "markStale", item |-> rest[j].item]
    BY <2>1, <2>2 DEF OpsShape, InPairs
  <2>5. rest[j].move = "markStale" /\ rest[j].item = p.dirty =>
         j + 1 = Len(rest) /\ rest[j + 1] = [move |-> "revive", item |-> p.dirty]
    <3> SUFFICES ASSUME rest[j].move = "markStale", rest[j].item = p.dirty
                 PROVE  j + 1 = Len(rest) /\ rest[j + 1] = [move |-> "revive", item |-> p.dirty]
      OBVIOUS
    <3>1. /\ (j + 1) + 1 = Len(ops)
          /\ ops[(j + 1) + 1] = [move |-> "revive", item |-> p.dirty]
      BY <2>1 DEF OpsShape, InPairs
    <3>2. (j + 1) + 1 \in DOMAIN ops /\ (j + 1) + 1 # 1 /\ ((j + 1) + 1) - 1 = j + 1
      BY <2>1, <3>1, TailAt
    <3>3. rest[j + 1] = ops[(j + 1) + 1]
      BY <1>2, <3>2
    <3> QED BY <1>2, <2>1, <3>1, <3>3
  <2>6. rest[j].move = "revive" => j = Len(rest)
    BY <1>2, <2>1 DEF OpsShape, InPairs
  <2> QED BY <2>3, <2>4, <2>5, <2>6
<1> QED BY <1>4, <1>5, <1>6 DEF OpsShape, rest

(* The first move is of the dirty node, as all then are, or of the plan's. *)
LEMMA HeadOrder ==
  ASSUME NEW ops \in Seq(Op), ops # <<>>, NEW p, OpsShape(ops, p)
  PROVE  IF Head(ops).item = p.dirty
           THEN \A k \in DOMAIN Tail(ops) : Tail(ops)[k].item = p.dirty
           ELSE Head(ops).item \in Listed(p)
<1> DEFINE rest == Tail(ops)
<1>1. /\ 1 \in DOMAIN ops /\ Head(ops) = ops[1]
      /\ \A k \in DOMAIN rest :
           k + 1 \in DOMAIN ops /\ rest[k] = ops[k + 1] /\ 1 < k + 1 /\ k \in Nat
  BY TailAt
<1> HIDE DEF rest
<1>2. ops[1].item # p.dirty => ops[1].item \in Listed(p)
  BY <1>1 DEF OpsShape, OfThePlan
<1>3. ops[1].item = p.dirty => \A k \in DOMAIN rest : rest[k].item = p.dirty
  BY <1>1 DEF OpsShape, InPlanOrder
<1> QED BY <1>1, <1>2, <1>3 DEF rest

(* What the shape says of the first move and those after it.               *)
LEMMA HeadShape ==
  ASSUME NEW ops \in Seq(Op), ops # <<>>, NEW p, OpsShape(ops, p), NEW x, NEW rest,
         x = Head(ops).item, rest = Tail(ops)
  PROVE  /\ x # p.dirty => /\ x \in Listed(p)
                           /\ \A y \in Above(x) : y # p.dirty => ~Rest(rest, y)
         /\ x = p.dirty => \A k \in DOMAIN rest : rest[k].item = p.dirty
         /\ Head(ops).move = "demote" => x # p.dirty /\ ~Rest(rest, x)
         /\ Head(ops).move = "markStale" /\ x # p.dirty => ~Rest(rest, x)
         /\ Head(ops).move = "markStale" /\ x = p.dirty
              => rest = <<[move |-> "revive", item |-> x]>>
         /\ Head(ops).move = "revive" => x = p.dirty /\ rest = <<>>
         /\ Head(ops).move = "revokeLease" =>
              /\ x # p.dirty => Left(rest, x, "demote")
              /\ \A name \in Repudiations : ~Left(rest, x, name)
              /\ ~Left(rest, x, "revokeLease")
         /\ Head(ops).move \in Still => Left(rest, x, "markStale")
         /\ Head(ops).move \in {"revokeLease", "demote", "revive"} \cup Repudiations
<1>0. /\ rest \in Seq(Op) /\ Len(rest) = Len(ops) - 1 /\ 1 \in DOMAIN ops
      /\ Head(ops) = ops[1] /\ ops[1].item = x
      /\ Len(ops) \in Nat /\ DOMAIN ops = 1..Len(ops)
  BY TailAt
<1>1. \A k \in DOMAIN rest :
        k + 1 \in DOMAIN ops /\ rest[k] = ops[k + 1] /\ 1 < k + 1 /\ k \in Nat
  BY TailAt
<1>2. \A k \in DOMAIN ops : 1 < k => k - 1 \in DOMAIN rest /\ rest[k - 1] = ops[k]
  BY TailAt
<1>3. ops[1].move \in {"revokeLease", "demote", "revive"} \cup Repudiations
  BY <1>0 DEF OpsShape, OfThePlan
<1>4. x # p.dirty => x \in Listed(p) /\ \A y \in Above(x) : y # p.dirty => ~Rest(rest, y)
  BY <1>0, <1>1 DEF OpsShape, OfThePlan, InPlanOrder, Rest
<1>5. x = p.dirty => \A k \in DOMAIN rest : rest[k].item = p.dirty
  BY <1>0, <1>1 DEF OpsShape, InPlanOrder
(* No move of the same node follows one that is its last. *)
<1>6. ASSUME x # p.dirty, ops[1].move \in {"demote", "markStale"}, Rest(rest, x)
      PROVE  FALSE
  <2>1. PICK k \in DOMAIN ops : 1 < k /\ ops[k].item = x
    BY <1>1, <1>6 DEF Rest
  <2>2. /\ ops[k].move \in {"revokeLease", "demote"} \cup Repudiations
        /\ ops[k] # ops[1]
    BY <1>0, <1>6, <2>1 DEF OpsShape, OfThePlan, InPlanOrder
  <2>3. ops[1] \in Op /\ \A j \in DOMAIN ops : ops[j] \in Op /\ j \in Nat
    BY <1>0
  <2>4. \A j \in DOMAIN ops : 1 < j /\ ops[j].item = x => ops[j].move # ops[1].move
    <3> SUFFICES ASSUME NEW j \in DOMAIN ops, 1 < j, ops[j].item = x,
                        ops[j].move = ops[1].move
                 PROVE  FALSE
      OBVIOUS
    <3>1. ops[j] = ops[1]
      BY <1>0, <2>3 DEF Op
    <3> QED BY <1>0, <3>1 DEF OpsShape, InPlanOrder
  <2>5. CASE ops[1].move = "demote"
    <3>1. ops[k].move = "revokeLease"
      BY <1>0, <2>1, <2>2, <2>4, <2>5 DEF OpsShape, Alternatives, Repudiations, Still
    <3>2. PICK j \in DOMAIN ops : k < j /\ ops[j] = [move |-> "demote", item |-> x]
      BY <1>6, <2>1, <3>1 DEF OpsShape, InPairs
    <3>3. 1 < j
      BY <2>1, <2>3, <3>2
    <3> QED BY <2>4, <2>5, <3>2, <3>3
  <2>6. CASE ops[1].move = "markStale"
    <3>1. ops[k].move \in Still
      BY <1>0, <2>1, <2>2, <2>4, <2>6 DEF OpsShape, Alternatives, Repudiations
    <3>2. PICK j \in DOMAIN ops : k < j /\ ops[j] = [move |-> "markStale", item |-> x]
      BY <2>1, <3>1 DEF OpsShape, InPairs
    <3>3. 1 < j
      BY <2>1, <2>3, <3>2
    <3> QED BY <2>4, <2>6, <3>2, <3>3
  <2> QED BY <1>6, <2>5, <2>6
<1>7. ops[1].move = "demote" => x # p.dirty
  BY <1>0 DEF OpsShape, OfThePlan, Repudiations, Still
<1>8. ASSUME ops[1].move = "markStale", x = p.dirty
      PROVE  rest = <<[move |-> "revive", item |-> x]>>
  <2>1. 1 + 1 = Len(ops) /\ ops[1 + 1] = [move |-> "revive", item |-> x]
    BY <1>0, <1>8 DEF OpsShape, InPairs
  <2>2. Len(rest) = 1 /\ 1 \in DOMAIN rest
    BY <1>0, <2>1
  <2>3. rest[1] = ops[1 + 1]
    BY <1>1, <2>2
  <2> QED BY <1>0, <2>1, <2>2, <2>3, OneMove
<1>9. ASSUME ops[1].move = "revive" PROVE x = p.dirty /\ rest = <<>>
  <2>1. 1 = Len(ops) /\ x = p.dirty
    BY <1>0, <1>9 DEF OpsShape, InPairs, OfThePlan, Repudiations, Still
  <2>2. Len(rest) = 0
    BY <1>0, <2>1
  <2> QED BY <1>0, <2>1, <2>2
<1>10. ASSUME ops[1].move = "revokeLease"
       PROVE  /\ x # p.dirty => Left(rest, x, "demote")
              /\ \A name \in Repudiations : ~Left(rest, x, name)
              /\ ~Left(rest, x, "revokeLease")
  <2>1. x # p.dirty => Left(rest, x, "demote")
    <3> SUFFICES ASSUME x # p.dirty PROVE Left(rest, x, "demote")
      OBVIOUS
    <3>1. PICK k \in DOMAIN ops : 1 < k /\ ops[k] = [move |-> "demote", item |-> x]
      BY <1>0, <1>10 DEF OpsShape, InPairs
    <3> QED BY <1>2, <3>1 DEF Left
  <2>2. \A name \in Repudiations : ~Left(rest, x, name)
    BY <1>0, <1>1, <1>10 DEF OpsShape, Alternatives, Left
  <2>3. ~Left(rest, x, "revokeLease")
    <3>1. ops[1] \in Op
      BY <1>0
    <3>2. ops[1] = [move |-> "revokeLease", item |-> x]
      BY <1>0, <1>10, <3>1 DEF Op
    <3> QED BY <1>0, <1>1, <3>2 DEF OpsShape, InPlanOrder, Left
  <2> QED BY <2>1, <2>2, <2>3
<1>11. ops[1].move \in Still => Left(rest, x, "markStale")
  <2> SUFFICES ASSUME ops[1].move \in Still PROVE Left(rest, x, "markStale")
    OBVIOUS
  <2>1. \E k \in DOMAIN ops : 1 < k /\ ops[k] = [move |-> "markStale", item |-> ops[1].item]
    BY <1>0 DEF OpsShape, InPairs
  <2>2. PICK k \in DOMAIN ops : 1 < k /\ ops[k] = [move |-> "markStale", item |-> x]
    BY <1>0, <2>1
  <2> QED BY <1>2, <2>2 DEF Left
<1> QED BY <1>0, <1>3, <1>4, <1>5, <1>6, <1>7, <1>8, <1>9, <1>10, <1>11

-----------------------------------------------------------------------------
(* A cascade under way: the nodes' statuses, the moves left, the plan, and *)
(* the nodes whose invalidation is still to come after this one.           *)
Sound(s, ops, p, later) ==
  /\ ExposedAreAnchored(s, ops) /\ ExposedAreCovered(s, ops, later \cup {p.dirty})
  /\ CascadeInv(s, ops, p)

Reruns(later, ops, p) == later \cup {i \in {p.dirty} : Left(ops, i, "markStale")}

UnderWay(s, ops, p, later) ==
  /\ p \in Plan /\ ops \in Seq(Op) /\ SoundPlan(s, p) /\ OpsShape(ops, p)
  /\ Sound(s, ops, p, later)

Excused(s, ops, p, later) == WaitsAreExcused(s, ops, Reruns(later, ops, p))

(* The first move, of node x, gives it a status and leaves the others.     *)
Changes(s, t, x) == \A j \in Items \ {x} : t[j] = s[j]

LEMMA PlanFacts ==
  ASSUME Forest, NEW s, NEW p \in Plan, SoundPlan(s, p)
  PROVE  /\ p.dirty \in Items /\ Listed(p) \subseteq Items /\ p.dirty \notin Listed(p)
         /\ \A x \in Listed(p) : p.dirty \in Above(x)
<1>1. p.dirty \in Items /\ Listed(p) \subseteq Items
  BY DEF Plan, Listed
<1>2. \A x \in Listed(p) : p.dirty \in Above(x)
  BY DEF SoundPlan
<1> QED BY <1>1, <1>2, AboveAcyclic

(* A live node that hangs on the dirty one is on the plan.                 *)
LEMMA HangingIsListed ==
  ASSUME Forest, NEW s, NEW p \in Plan, SoundPlan(s, p),
         NEW n \in Items, s[n] # "cancelled", Hangs(s, p.dirty, n)
  PROVE  n \in Listed(p)
<1> DEFINE Wrong == {m \in Items : s[m] # "cancelled" /\ Hangs(s, p.dirty, m) /\ m \notin Listed(p)}
<1> SUFFICES ASSUME Wrong # {} PROVE FALSE
  OBVIOUS
<1>1. PICK rank : Ranks(rank)
  BY DEF Forest
<1>2. PICK m \in Wrong : \A k \in Wrong : rank[m] <= rank[k]
  <2>1. Wrong \in SUBSET Items
    OBVIOUS
  <2> HIDE DEF Wrong
  <2> QED BY <1>1, <2>1, LeastRank
<1>3. PICK u \in DependsOn[m] : TRUE
  BY <1>2, AboveHasUpstream DEF Hangs
<1>4. u \in Items /\ m \in Items /\ m # p.dirty
  BY <1>2, EdgeType, AboveAcyclic DEF Hangs
<1>5. p.dirty = u \/ (s[u] \in Off /\ Hangs(s, p.dirty, u))
  BY <1>2, <1>4, HangsUpstream
<1>6. u \in {p.dirty} \cup Listed(p)
  <2> SUFFICES ASSUME u # p.dirty, u \notin Listed(p) PROVE FALSE
    OBVIOUS
  <2>1. u \in Wrong
    BY <1>4, <1>5 DEF Off
  <2>2. rank[u] < rank[m] /\ rank[m] <= rank[u] /\ rank[u] \in Nat /\ rank[m] \in Nat
    BY <1>1, <1>2, <1>4, <2>1 DEF Ranks
  <2> QED BY <2>2
<1>7. m \in {p.dirty} \cup Listed(p)
  BY <1>2, <1>4, <1>6 DEF SoundPlan, Covers
<1> QED BY <1>2, <1>4, <1>7

(* When only the dirty node is still to be moved, a node that hangs on it  *)
(* and works does so on inputs that are done and stay so.                  *)
LEMMA HangingAreSound ==
  ASSUME Forest, NEW s, NEW ops, NEW p \in Plan, SoundPlan(s, p), MovedAreSound(s, ops, p),
         \A k \in DOMAIN ops : ops[k].item = p.dirty,
         NEW n \in Items, Hangs(s, p.dirty, n), s[n] \in Working
  PROVE  s[p.dirty] = "done" /\ Queue!UpstreamsDone(s, n) /\ ~Left(ops, p.dirty, "markStale")
<1>1. n \in Listed(p)
  BY HangingIsListed DEF Working
<1>2. ~Rest(ops, n)
  BY <1>1, PlanFacts DEF Rest
<1>3. Queue!UpstreamsDone(s, n) /\ \A u \in DependsOn[n] : ~Left(ops, u, "markStale")
  BY <1>1, <1>2 DEF MovedAreSound
<1>4. PICK u \in DependsOn[n] : TRUE
  BY AboveHasUpstream DEF Hangs
<1>5. s[u] = "done"
  BY <1>3 DEF Queue!UpstreamsDone
<1>6. p.dirty = u
  BY <1>5, HangsUpstream DEF Off
<1> QED BY <1>3, <1>5, <1>6

(* The first move's node hangs on the dirty one.                           *)
LEMMA HeadHangs ==
  ASSUME Forest, NEW s, NEW ops, ops # <<>>, NEW p, NEW later, UnderWay(s, ops, p, later),
         NEW x, x = Head(ops).item, x # p.dirty
  PROVE  /\ x \in Listed(p) /\ x \in Items /\ Hangs(s, p.dirty, x)
         /\ \/ s[p.dirty] = "done" /\ Left(ops, p.dirty, "markStale")
            \/ s[p.dirty] \in Off /\ Anchored(s, p.dirty)
<1> DEFINE rest == Tail(ops)
<1>1. /\ ops \in Seq(Op) /\ OpsShape(ops, p) /\ PathsAreMoved(s, ops, p)
      /\ DirtyIsLast(s, ops, p) /\ p \in Plan /\ SoundPlan(s, p)
  BY DEF UnderWay, Sound, CascadeInv
<1>2. x \in Listed(p) /\ \A y \in Above(x) : y # p.dirty => ~Rest(rest, y)
  BY <1>1, HeadShape
<1>3. Rest(ops, x) /\ x \in Items /\ p.dirty \in Above(x)
  BY <1>1, <1>2, PlanFacts, TailLeaves
<1>4. \A y \in Above(x) : y # p.dirty => ~Rest(ops, y)
  <2> SUFFICES ASSUME NEW y \in Above(x), y # p.dirty, Rest(ops, y) PROVE FALSE
    OBVIOUS
  <2>1. y # x
    BY <1>3, AboveAcyclic
  <2>2. Rest(rest, y)
    BY <1>1, <2>1, TailLeaves
  <2> QED BY <1>2, <2>2
<1>5. ASSUME NEW t \in Between(p.dirty, x) PROVE s[t] \in Off
  <2>1. t \in Above(x) /\ p.dirty \in Above(t) /\ t \in Items
    BY <1>3, <1>5, BetweenType DEF Between
  <2>2. ~Rest(ops, t)
    BY <1>4, <2>1, AboveAcyclic
  <2>3. \A v \in Between(p.dirty, t) : ~Rest(ops, v)
    <3> SUFFICES ASSUME NEW v \in Between(p.dirty, t) PROVE ~Rest(ops, v)
      OBVIOUS
    <3>1. v \in Above(t) /\ p.dirty \in Above(v) /\ v \in Items
      BY <2>1, BetweenType DEF Between
    <3>2. v \in Above(x) /\ v # p.dirty
      BY <1>3, <2>1, <3>1, AboveTransitive, AboveAcyclic
    <3> QED BY <1>4, <3>2
  <2>4. \A v \in Between(p.dirty, t) : ~Left(ops, v, "demote")
    BY <2>3, LeftIsRest
  <2> QED BY <1>1, <1>2, <1>3, <1>5, <2>2, <2>4 DEF PathsAreMoved
<1>6. 1 \in DOMAIN ops /\ ops[1].item # p.dirty
  BY <1>1, TailAt
<1> QED BY <1>1, <1>2, <1>3, <1>5, <1>6 DEF Hangs, DirtyIsLast

(* If its inputs are done, the dirty node is one of them.                  *)
LEMMA HeadIsExcused ==
  ASSUME Forest, NEW s, NEW ops, ops # <<>>, NEW p, NEW later, UnderWay(s, ops, p, later),
         NEW x, x = Head(ops).item, x # p.dirty, Queue!UpstreamsDone(s, x)
  PROVE  p.dirty \in DependsOn[x] /\ Left(ops, p.dirty, "markStale")
<1>1. /\ x \in Items /\ Hangs(s, p.dirty, x)
      /\ \/ s[p.dirty] = "done" /\ Left(ops, p.dirty, "markStale")
         \/ s[p.dirty] \in Off /\ Anchored(s, p.dirty)
  BY HeadHangs
<1>2. PICK u \in DependsOn[x] : TRUE
  BY <1>1, AboveHasUpstream DEF Hangs
<1>3. s[u] = "done"
  BY DEF Queue!UpstreamsDone
<1>4. p.dirty = u
  BY <1>1, <1>3, HangsUpstream DEF Off
<1> QED BY <1>1, <1>3, <1>4 DEF Off
-----------------------------------------------------------------------------
(* What a move leaves of the cascade: types, and what stays covered.       *)
LEMMA OpsType ==
  ASSUME NEW ops \in Seq(Op), NEW k \in DOMAIN ops
  PROVE  /\ ops[k] \in Op /\ ops[k].item \in Items
         /\ \A name : ops[k].move = name => ops[k] = [move |-> name, item |-> ops[k].item]
<1>1. ops[k] \in Op
  OBVIOUS
<1> QED BY <1>1 DEF Op

(* Workers between two moves.                                              *)
LEMMA SteadyCascade ==
  ASSUME Forest, NEW s, NEW t, NEW ops \in Seq(Op), NEW p \in Plan, SoundPlan(s, p),
         CascadeInv(s, ops, p),
         \A j \in Items : /\ t[j] \in Off <=> s[j] \in Off
                          /\ t[j] = "done" <=> s[j] = "done"
                          /\ s[j] \in Finished => t[j] \in Finished
                          /\ t[j] \in Working => s[j] \in Working
  PROVE  CascadeInv(t, ops, p)
<1>1. Steady(s, t) /\ Listed(p) \subseteq Items /\ p.dirty \in Items
  BY EdgeType, PlanFacts DEF Steady, Inner
<1>2. \A k \in DOMAIN ops : ops[k].item \in Items
  BY OpsType
<1>3. StatusesFit(t, ops)
  BY <1>2 DEF CascadeInv, StatusesFit
<1>4. PathsAreMoved(t, ops, p)
  <2> SUFFICES ASSUME NEW m \in Listed(p), Rest(ops, m), NEW b \in Between(p.dirty, m)
               PROVE  \/ t[b] \in Off
                      \/ Rest(ops, b)
                      \/ \E v \in Between(p.dirty, b) : t[v] = "done" /\ Left(ops, v, "demote")
    BY DEF PathsAreMoved
  <2>1. b \in Items /\ Between(p.dirty, b) \subseteq Items
    BY <1>1, BetweenType
  <2> QED BY <2>1 DEF CascadeInv, PathsAreMoved
<1>5. DirtyIsLast(t, ops, p)
  BY <1>1, SteadyHangs DEF CascadeInv, DirtyIsLast
<1>6. MovedAreSound(t, ops, p)
  BY <1>1, SteadyHangs DEF CascadeInv, MovedAreSound
<1> QED BY <1>3, <1>4, <1>5, <1>6 DEF CascadeInv

LEMMA SettlesCascade ==
  ASSUME Forest, NEW s, NEW t, NEW i, Settles(s, t, i), s[i] \notin Finished,
         NEW ops \in Seq(Op), NEW p \in Plan, SoundPlan(s, p), OpsShape(ops, p),
         CascadeInv(s, ops, p)
  PROVE  CascadeInv(t, ops, p)
<1>1. /\ Listed(p) \subseteq Items /\ p.dirty \in Items /\ i \in Items
      /\ s[i] \notin Off /\ s[i] # "done" /\ t[i] = "done"
      /\ \A m \in Listed(p) : p.dirty \in Above(m) /\ m # p.dirty
  BY PlanFacts DEF Settles, Off, Working
<1>2. \A j \in Items : /\ s[j] = "done" => t[j] = "done"
                       /\ t[j] \in Off => s[j] \in Off
                       /\ s[j] \in Off => t[j] \in Off \/ i \in DependsOn[j]
                       /\ s[j] \in Finished => t[j] = s[j]
  BY <1>1 DEF Settles, Off, Finished
<1>3. \A k \in DOMAIN ops : ops[k].item \in Items /\ ops[k] \in Op
  BY OpsType
<1>4. StatusesFit(t, ops)
  BY <1>2, <1>3 DEF CascadeInv, StatusesFit
<1>5. PathsAreMoved(t, ops, p)
  <2> SUFFICES ASSUME NEW m \in Listed(p), Rest(ops, m), NEW b \in Between(p.dirty, m),
                      t[b] \notin Off, ~Rest(ops, b)
               PROVE  \E v \in Between(p.dirty, b) : t[v] = "done" /\ Left(ops, v, "demote")
    BY DEF PathsAreMoved
  <2>1. /\ b \in Items /\ p.dirty \in Above(b) /\ b \in Above(m)
        /\ Between(p.dirty, b) \subseteq Items
    BY <1>1, BetweenType DEF Between
  <2>2. CASE s[b] \notin Off
    BY <1>2, <2>1, <2>2 DEF CascadeInv, PathsAreMoved
  <2>3. CASE s[b] \in Off
    <3>1. i \in DependsOn[b]
      BY <1>2, <2>1, <2>3
    <3>2. i # p.dirty
      <4> SUFFICES ASSUME i = p.dirty PROVE FALSE
        OBVIOUS
      <4>1. \E k \in DOMAIN ops : ops[k].item # p.dirty
        BY <1>1 DEF Rest
      <4> QED BY <1>1, <4>1 DEF CascadeInv, DirtyIsLast
    <3>3. i \in Between(p.dirty, b) /\ Between(p.dirty, b) = Between(p.dirty, i) \cup {i}
      BY <2>1, <3>1, <3>2, BetweenUpstream
    <3>4. i \in Between(p.dirty, m) /\ p.dirty \in Above(i)
      BY <1>1, <2>1, <3>3, AboveTransitive DEF Between
    <3>5. Rest(ops, i) \/ \E v \in Between(p.dirty, i) : s[v] = "done" /\ Left(ops, v, "demote")
      BY <1>1, <3>4 DEF CascadeInv, PathsAreMoved
    <3>6. CASE \E v \in Between(p.dirty, i) : s[v] = "done" /\ Left(ops, v, "demote")
      <4>1. PICK v \in Between(p.dirty, i) : s[v] = "done" /\ Left(ops, v, "demote")
        BY <3>6
      <4>2. v \in Between(p.dirty, b) /\ v \in Items
        BY <2>1, <3>3
      <4> QED BY <1>2, <4>1, <4>2
    <3>7. CASE Rest(ops, i)
      <4>1. PICK k \in DOMAIN ops : ops[k].item = i
        BY <3>7 DEF Rest
      <4>2. ops[k].move \in {"revokeLease", "demote"}
        BY <3>2, <4>1 DEF OpsShape, OfThePlan, CascadeInv, StatusesFit
      <4>3. Left(ops, i, "demote")
        <5>1. CASE ops[k].move = "demote"
          BY <1>3, <4>1, <5>1 DEF Left, Op
        <5>2. CASE ops[k].move = "revokeLease"
          <6>1. \E j \in DOMAIN ops : ops[j] = [move |-> "demote", item |-> ops[k].item]
            BY <3>2, <4>1, <5>2 DEF OpsShape, InPairs
          <6> QED BY <4>1, <6>1 DEF Left
        <5> QED BY <4>2, <5>1, <5>2
      <4> QED BY <1>1, <3>3, <4>3
    <3> QED BY <3>5, <3>6, <3>7
  <2> QED BY <2>2, <2>3
<1>6. DirtyIsLast(t, ops, p)
  <2> SUFFICES ASSUME \E k \in DOMAIN ops : ops[k].item # p.dirty,
                      ~(t[p.dirty] = "done" /\ Left(ops, p.dirty, "markStale"))
               PROVE  t[p.dirty] \in Off /\ Anchored(t, p.dirty)
    BY DEF DirtyIsLast
  <2>1. s[p.dirty] \in Off /\ Anchored(s, p.dirty)
    BY <1>1, <1>2 DEF CascadeInv, DirtyIsLast
  <2>2. Anchored(t, p.dirty)
    BY <1>1, <2>1, SettlesAnchored
  <2>3. i \notin DependsOn[p.dirty]
    <3> SUFFICES ASSUME i \in DependsOn[p.dirty] PROVE FALSE
      OBVIOUS
    <3>1. PICK r \in Above(p.dirty) : s[r] = "done" /\ Hangs(s, r, p.dirty)
      BY <2>1 DEF Anchored
    <3>2. r = i \/ s[i] \in Off
      BY <1>1, <3>1, HangsUpstream
    <3> QED BY <1>1, <3>1, <3>2
  <2> QED BY <1>1, <1>2, <2>1, <2>2, <2>3
<1>7. MovedAreSound(t, ops, p)
  <2> SUFFICES ASSUME NEW m \in Listed(p), ~Rest(ops, m), t[m] \in Working
               PROVE  /\ Queue!UpstreamsDone(t, m)
                      /\ \A u \in DependsOn[m] : ~Left(ops, u, "markStale")
    BY DEF MovedAreSound
  <2>1. m \in Items
    BY <1>1
  <2>2. CASE s[m] \in Working
    <3>1. /\ Queue!UpstreamsDone(s, m)
          /\ \A u \in DependsOn[m] : ~Left(ops, u, "markStale")
      BY <2>2 DEF CascadeInv, MovedAreSound
    <3> QED BY <1>2, <2>1, <3>1, EdgeType DEF Queue!UpstreamsDone
  <2>3. CASE s[m] \notin Working
    <3>1. i \in DependsOn[m]
      BY <2>1, <2>3, SettlesChange
    <3>2. \A u \in DependsOn[m] : u = i
      BY <2>1, <3>1 DEF Forest, OneUpstream
    <3>3. ~Left(ops, i, "markStale")
      <4> SUFFICES ASSUME Left(ops, i, "markStale") PROVE FALSE
        OBVIOUS
      <4>1. PICK k \in DOMAIN ops : ops[k] = [move |-> "markStale", item |-> i]
        BY DEF Left
      <4> QED BY <4>1 DEF CascadeInv, StatusesFit, Repudiations
    <3> QED BY <1>1, <3>2, <3>3 DEF Queue!UpstreamsDone
  <2> QED BY <2>2, <2>3
<1> QED BY <1>4, <1>5, <1>6, <1>7 DEF CascadeInv

-----------------------------------------------------------------------------
(* The moves of a cascade, one after the other.                            *)
LEMMA DemoteStep ==
  ASSUME Forest, NEW s, NEW t, NEW ops, ops # <<>>, NEW p, NEW later,
         UnderWay(s, ops, p, later), Head(ops).move = "demote",
         NEW x, x = Head(ops).item, Changes(s, t, x),
         s[x] \in {"ready", "stale"}, t[x] = "pending"
  PROVE  /\ Sound(t, Tail(ops), p, later)
         /\ Excused(s, ops, p, later) => Excused(t, Tail(ops), p, later)
<1> DEFINE rest == Tail(ops)
           c == p.dirty
<1>1. /\ ops \in Seq(Op) /\ OpsShape(ops, p) /\ CascadeInv(s, ops, p)
      /\ p \in Plan /\ SoundPlan(s, p)
      /\ ExposedAreAnchored(s, ops) /\ ExposedAreCovered(s, ops, later \cup {c})
  BY DEF UnderWay, Sound
<1>2. x # c /\ ~Rest(rest, x)
  BY <1>1, HeadShape
<1>3. /\ x \in Listed(p) /\ x \in Items /\ Hangs(s, c, x) /\ c \in Items
      /\ Listed(p) \subseteq Items
  BY <1>1, <1>2, HeadHangs, PlanFacts
<1>4. \A i, name : /\ Left(rest, i, name) => Left(ops, i, name) /\ i # x
                   /\ name # "demote" /\ Left(ops, i, name) => Left(rest, i, name)
                   /\ i # x /\ Left(ops, i, name) => Left(rest, i, name)
                   /\ i # x => (Rest(ops, i) <=> Rest(rest, i))
  BY <1>1, <1>2, TailLeaves, LeftIsRest
<1>5. \A k \in DOMAIN rest : k + 1 \in DOMAIN ops /\ rest[k] = ops[k + 1] /\ rest[k].item # x
                             /\ rest[k].item \in Items
  BY <1>1, <1>2, TailAt, OpsType DEF Rest
<1>6. /\ Steady(s, t)
      /\ \A j \in Items : (s[j] \in Off => t[j] \in Off) /\ (s[j] = "done" <=> t[j] = "done")
      /\ \A j \in Items : t[j] \in Off => j = x \/ (s[j] \in Off /\ j # x)
      /\ \A j \in Items : t[j] \in Working => s[j] \in Working /\ j # x
  BY EdgeType DEF Steady, Inner, Changes, Off, Working
<1> HIDE DEF rest, c
<1>7. \A n \in Items : Exposed(t, rest, n) => Exposed(s, ops, n)
  BY <1>4, <1>6 DEF Exposed
<1>8. ExposedAreAnchored(t, rest) /\ ExposedAreCovered(t, rest, later \cup {c})
  BY <1>1, <1>6, <1>7, SteadyAnchored, SteadyCovered
<1>9. StatusesFit(t, rest)
  BY <1>1, <1>5 DEF CascadeInv, StatusesFit, Changes
<1>10. PathsAreMoved(t, rest, p)
  <2> SUFFICES ASSUME NEW m \in Listed(p), Rest(rest, m), NEW b \in Between(c, m),
                      t[b] \notin Off, ~Rest(rest, b)
               PROVE  \E v \in Between(c, b) : t[v] = "done" /\ Left(rest, v, "demote")
    BY DEF PathsAreMoved, c
  <2>1. b \in Items /\ Between(c, b) \subseteq Items /\ m # x
    BY <1>2, <1>3, BetweenType
  <2>2. b # x /\ Rest(ops, m) /\ ~Rest(ops, b) /\ s[b] \notin Off
    BY <1>4, <1>6, <2>1 DEF Changes, Off
  <2>3. PICK v \in Between(c, b) : s[v] = "done" /\ Left(ops, v, "demote")
    BY <1>1, <2>2 DEF CascadeInv, PathsAreMoved, c
  <2>4. v # x /\ t[v] = "done"
    BY <1>6, <2>1, <2>3
  <2> QED BY <1>4, <2>3, <2>4
<1>11. DirtyIsLast(t, rest, p)
  <2> SUFFICES ASSUME NEW k \in DOMAIN rest, rest[k].item # c
               PROVE  \/ t[c] = "done" /\ Left(rest, c, "markStale")
                      \/ t[c] \in Off /\ Anchored(t, c)
    BY DEF DirtyIsLast, c
  <2>1. \/ s[c] = "done" /\ Left(ops, c, "markStale")
        \/ s[c] \in Off /\ Anchored(s, c)
    BY <1>1, <1>5 DEF CascadeInv, DirtyIsLast, c
  <2> QED BY <1>3, <1>4, <1>6, <2>1, SteadyHangs
<1>12. MovedAreSound(t, rest, p)
  <2> SUFFICES ASSUME NEW m \in Listed(p), ~Rest(rest, m), t[m] \in Working
               PROVE  /\ Queue!UpstreamsDone(t, m)
                      /\ \A u \in DependsOn[m] : ~Left(rest, u, "markStale")
    BY DEF MovedAreSound
  <2>1. m \in Items /\ m # x /\ s[m] \in Working /\ ~Rest(ops, m)
    BY <1>3, <1>4, <1>6
  <2>2. /\ Queue!UpstreamsDone(s, m)
        /\ \A u \in DependsOn[m] : ~Left(ops, u, "markStale")
    BY <1>1, <2>1 DEF CascadeInv, MovedAreSound
  <2> QED BY <1>4, <1>6, <2>1, <2>2, SteadyHangs
<1>13. Sound(t, rest, p, later)
  BY <1>8, <1>9, <1>10, <1>11, <1>12 DEF Sound, CascadeInv, c
<1>14. ASSUME Excused(s, ops, p, later) PROVE Excused(t, rest, p, later)
  <2> SUFFICES ASSUME NEW n \in Items, t[n] \in Off, Queue!UpstreamsDone(t, n)
               PROVE  DependsOn[n] \cap Reruns(later, rest, p) # {}
    BY DEF Excused, WaitsAreExcused
  <2>1. Queue!UpstreamsDone(s, n)
    BY <1>6, SteadyHangs
  <2>2. Reruns(later, ops, p) \subseteq Reruns(later, rest, p)
    BY <1>4 DEF Reruns
  <2>3. CASE n = x
    <3>1. c \in DependsOn[x] /\ Left(ops, c, "markStale")
      BY <1>2, <2>1, <2>3, HeadIsExcused DEF c
    <3>2. c \in Reruns(later, rest, p)
      BY <1>4, <3>1 DEF Reruns, c
    <3> QED BY <2>3, <3>1, <3>2
  <2>4. CASE n # x
    <3>1. s[n] \in Off
      BY <1>6, <2>4
    <3>2. ops # <<[move |-> "revive", item |-> n]>>
      <4> SUFFICES ASSUME ops = <<[move |-> "revive", item |-> n]>> PROVE FALSE
        OBVIOUS
      <4>1. Head(ops).move = "revive"
        OBVIOUS
      <4> QED BY <4>1
    <3>3. DependsOn[n] \cap Reruns(later, ops, p) # {}
      BY <1>14, <2>1, <3>1, <3>2 DEF Excused, WaitsAreExcused
    <3> QED BY <2>2, <3>3
  <2> QED BY <2>3, <2>4
<1> QED BY <1>13, <1>14 DEF rest

LEMMA RevokeStep ==
  ASSUME Forest, NEW s, NEW t, NEW ops, ops # <<>>, NEW p, NEW later,
         UnderWay(s, ops, p, later), Head(ops).move = "revokeLease",
         NEW x, x = Head(ops).item, x \in Items, Changes(s, t, x),
         s[x] # "done", t[x] = "ready"
  PROVE  /\ Sound(t, Tail(ops), p, later)
         /\ Excused(s, ops, p, later) => Excused(t, Tail(ops), p, later)
<1> DEFINE rest == Tail(ops)
           c == p.dirty
<1>1. /\ ops \in Seq(Op) /\ OpsShape(ops, p) /\ CascadeInv(s, ops, p)
      /\ p \in Plan /\ SoundPlan(s, p)
      /\ ExposedAreAnchored(s, ops) /\ ExposedAreCovered(s, ops, later \cup {c})
  BY DEF UnderWay, Sound
<1>2. /\ x # c => x \in Listed(p) /\ Left(rest, x, "demote")
      /\ x = c => \A k \in DOMAIN rest : rest[k].item = c
      /\ \A name \in Repudiations : ~Left(rest, x, name)
  <2>1. x = Head(ops).item /\ rest = Tail(ops)
    OBVIOUS
  <2> HIDE DEF rest
  <2>2. /\ x # p.dirty => x \in Listed(p)
        /\ x = p.dirty => \A k \in DOMAIN rest : rest[k].item = p.dirty
    BY <1>1, <2>1, HeadOrder
  <2>3. /\ x # p.dirty => Left(rest, x, "demote")
        /\ \A name \in Repudiations : ~Left(rest, x, name)
    BY <1>1, <2>1, HeadShape
  <2> QED BY <2>2, <2>3
<1>3. c \in Items /\ Listed(p) \subseteq Items /\ c \notin Listed(p)
      /\ \A m \in Listed(p) : c \in Above(m)
  BY <1>1, PlanFacts
<1>4. \A i, name : /\ Left(rest, i, name) => Left(ops, i, name)
                   /\ name # "revokeLease" /\ Left(ops, i, name) => Left(rest, i, name)
                   /\ Rest(rest, i) => Rest(ops, i)
                   /\ i # x => (Rest(ops, i) <=> Rest(rest, i))
  BY <1>1, TailLeaves
<1>5. \A k \in DOMAIN rest :
        /\ k + 1 \in DOMAIN ops /\ rest[k] = ops[k + 1] /\ rest[k].item \in Items
        /\ rest[k].item = x => rest[k].move \notin Repudiations
  <2> SUFFICES ASSUME NEW k \in DOMAIN rest
               PROVE  /\ k + 1 \in DOMAIN ops /\ rest[k] = ops[k + 1] /\ rest[k].item \in Items
                      /\ rest[k].item = x => rest[k].move \notin Repudiations
    OBVIOUS
  <2>1. k + 1 \in DOMAIN ops /\ rest[k] = ops[k + 1] /\ rest \in Seq(Op)
    BY <1>1, TailAt
  <2> HIDE DEF rest
  <2> QED BY <1>2, <2>1, OpsType DEF Left
<1>6. Left(ops, x, "revokeLease") /\ s[x] \notin Off
  <2>1. 1 \in DOMAIN ops /\ ops[1] = [move |-> "revokeLease", item |-> x]
    BY <1>1, TailAt, OpsType
  <2> QED BY <1>1, <2>1 DEF Left, CascadeInv, StatusesFit
<1>7. /\ Steady(s, t)
      /\ \A j \in Items : (s[j] \in Off <=> t[j] \in Off) /\ (s[j] = "done" <=> t[j] = "done")
      /\ \A j \in Items : t[j] \in Working => s[j] \in Working \/ j = x
  BY <1>6, EdgeType DEF Steady, Inner, Changes, Off, Working
<1> HIDE DEF rest, c
<1>8. \A n \in Items : Exposed(t, rest, n) => Exposed(s, ops, n)
  BY <1>4, <1>6, <1>7 DEF Exposed
<1>9. ExposedAreAnchored(t, rest) /\ ExposedAreCovered(t, rest, later \cup {c})
  BY <1>1, <1>7, <1>8, SteadyAnchored, SteadyCovered
<1>10. StatusesFit(t, rest)
  <2> SUFFICES ASSUME NEW k \in DOMAIN rest
               PROVE  /\ rest[k].move \in Repudiations => t[rest[k].item] \in Finished
                      /\ rest[k].move = "revokeLease" => t[rest[k].item] \notin Off
    BY DEF StatusesFit
  <2>1. /\ k + 1 \in DOMAIN ops /\ rest[k] = ops[k + 1] /\ rest[k].item \in Items
        /\ rest[k].item = x => rest[k].move \notin Repudiations
    BY <1>5
  <2>2. /\ ops[k + 1].move \in Repudiations => s[ops[k + 1].item] \in Finished
        /\ ops[k + 1].move = "revokeLease" => s[ops[k + 1].item] \notin Off
    BY <1>1, <2>1 DEF CascadeInv, StatusesFit
  <2> QED BY <1>7, <2>1, <2>2 DEF Changes
<1>11. PathsAreMoved(t, rest, p)
  <2> SUFFICES ASSUME NEW m \in Listed(p), Rest(rest, m), NEW b \in Between(c, m),
                      t[b] \notin Off, ~Rest(rest, b)
               PROVE  \E v \in Between(c, b) : t[v] = "done" /\ Left(rest, v, "demote")
    BY DEF PathsAreMoved, c
  <2>1. b \in Items /\ Between(c, b) \subseteq Items /\ c \in Above(b)
    BY <1>3, BetweenType DEF Between
  <2>2. b # x
    <3> SUFFICES ASSUME b = x PROVE FALSE
      OBVIOUS
    <3>1. x # c
      BY <2>1, AboveAcyclic
    <3> QED BY <1>2, <3>1, LeftIsRest
  <2>3. Rest(ops, m) /\ ~Rest(ops, b) /\ s[b] \notin Off
    BY <1>4, <1>7, <2>1, <2>2
  <2>4. PICK v \in Between(c, b) : s[v] = "done" /\ Left(ops, v, "demote")
    BY <1>1, <2>3 DEF CascadeInv, PathsAreMoved, c
  <2> QED BY <1>4, <1>7, <2>1, <2>4
<1>12. DirtyIsLast(t, rest, p)
  <2> SUFFICES ASSUME NEW k \in DOMAIN rest, rest[k].item # c
               PROVE  \/ t[c] = "done" /\ Left(rest, c, "markStale")
                      \/ t[c] \in Off /\ Anchored(t, c)
    BY DEF DirtyIsLast, c
  <2>1. \/ s[c] = "done" /\ Left(ops, c, "markStale")
        \/ s[c] \in Off /\ Anchored(s, c)
    BY <1>1, <1>5 DEF CascadeInv, DirtyIsLast, c
  <2> QED BY <1>3, <1>4, <1>7, <2>1, SteadyHangs
<1>13. MovedAreSound(t, rest, p)
  <2> SUFFICES ASSUME NEW m \in Listed(p), ~Rest(rest, m), t[m] \in Working
               PROVE  /\ Queue!UpstreamsDone(t, m)
                      /\ \A u \in DependsOn[m] : ~Left(rest, u, "markStale")
    BY DEF MovedAreSound
  <2>1. m # x
    BY <1>2, <1>3, LeftIsRest
  <2>2. m \in Items /\ s[m] \in Working /\ ~Rest(ops, m)
    BY <1>3, <1>4, <1>7, <2>1
  <2>3. /\ Queue!UpstreamsDone(s, m)
        /\ \A u \in DependsOn[m] : ~Left(ops, u, "markStale")
    BY <1>1, <2>2 DEF CascadeInv, MovedAreSound
  <2> QED BY <1>4, <1>7, <2>2, <2>3, SteadyHangs
<1>14. Sound(t, rest, p, later)
  BY <1>9, <1>10, <1>11, <1>12, <1>13 DEF Sound, CascadeInv, c
<1>15. Excused(s, ops, p, later) => Excused(t, rest, p, later)
  <2>1. Reruns(later, ops, p) \subseteq Reruns(later, rest, p)
    BY <1>4 DEF Reruns
  <2>2. \A n \in Items : ops # <<[move |-> "revive", item |-> n]>>
    <3> SUFFICES ASSUME NEW n \in Items, ops = <<[move |-> "revive", item |-> n]>> PROVE FALSE
      OBVIOUS
    <3>1. Head(ops).move = "revive"
      OBVIOUS
    <3> QED BY <3>1
  <2> QED BY <1>7, <2>1, <2>2, SteadyExcused DEF Excused
<1> QED BY <1>14, <1>15 DEF rest

LEMMA OnlyRevive ==
  ASSUME NEW ops, Head(ops).move # "revive", NEW n
  PROVE  ops # <<[move |-> "revive", item |-> n]>>
<1> SUFFICES ASSUME ops = <<[move |-> "revive", item |-> n]>> PROVE FALSE
  OBVIOUS
<1>1. Head(ops).move = "revive"
  OBVIOUS
<1> QED BY <1>1

LEMMA SupersedeStep ==
  ASSUME Forest, NEW s, NEW ops, ops # <<>>, NEW p, NEW later,
         UnderWay(s, ops, p, later), Head(ops).move \in Still
  PROVE  /\ Sound(s, Tail(ops), p, later)
         /\ Excused(s, ops, p, later) => Excused(s, Tail(ops), p, later)
<1> DEFINE rest == Tail(ops)
           c == p.dirty
           x == Head(ops).item
<1>1. /\ ops \in Seq(Op) /\ OpsShape(ops, p) /\ CascadeInv(s, ops, p)
      /\ p \in Plan /\ SoundPlan(s, p)
      /\ ExposedAreAnchored(s, ops) /\ ExposedAreCovered(s, ops, later \cup {c})
  BY DEF UnderWay, Sound
<1>2. Left(rest, x, "markStale")
  BY <1>1, HeadShape
<1>3. \A i, name : /\ Left(rest, i, name) => Left(ops, i, name)
                   /\ name \notin Still /\ Left(ops, i, name) => Left(rest, i, name)
                   /\ Rest(ops, i) <=> Rest(rest, i)
  BY <1>1, <1>2, TailLeaves, LeftIsRest
<1>4. \A k \in DOMAIN rest : k + 1 \in DOMAIN ops /\ rest[k] = ops[k + 1]
  BY <1>1, TailAt
<1>5. Steady(s, s) /\ \A n \in Items : Exposed(s, rest, n) => Exposed(s, ops, n)
  BY <1>3 DEF Steady, Exposed
<1> HIDE DEF rest, c, x
<1>6. ExposedAreAnchored(s, rest) /\ ExposedAreCovered(s, rest, later \cup {c})
  BY <1>1, <1>5, SteadyAnchored, SteadyCovered
<1>7. StatusesFit(s, rest)
  BY <1>1, <1>4 DEF CascadeInv, StatusesFit
<1>8. PathsAreMoved(s, rest, p)
  BY <1>1, <1>3 DEF CascadeInv, PathsAreMoved, Still
<1>9. DirtyIsLast(s, rest, p)
  BY <1>1, <1>3, <1>4 DEF CascadeInv, DirtyIsLast, Still
<1>10. MovedAreSound(s, rest, p)
  BY <1>1, <1>3 DEF CascadeInv, MovedAreSound
<1>11. Reruns(later, ops, p) \subseteq Reruns(later, rest, p)
  BY <1>3 DEF Reruns, Still
<1>12. Excused(s, ops, p, later) => Excused(s, rest, p, later)
  BY <1>5, <1>11, OnlyRevive, SteadyExcused DEF Excused, Still
<1> QED BY <1>6, <1>7, <1>8, <1>9, <1>10, <1>12 DEF Sound, CascadeInv, c, rest

(* A node is marked stale: what hung on it, or was anchored by it, hangs   *)
(* on the dirty node.                                                      *)
LEMMA MarkStep ==
  ASSUME Forest, NEW s, NEW t, NEW ops, ops # <<>>, NEW p, NEW later,
         UnderWay(s, ops, p, later), Head(ops).move = "markStale",
         NEW x, x = Head(ops).item, x # p.dirty, Changes(s, t, x), t[x] = "stale"
  PROVE  /\ Sound(t, Tail(ops), p, later)
         /\ Excused(s, ops, p, later) => Excused(t, Tail(ops), p, later)
<1> DEFINE rest == Tail(ops)
           c == p.dirty
<1>1. /\ ops \in Seq(Op) /\ OpsShape(ops, p) /\ CascadeInv(s, ops, p)
      /\ p \in Plan /\ SoundPlan(s, p)
      /\ ExposedAreAnchored(s, ops) /\ ExposedAreCovered(s, ops, later \cup {c})
  BY DEF UnderWay, Sound
<1>2. ~Rest(rest, x)
  BY <1>1, HeadShape
<1>3. /\ x \in Listed(p) /\ x \in Items /\ Hangs(s, c, x)
      /\ \/ s[c] = "done" /\ Left(ops, c, "markStale")
         \/ s[c] \in Off /\ Anchored(s, c)
  BY HeadHangs
<1>4. c \in Items /\ Listed(p) \subseteq Items /\ x # c
  BY <1>1, PlanFacts
<1>5. \A i, name : /\ Left(rest, i, name) => Left(ops, i, name) /\ i # x
                   /\ i # x /\ Left(ops, i, name) => Left(rest, i, name)
                   /\ i # x => (Rest(ops, i) <=> Rest(rest, i))
  BY <1>1, <1>2, TailLeaves, LeftIsRest
<1>6. \A k \in DOMAIN rest : k + 1 \in DOMAIN ops /\ rest[k] = ops[k + 1] /\ rest[k].item # x
                             /\ rest[k].item \in Items
  BY <1>1, <1>2, TailAt, OpsType DEF Rest
<1>7. Left(ops, x, "markStale") /\ ~Left(ops, x, "demote")
  <2>1. 1 \in DOMAIN ops /\ ops[1] = [move |-> "markStale", item |-> x]
    BY <1>1, TailAt, OpsType
  <2>2. Left(ops, x, "markStale")
    BY <2>1 DEF Left
  <2>3. ~Left(ops, x, "demote")
    BY <1>1, <2>1 DEF Left, OpsShape, Alternatives, Repudiations
  <2> QED BY <2>2, <2>3
<1>8. /\ \A j \in Items : s[j] \in Off => t[j] \in Off
      /\ \A j \in Items : t[j] = "done" => s[j] = "done"
      /\ \A j \in Items : s[j] = "done" /\ j # x => t[j] = "done"
      /\ \A j \in Items : t[j] \in Off /\ j # x => s[j] \in Off
      /\ \A j \in Items : t[j] \in Working => s[j] \in Working /\ j # x
      /\ t[x] \in Off
  BY DEF Changes, Off, Working
<1> HIDE DEF rest, c
<1>9. ASSUME NEW n \in Items, NEW a, Hangs(s, a, n) PROVE Hangs(t, a, n)
  BY <1>8, <1>9, BetweenType DEF Hangs
<1>10. ASSUME NEW n \in Items, Hangs(s, x, n) PROVE Hangs(t, c, n)
  BY <1>3, <1>8, <1>9, <1>10, HangsJoined
<1>11. \A n \in Items : Exposed(t, rest, n) => Exposed(s, ops, n) /\ n # x
  BY <1>5, <1>8 DEF Exposed
<1>12. ASSUME NEW n \in Items, Anchored(s, n) PROVE Anchored(t, n)
  <2>1. PICK r \in Above(n) : s[r] = "done" /\ Hangs(s, r, n)
    BY <1>12 DEF Anchored
  <2>2. r \in Items
    BY <2>1, AboveHolds
  <2>3. CASE r # x
    BY <1>8, <1>9, <2>1, <2>2, <2>3 DEF Anchored
  <2>4. CASE r = x
    <3>1. Hangs(t, c, n)
      BY <1>10, <2>1, <2>4
    <3>2. CASE s[c] = "done"
      BY <1>4, <1>8, <3>1, <3>2 DEF Anchored, Hangs
    <3>3. CASE s[c] \in Off /\ Anchored(s, c)
      <4>1. PICK q \in Above(c) : s[q] = "done" /\ Hangs(s, q, c)
        BY <3>3 DEF Anchored
      <4>2. q \in Items /\ q # x
        BY <1>3, <1>4, <4>1, AboveHolds, AboveAcyclic DEF Hangs
      <4>3. Hangs(t, q, n) /\ t[q] = "done"
        BY <1>4, <1>8, <1>9, <3>1, <3>3, <4>1, <4>2, HangsJoined
      <4> QED BY <4>3 DEF Anchored, Hangs
    <3> QED BY <1>3, <3>2, <3>3
  <2> QED BY <2>3, <2>4
<1>13. ExposedAreAnchored(t, rest)
  BY <1>1, <1>11, <1>12 DEF ExposedAreAnchored
<1>14. ExposedAreCovered(t, rest, later \cup {c})
  <2> SUFFICES ASSUME NEW n \in Items, Exposed(t, rest, n), ~Queue!UpstreamsDone(t, n)
               PROVE  \E a \in later \cup {c} : Hangs(t, a, n)
    BY DEF ExposedAreCovered
  <2>1. CASE ~Queue!UpstreamsDone(s, n)
    BY <1>1, <1>9, <1>11, <2>1 DEF ExposedAreCovered
  <2>2. CASE Queue!UpstreamsDone(s, n)
    <3>1. PICK u \in DependsOn[n] : t[u] # "done" /\ s[u] = "done" /\ u \in Items
      BY <2>2, EdgeType DEF Queue!UpstreamsDone
    <3>2. u = x
      BY <1>8, <3>1
    <3>3. Hangs(s, x, n)
      BY <3>1, <3>2, HangsUpstream
    <3> QED BY <1>10, <3>3
  <2> QED BY <2>1, <2>2
<1>15. StatusesFit(t, rest)
  BY <1>1, <1>6 DEF CascadeInv, StatusesFit, Changes
<1>16. PathsAreMoved(t, rest, p)
  <2> SUFFICES ASSUME NEW m \in Listed(p), Rest(rest, m), NEW b \in Between(c, m),
                      t[b] \notin Off, ~Rest(rest, b)
               PROVE  \E v \in Between(c, b) : t[v] = "done" /\ Left(rest, v, "demote")
    BY DEF PathsAreMoved, c
  <2>1. b \in Items /\ Between(c, b) \subseteq Items /\ m # x
    BY <1>2, <1>4, BetweenType
  <2>2. b # x /\ Rest(ops, m) /\ ~Rest(ops, b) /\ s[b] \notin Off
    BY <1>5, <1>8, <2>1
  <2>3. PICK v \in Between(c, b) : s[v] = "done" /\ Left(ops, v, "demote")
    BY <1>1, <2>2 DEF CascadeInv, PathsAreMoved, c
  <2>4. v # x /\ t[v] = "done"
    BY <1>7, <1>8, <2>1, <2>3
  <2> QED BY <1>5, <2>3, <2>4
<1>17. DirtyIsLast(t, rest, p)
  BY <1>3, <1>4, <1>5, <1>8, <1>12 DEF DirtyIsLast, c
<1>18. MovedAreSound(t, rest, p)
  <2> SUFFICES ASSUME NEW m \in Listed(p), ~Rest(rest, m), t[m] \in Working
               PROVE  /\ Queue!UpstreamsDone(t, m)
                      /\ \A u \in DependsOn[m] : ~Left(rest, u, "markStale")
    BY DEF MovedAreSound
  <2>1. m \in Items /\ m # x /\ s[m] \in Working /\ ~Rest(ops, m)
    BY <1>4, <1>5, <1>8
  <2>2. /\ Queue!UpstreamsDone(s, m)
        /\ \A u \in DependsOn[m] : ~Left(ops, u, "markStale")
    BY <1>1, <2>1 DEF CascadeInv, MovedAreSound
  <2>3. \A u \in DependsOn[m] : u # x /\ u \in Items /\ s[u] = "done"
    BY <1>7, <2>1, <2>2, EdgeType DEF Queue!UpstreamsDone
  <2> QED BY <1>5, <1>8, <2>2, <2>3 DEF Queue!UpstreamsDone
<1>19. Sound(t, rest, p, later)
  BY <1>13, <1>14, <1>15, <1>16, <1>17, <1>18 DEF Sound, CascadeInv, c
<1>20. ASSUME Excused(s, ops, p, later) PROVE Excused(t, rest, p, later)
  <2> SUFFICES ASSUME NEW n \in Items, t[n] \in Off, Queue!UpstreamsDone(t, n)
               PROVE  DependsOn[n] \cap Reruns(later, rest, p) # {}
    BY DEF Excused, WaitsAreExcused
  <2>1. Queue!UpstreamsDone(s, n)
    BY <1>8, EdgeType DEF Queue!UpstreamsDone
  <2>2. Reruns(later, ops, p) \subseteq Reruns(later, rest, p)
    BY <1>4, <1>5 DEF Reruns, c
  <2>3. CASE n = x
    <3>1. c \in DependsOn[x] /\ Left(ops, c, "markStale")
      BY <1>4, <2>1, <2>3, HeadIsExcused DEF c
    <3>2. c \in Reruns(later, rest, p)
      BY <1>4, <1>5, <3>1 DEF Reruns, c
    <3> QED BY <2>3, <3>1, <3>2
  <2>4. CASE n # x
    <3>1. s[n] \in Off
      BY <1>8, <2>4
    <3>2. DependsOn[n] \cap Reruns(later, ops, p) # {}
      BY <1>20, <2>1, <3>1, OnlyRevive DEF Excused, WaitsAreExcused
    <3> QED BY <2>2, <3>2
  <2> QED BY <2>3, <2>4
<1> QED BY <1>19, <1>20 DEF rest

(* The last two moves of a cascade that reruns its dirty node.             *)
LEMMA OnlyMove ==
  ASSUME NEW o, NEW ops, ops = <<o>>
  PROVE  \A k \in DOMAIN ops : ops[k] = o
OBVIOUS

LEMMA HeadMark ==
  ASSUME NEW ops \in Seq(Op), ops # <<>>, NEW p, OpsShape(ops, p),
         Head(ops).move = "markStale", Head(ops).item = p.dirty
  PROVE  /\ Tail(ops) = <<[move |-> "revive", item |-> p.dirty]>>
         /\ \A k \in DOMAIN Tail(ops) : Tail(ops)[k] = [move |-> "revive", item |-> p.dirty]
         /\ \A k \in DOMAIN ops : ops[k].item = p.dirty
         /\ Left(ops, p.dirty, "markStale")
<1> DEFINE x == Head(ops).item
           rest == Tail(ops)
<1>1. rest = <<[move |-> "revive", item |-> x]>>
  <2>1. /\ rest \in Seq(Op) /\ Len(rest) = Len(ops) - 1 /\ 1 \in DOMAIN ops
        /\ Head(ops) = ops[1] /\ Len(ops) \in Nat
        /\ \A k \in DOMAIN rest : rest[k] = ops[k + 1]
    BY TailAt
  <2>2. 1 + 1 = Len(ops) /\ ops[1 + 1] = [move |-> "revive", item |-> x]
    BY <2>1 DEF OpsShape, InPairs
  <2> HIDE DEF rest, x
  <2>3. Len(rest) = 1 /\ 1 \in DOMAIN rest
    BY <2>1, <2>2
  <2>4. rest[1] = ops[1 + 1]
    BY <2>1, <2>3
  <2> QED BY <2>1, <2>2, <2>3, <2>4, OneMove
<1>2. \A k \in DOMAIN rest : rest[k] = [move |-> "revive", item |-> x]
  <2> HIDE DEF x, rest
  <2> QED BY <1>1, OnlyMove
<1>3. \A k \in DOMAIN ops : k # 1 => k - 1 \in DOMAIN rest /\ rest[k - 1] = ops[k]
  BY TailAt
<1>4. 1 \in DOMAIN ops /\ Head(ops) = ops[1] /\ x = p.dirty
  BY TailAt
<1>5. \A k \in DOMAIN ops : ops[k].item = p.dirty
  <2> SUFFICES ASSUME NEW k \in DOMAIN ops, k # 1 PROVE ops[k].item = p.dirty
    BY <1>4
  <2>1. ops[k] = [move |-> "revive", item |-> x]
    <3> HIDE DEF x, rest
    <3> QED BY <1>2, <1>3
  <2> QED BY <1>4, <2>1
<1>6. Left(ops, p.dirty, "markStale")
  <2>1. ops[1] = [move |-> "markStale", item |-> p.dirty]
    BY <1>4, OpsType
  <2> QED BY <1>4, <2>1 DEF Left
<1> QED BY <1>1, <1>2, <1>4, <1>5, <1>6

LEMMA HeadRevive ==
  ASSUME NEW ops \in Seq(Op), ops # <<>>, NEW p, OpsShape(ops, p), Head(ops).move = "revive"
  PROVE  /\ Tail(ops) = <<>> /\ Head(ops).item = p.dirty
         /\ \A k \in DOMAIN ops : ops[k].item = p.dirty /\ ops[k].move = "revive"
<1> DEFINE x == Head(ops).item
           rest == Tail(ops)
<1>1. rest = <<>> /\ x = p.dirty
  <2>1. x = Head(ops).item /\ rest = Tail(ops)
    OBVIOUS
  <2> HIDE DEF x, rest
  <2> QED BY <2>1, HeadShape
<1>2. \A k \in DOMAIN ops : k # 1 => k - 1 \in DOMAIN rest
  BY TailAt
<1>3. Head(ops) = ops[1]
  BY TailAt
<1> QED BY <1>1, <1>2, <1>3

(* The dirty node is marked stale: nothing that works hangs on it.         *)
LEMMA MarkDirtyStep ==
  ASSUME Forest, NEW s, NEW t, NEW ops, ops # <<>>, NEW p, NEW later,
         UnderWay(s, ops, p, later), Head(ops).move = "markStale",
         Head(ops).item = p.dirty, Changes(s, t, p.dirty), t[p.dirty] = "stale"
  PROVE  /\ Sound(t, Tail(ops), p, later)
         /\ Excused(s, ops, p, later) => Excused(t, Tail(ops), p, later)
<1> DEFINE rest == Tail(ops)
           c == p.dirty
<1>1. /\ ops \in Seq(Op) /\ OpsShape(ops, p) /\ CascadeInv(s, ops, p)
      /\ p \in Plan /\ SoundPlan(s, p)
      /\ ExposedAreAnchored(s, ops) /\ ExposedAreCovered(s, ops, later \cup {c})
  BY DEF UnderWay, Sound
<1>2. /\ rest = <<[move |-> "revive", item |-> c]>>
      /\ \A k \in DOMAIN rest : rest[k] = [move |-> "revive", item |-> c]
      /\ \A k \in DOMAIN ops : ops[k].item = c
      /\ Left(ops, c, "markStale")
  BY <1>1, HeadMark
<1>3. c \in Items /\ Listed(p) \subseteq Items /\ c \notin Listed(p)
  BY <1>1, PlanFacts
<1> HIDE DEF rest, c
<1>4. \A k \in DOMAIN ops : ops[k].item = c
  BY <1>2
<1>5. Left(ops, c, "markStale")
  BY <1>2
<1>6. \A i, name : Left(rest, i, name) => name = "revive"
  BY <1>2 DEF Left
<1>7. \A k \in DOMAIN rest : rest[k].move = "revive" /\ rest[k].item = c
  BY <1>2
<1>8. ASSUME NEW n \in Items, Hangs(s, c, n), s[n] \in Working PROVE FALSE
  BY <1>1, <1>4, <1>5, <1>8, HangingAreSound DEF CascadeInv, c
<1>9. /\ \A j \in Items : s[j] \in Off => t[j] \in Off
      /\ \A j \in Items : t[j] = "done" => s[j] = "done" /\ j # c
      /\ \A j \in Items : s[j] = "done" /\ j # c => t[j] = "done"
      /\ \A j \in Items : t[j] \in Off /\ j # c => s[j] \in Off
      /\ \A j \in Items : t[j] \in Working => s[j] \in Working /\ j # c
  BY DEF Changes, Off, Working, c
<1>10. ASSUME NEW n \in Items, NEW a, Hangs(s, a, n) PROVE Hangs(t, a, n)
  BY <1>9, <1>10, BetweenType DEF Hangs
<1>11. \A n \in Items : Exposed(t, rest, n) => Exposed(s, ops, n) /\ s[n] \in Working
  BY <1>6, <1>9 DEF Exposed
<1>12. ExposedAreAnchored(t, rest)
  <2> SUFFICES ASSUME NEW n \in Items, Exposed(t, rest, n), DependsOn[n] # {}
               PROVE  Anchored(t, n)
    BY DEF ExposedAreAnchored
  <2>1. PICK r \in Above(n) : s[r] = "done" /\ Hangs(s, r, n)
    BY <1>1, <1>11 DEF ExposedAreAnchored, Anchored
  <2>2. r \in Items /\ r # c
    BY <1>8, <1>11, <2>1, AboveHolds
  <2> QED BY <1>9, <1>10, <2>1, <2>2 DEF Anchored
<1>13. ExposedAreCovered(t, rest, later \cup {c})
  <2> SUFFICES ASSUME NEW n \in Items, Exposed(t, rest, n), ~Queue!UpstreamsDone(t, n)
               PROVE  \E a \in later \cup {c} : Hangs(t, a, n)
    BY DEF ExposedAreCovered
  <2>1. c \notin DependsOn[n]
    BY <1>8, <1>11, HangsUpstream
  <2>2. ~Queue!UpstreamsDone(s, n)
    BY <1>9, <2>1, EdgeType DEF Queue!UpstreamsDone
  <2> QED BY <1>1, <1>10, <1>11, <2>2 DEF ExposedAreCovered
<1>14. StatusesFit(t, rest)
  BY <1>7 DEF StatusesFit, Repudiations, Still
<1>15. PathsAreMoved(t, rest, p)
  BY <1>3, <1>7 DEF PathsAreMoved, Rest
<1>16. DirtyIsLast(t, rest, p)
  BY <1>7 DEF DirtyIsLast, c
<1>17. MovedAreSound(t, rest, p)
  <2> SUFFICES ASSUME NEW m \in Listed(p), t[m] \in Working
               PROVE  /\ Queue!UpstreamsDone(t, m)
                      /\ \A u \in DependsOn[m] : ~Left(rest, u, "markStale")
    BY DEF MovedAreSound
  <2>1. m \in Items /\ m # c /\ s[m] \in Working /\ ~Rest(ops, m)
    BY <1>3, <1>4, <1>9 DEF Rest
  <2>2. /\ Queue!UpstreamsDone(s, m)
        /\ \A u \in DependsOn[m] : ~Left(ops, u, "markStale")
    BY <1>1, <2>1 DEF CascadeInv, MovedAreSound
  <2>3. \A u \in DependsOn[m] : u # c /\ u \in Items /\ s[u] = "done"
    BY <1>5, <2>1, <2>2, EdgeType DEF Queue!UpstreamsDone
  <2> QED BY <1>6, <1>9, <2>3 DEF Queue!UpstreamsDone
<1>18. Sound(t, rest, p, later)
  BY <1>12, <1>13, <1>14, <1>15, <1>16, <1>17 DEF Sound, CascadeInv, c
<1>19. ASSUME Excused(s, ops, p, later) PROVE Excused(t, rest, p, later)
  <2> SUFFICES ASSUME NEW n \in Items, t[n] \in Off, Queue!UpstreamsDone(t, n), n # c
               PROVE  DependsOn[n] \cap Reruns(later, rest, p) # {}
    BY <1>2 DEF Excused, WaitsAreExcused
  <2>1. Queue!UpstreamsDone(s, n) /\ c \notin DependsOn[n] /\ s[n] \in Off
    BY <1>9, EdgeType DEF Queue!UpstreamsDone
  <2>2. DependsOn[n] \cap Reruns(later, ops, p) # {}
    BY <1>19, <2>1, OnlyRevive DEF Excused, WaitsAreExcused
  <2> QED BY <2>1, <2>2 DEF Reruns, c
<1> QED BY <1>18, <1>19 DEF rest

(* The dirty node is revived, or waits for its own upstream.               *)
LEMMA ReviveStep ==
  ASSUME Forest, NEW s, NEW t, NEW ops, ops # <<>>, NEW p, NEW later,
         UnderWay(s, ops, p, later), Head(ops).move = "revive",
         NEW x, x = Head(ops).item, Changes(s, t, x), s[x] # "done",
         t[x] = IF Queue!UpstreamsDone(s, x) THEN "ready" ELSE "pending"
  PROVE  /\ Sound(t, Tail(ops), p, later)
         /\ Excused(s, ops, p, later) => Excused(t, Tail(ops), p, later)
<1> DEFINE rest == Tail(ops)
           c == p.dirty
<1>1. /\ ops \in Seq(Op) /\ OpsShape(ops, p) /\ CascadeInv(s, ops, p)
      /\ p \in Plan /\ SoundPlan(s, p)
      /\ ExposedAreAnchored(s, ops) /\ ExposedAreCovered(s, ops, later \cup {c})
  BY DEF UnderWay, Sound
<1>2. rest = <<>> /\ x = c
  BY <1>1, HeadRevive
<1>3. c \in Items /\ Listed(p) \subseteq Items /\ c \notin Listed(p)
  BY <1>1, PlanFacts
<1>4. \A k \in DOMAIN ops : ops[k].item = c /\ ops[k].move = "revive"
  BY <1>1, HeadRevive
<1>5. \A i, name : ~Left(rest, i, name) /\ (Left(ops, i, name) => name = "revive")
  BY <1>2, <1>4 DEF Left
<1> HIDE DEF rest, c
<1>6. ASSUME NEW n \in Items, Hangs(s, c, n), s[n] \in Working PROVE FALSE
  BY <1>1, <1>2, <1>4, <1>6, HangingAreSound DEF CascadeInv, c
<1>7. /\ \A j \in Items : j # c => t[j] = s[j]
      /\ t[c] \in {"ready", "pending"} /\ (t[c] = "ready" <=> Queue!UpstreamsDone(s, c))
      /\ s[c] # "done" /\ t[c] # "done"
  BY <1>2 DEF Changes
<1>8. ASSUME NEW n \in Items, n # c, s[n] \in Working, NEW a, Hangs(s, a, n)
      PROVE  Hangs(t, a, n)
  <2>1. c \notin Between(a, n)
    BY <1>6, <1>8, HangsPart
  <2> QED BY <1>7, <1>8, <2>1, BetweenType DEF Hangs
<1>9. \A n \in Items : Queue!UpstreamsDone(s, n) <=> Queue!UpstreamsDone(t, n)
  BY <1>7, EdgeType DEF Queue!UpstreamsDone
<1>10. ExposedAreAnchored(t, rest)
  <2> SUFFICES ASSUME NEW n \in Items, t[n] \in Working, DependsOn[n] # {}
               PROVE  Anchored(t, n)
    BY <1>5 DEF ExposedAreAnchored, Exposed
  <2>1. CASE n = c
    <3>1. PICK u \in DependsOn[c] : t[u] = "done"
      BY <1>7, <1>9, <2>1 DEF Queue!UpstreamsDone, Working
    <3> QED BY <1>3, <2>1, <3>1, HangsUpstream DEF Anchored, Hangs
  <2>2. CASE n # c
    <3>1. s[n] \in Working
      BY <1>7, <2>2
    <3>2. PICK r \in Above(n) : s[r] = "done" /\ Hangs(s, r, n)
      BY <1>1, <3>1 DEF ExposedAreAnchored, Exposed, Anchored
    <3>3. r \in Items /\ t[r] = "done"
      BY <1>7, <3>2, AboveHolds
    <3> QED BY <1>8, <2>2, <3>1, <3>2, <3>3 DEF Anchored
  <2> QED BY <2>1, <2>2
<1>11. ExposedAreCovered(t, rest, later \cup {c})
  <2> SUFFICES ASSUME NEW n \in Items, t[n] \in Working, ~Queue!UpstreamsDone(t, n)
               PROVE  \E a \in later \cup {c} : Hangs(t, a, n)
    BY <1>5 DEF ExposedAreCovered, Exposed
  <2>1. n # c /\ s[n] \in Working /\ ~Queue!UpstreamsDone(s, n)
    BY <1>7, <1>9 DEF Working
  <2>2. PICK a \in later \cup {c} : Hangs(s, a, n)
    BY <1>1, <2>1 DEF ExposedAreCovered, Exposed
  <2> QED BY <1>8, <2>1, <2>2
<1>12. StatusesFit(t, rest) /\ PathsAreMoved(t, rest, p) /\ DirtyIsLast(t, rest, p)
  BY <1>2 DEF StatusesFit, PathsAreMoved, DirtyIsLast, Rest
<1>13. MovedAreSound(t, rest, p)
  <2> SUFFICES ASSUME NEW m \in Listed(p), t[m] \in Working PROVE Queue!UpstreamsDone(t, m)
    BY <1>5 DEF MovedAreSound
  <2>1. m \in Items /\ s[m] \in Working /\ ~Rest(ops, m)
    BY <1>3, <1>4, <1>7 DEF Rest
  <2> QED BY <1>1, <1>9, <2>1 DEF CascadeInv, MovedAreSound
<1>14. Sound(t, rest, p, later)
  BY <1>10, <1>11, <1>12, <1>13 DEF Sound, CascadeInv, c
<1>15. ASSUME Excused(s, ops, p, later) PROVE Excused(t, rest, p, later)
  <2> SUFFICES ASSUME NEW n \in Items, t[n] \in Off, Queue!UpstreamsDone(t, n)
               PROVE  DependsOn[n] \cap Reruns(later, rest, p) # {}
    BY DEF Excused, WaitsAreExcused
  <2>1. n # c /\ s[n] \in Off /\ Queue!UpstreamsDone(s, n)
    BY <1>7, <1>9 DEF Off
  <2>2. ops # <<[move |-> "revive", item |-> n]>>
    <3> SUFFICES ASSUME ops = <<[move |-> "revive", item |-> n]>> PROVE FALSE
      OBVIOUS
    <3>1. Head(ops).item = n
      OBVIOUS
    <3> QED BY <1>2, <2>1, <3>1
  <2>3. DependsOn[n] \cap Reruns(later, ops, p) # {}
    BY <1>15, <2>1, <2>2 DEF Excused, WaitsAreExcused
  <2> QED BY <1>5, <2>3 DEF Reruns
<1> QED BY <1>14, <1>15 DEF rest

-----------------------------------------------------------------------------
(* A cause is narrow when its cascade is executed unasked: few nodes cover *)
(* it.  Cancellations keep plans sound and causes narrow.                  *)
Narrow(s, c) == \E R \in SUBSET Items : c \in R /\ Cardinality(R) <= AutoMax /\ Covers(s, R)

Cancels(s, t) == \A x \in Items : s[x] = "cancelled" => t[x] = "cancelled"

LEMMA CancelsKeep ==
  ASSUME NEW s, NEW t, Cancels(s, t)
  PROVE  /\ \A R : Covers(s, R) => Covers(t, R)
         /\ \A p : SoundPlan(s, p) => SoundPlan(t, p)
         /\ \A c : Narrow(s, c) => Narrow(t, c)
<1>1. \A R : Covers(s, R) => Covers(t, R)
  BY DEF Covers, Cancels
<1>2. \A p : SoundPlan(s, p) => SoundPlan(t, p)
  BY <1>1 DEF SoundPlan
<1>3. \A c : Narrow(s, c) => Narrow(t, c)
  BY <1>1 DEF Narrow
<1> QED BY <1>1, <1>2, <1>3

LEMMA ListSize ==
  ASSUME NEW p \in Plan
  PROVE  /\ Listed(p) \subseteq Items /\ IsFiniteSet(Listed(p))
         /\ Len(p.affected) \in Nat /\ Cardinality(Listed(p)) <= Len(p.affected)
<1> DEFINE a == p.affected
           n == Len(a)
           S == Listed(p)
<1>1. a \in Seq(Items) /\ n \in Nat /\ DOMAIN a = 1..n /\ a \in [1..n -> Items]
  BY DEF Plan
<1>2. S = {a[k] : k \in 1..n}
  BY <1>1 DEF Listed
<1>3. S \subseteq Items
  BY <1>1, <1>2
<1> HIDE DEF a, n, S
<1>4. a \in [1..n -> S] /\ \A x \in S : \E k \in 1..n : a[k] = x
  BY <1>1, <1>2
<1>5. a \in Surjection(1..n, S)
  BY <1>4 DEF Surjection
<1>6. IsFiniteSet(1..n) /\ Cardinality(1..n) = n
  <2>1. 1 \in Int /\ n \in Int /\ (1 > n <=> n = 0) /\ n - 1 + 1 = n
    BY <1>1
  <2> QED BY <2>1, FS_Interval
<1>7. IsFiniteSet(S) /\ Cardinality(S) <= n
  BY <1>5, <1>6, FS_Surjection
<1> QED BY <1>1, <1>3, <1>7 DEF a, n, S

LEMMA PlanIsNarrow ==
  ASSUME NEW s, NEW p \in Plan, SoundPlan(s, p), 1 + Len(p.affected) <= AutoMax
  PROVE  Narrow(s, p.dirty)
<1> DEFINE R == Listed(p) \cup {p.dirty}
<1>1. /\ Listed(p) \subseteq Items /\ IsFiniteSet(Listed(p)) /\ p.dirty \in Items
      /\ Len(p.affected) \in Nat /\ Cardinality(Listed(p)) <= Len(p.affected)
  BY ListSize DEF Plan
<1>2. /\ Cardinality(Listed(p)) \in Nat
      /\ Cardinality(R) = Cardinality(Listed(p)) \/ Cardinality(R) = Cardinality(Listed(p)) + 1
  BY <1>1, FS_CardinalityType, FS_AddElement
<1>3. Cardinality(R) <= AutoMax
  BY <1>1, <1>2, EngineAssumption
<1>4. {p.dirty} \cup Listed(p) = R
  OBVIOUS
<1>5. Covers(s, R)
  BY <1>4 DEF SoundPlan
<1> QED BY <1>1, <1>3, <1>5 DEF Narrow

(* When the last move is made nothing hangs on the dirty node any more.    *)
LEMMA LastMove ==
  ASSUME Forest, NEW s, NEW p \in Plan, SoundPlan(s, p), NEW later, Sound(s, <<>>, p, later)
  PROVE  /\ ExposedAreAnchored(s, <<>>) /\ ExposedAreCovered(s, <<>>, later)
         /\ Excused(s, <<>>, p, later) => WaitsAreExcused(s, <<>>, later)
<1> DEFINE none == <<>>
<1>1. DOMAIN none = {} /\ \A i, name : ~Left(none, i, name)
  BY DEF Left
<1>2. /\ ExposedAreAnchored(s, none) /\ ExposedAreCovered(s, none, later \cup {p.dirty})
      /\ MovedAreSound(s, none, p)
  BY DEF Sound, CascadeInv
<1>3. Excused(s, none, p, later) => WaitsAreExcused(s, none, Reruns(later, none, p))
  BY DEF Excused
<1> HIDE DEF none
<1>4. Reruns(later, none, p) = later
  BY <1>1 DEF Reruns
<1>5. ExposedAreCovered(s, none, later)
  <2> SUFFICES ASSUME NEW n \in Items, Exposed(s, none, n), ~Queue!UpstreamsDone(s, n)
               PROVE  \E c \in later : Hangs(s, c, n)
    BY DEF ExposedAreCovered
  <2>1. s[n] \in Working
    BY <1>1 DEF Exposed
  <2>2. PICK c \in later \cup {p.dirty} : Hangs(s, c, n)
    BY <1>2 DEF ExposedAreCovered
  <2>3. c # p.dirty
    BY <1>1, <1>2, <2>1, <2>2, HangingAreSound
  <2> QED BY <2>2, <2>3
<1> QED BY <1>2, <1>3, <1>4, <1>5 DEF none

(* A cascade cut short: nothing is left to be revoked.                     *)
LEMMA CutShort ==
  ASSUME NEW s, NEW ops, NEW coming
  PROVE  /\ ExposedAreAnchored(s, ops) => ExposedAreAnchored(s, <<>>)
         /\ ExposedAreCovered(s, ops, coming) => ExposedAreCovered(s, <<>>, coming)
<1> DEFINE none == <<>>
<1>1. \A i, name : ~Left(none, i, name)
  BY DEF Left
<1> HIDE DEF none
<1>2. \A n \in Items : Exposed(s, none, n) => Exposed(s, ops, n)
  BY <1>1 DEF Exposed
<1>3. ExposedAreAnchored(s, ops) => ExposedAreAnchored(s, none)
  BY <1>2 DEF ExposedAreAnchored
<1>4. ExposedAreCovered(s, ops, coming) => ExposedAreCovered(s, none, coming)
  BY <1>2 DEF ExposedAreCovered
<1> QED BY <1>3, <1>4 DEF none

LEMMA MoreComing ==
  ASSUME NEW s, NEW ops, NEW W, NEW X, W \subseteq X
  PROVE  /\ ExposedAreCovered(s, ops, W) => ExposedAreCovered(s, ops, X)
         /\ WaitsAreExcused(s, ops, W) => WaitsAreExcused(s, ops, X)
<1>1. ExposedAreCovered(s, ops, W) => ExposedAreCovered(s, ops, X)
  BY DEF ExposedAreCovered
<1>2. WaitsAreExcused(s, ops, W) => WaitsAreExcused(s, ops, X)
  BY DEF WaitsAreExcused
<1> QED BY <1>1, <1>2

-----------------------------------------------------------------------------
(* The moves of one node, one by one.                                      *)
MoveOf(s, dirty, x, name) ==
  \/ s \in Running /\ x = 1 /\ name = "revokeLease"
  \/ s \in Running /\ ~dirty /\ x = 2 /\ name = "demote"
  \/ s \in Finished /\ x = 1 /\ name = "supersede"
  \/ s \in Finished /\ x = 2 /\ name = "supersedeResults"
  \/ s \in Finished /\ x = 3 /\ name = "markStale"
  \/ s \in Finished /\ dirty /\ x = 4 /\ name = "revive"
  \/ s = "ready" /\ ~dirty /\ x = 1 /\ name = "demote"

LEMMA Joins ==
  ASSUME NEW dirty \in BOOLEAN
  PROVE  /\ Park(dirty) = IF dirty THEN <<>> ELSE <<"demote">>
         /\ Interrupt(dirty) = IF dirty THEN <<"revokeLease">> ELSE <<"revokeLease", "demote">>
         /\ Repudiate(dirty) =
              IF dirty THEN <<"supersede", "supersedeResults", "markStale", "revive">>
                       ELSE <<"supersede", "supersedeResults", "markStale">>
<1>1. Park(dirty) = IF dirty THEN <<>> ELSE <<"demote">>
  BY DEF Park
<1>2. CASE dirty
  <2>1. Interrupt(dirty) = <<"revokeLease">> \o <<>>
    BY <1>1, <1>2 DEF Interrupt
  <2>2. Repudiate(dirty) = <<"supersede", "supersedeResults", "markStale">> \o <<"revive">>
    BY <1>2 DEF Repudiate
  <2>3. <<"revokeLease">> \o <<>> = <<"revokeLease">>
    OBVIOUS
  <2>4. <<"supersede", "supersedeResults", "markStale">> \o <<"revive">>
          = <<"supersede", "supersedeResults", "markStale", "revive">>
    BY JoinThree
  <2> QED BY <1>1, <1>2, <2>1, <2>2, <2>3, <2>4
<1>3. CASE ~dirty
  <2>1. Interrupt(dirty) = <<"revokeLease">> \o <<"demote">>
    BY <1>1, <1>3 DEF Interrupt
  <2>2. Repudiate(dirty) = <<"supersede", "supersedeResults", "markStale">> \o <<>>
    BY <1>3 DEF Repudiate
  <2>3. <<"revokeLease">> \o <<"demote">> = <<"revokeLease", "demote">>
    BY JoinOne
  <2>4. <<"supersede", "supersedeResults", "markStale">> \o <<>>
          = <<"supersede", "supersedeResults", "markStale">>
    OBVIOUS
  <2> QED BY <1>1, <1>3, <2>1, <2>2, <2>3, <2>4
<1> QED BY <1>2, <1>3

MoveNames(s, dirty) ==
  IF s \in Running THEN Interrupt(dirty)
  ELSE IF s \in Finished THEN Repudiate(dirty)
  ELSE IF s = "ready" THEN Park(dirty) ELSE <<>>

LEMMA NamesAre ==
  ASSUME NEW s, NEW dirty \in BOOLEAN
  PROVE  \A x : \/ /\ x \in DOMAIN MoveNames(s, dirty)
                   /\ MoveOf(s, dirty, x, MoveNames(s, dirty)[x])
                   /\ \A name : MoveOf(s, dirty, x, name) => name = MoveNames(s, dirty)[x]
                \/ /\ x \notin DOMAIN MoveNames(s, dirty)
                   /\ \A name : ~MoveOf(s, dirty, x, name)
<1> DEFINE names == MoveNames(s, dirty)
<1> SUFFICES \A x : \/ /\ x \in DOMAIN names /\ MoveOf(s, dirty, x, names[x])
                       /\ \A name : MoveOf(s, dirty, x, name) => name = names[x]
                    \/ x \notin DOMAIN names /\ \A name : ~MoveOf(s, dirty, x, name)
  OBVIOUS
<1>0. /\ s \in Running => s \notin Finished /\ s # "ready"
      /\ s \in Finished => s \notin Running /\ s # "ready"
      /\ s = "ready" => s \notin Running /\ s \notin Finished
  BY DEF Running, Finished
<1> DEFINE one == <<"revokeLease">>
           two == <<"revokeLease", "demote">>
           three == <<"supersede", "supersedeResults", "markStale", "revive">>
           four == <<"supersede", "supersedeResults", "markStale">>
           five == <<"demote">>
           none == <<>>
<1>1. /\ DOMAIN one = {1} /\ one[1] = "revokeLease"
      /\ DOMAIN two = {1, 2} /\ two[1] = "revokeLease" /\ two[2] = "demote"
      /\ DOMAIN three = {1, 2, 3, 4} /\ three[1] = "supersede"
      /\ three[2] = "supersedeResults" /\ three[3] = "markStale" /\ three[4] = "revive"
      /\ DOMAIN four = {1, 2, 3} /\ four[1] = "supersede" /\ four[2] = "supersedeResults"
      /\ four[3] = "markStale"
      /\ DOMAIN five = {1} /\ five[1] = "demote"
      /\ DOMAIN none = {}
  OBVIOUS
<1>2. names = IF s \in Running THEN IF dirty THEN one ELSE two
              ELSE IF s \in Finished THEN IF dirty THEN three ELSE four
              ELSE IF s = "ready" THEN IF dirty THEN none ELSE five ELSE none
  BY Joins DEF MoveNames
<1> HIDE DEF names, one, two, three, four, five, none
<1>3. CASE s \in Running
  <2>1. CASE dirty
    <3>1. names = one
      BY <1>2, <1>3, <2>1
    <3>2. \A x, name : MoveOf(s, dirty, x, name) <=> x = 1 /\ name = "revokeLease"
      BY <1>0, <1>3, <2>1 DEF MoveOf
    <3>3. DOMAIN names = {1} /\ names[1] = "revokeLease"
      BY ONLY <1>1, <3>1
    <3> QED BY ONLY <3>2, <3>3
  <2>2. CASE ~dirty
    <3>1. names = two
      BY <1>2, <1>3, <2>2
    <3>2. \A x, name : MoveOf(s, dirty, x, name)
                         <=> (x = 1 /\ name = "revokeLease") \/ (x = 2 /\ name = "demote")
      BY <1>0, <1>3, <2>2 DEF MoveOf
    <3>3. DOMAIN names = {1, 2} /\ names[1] = "revokeLease" /\ names[2] = "demote"
      BY ONLY <1>1, <3>1
    <3> QED BY ONLY <3>2, <3>3
  <2> QED BY <2>1, <2>2
<1>4. CASE s \in Finished
  <2>1. CASE dirty
    <3>1. names = three
      BY <1>0, <1>2, <1>4, <2>1
    <3>2. \A x, name : MoveOf(s, dirty, x, name)
                         <=> \/ x = 1 /\ name = "supersede"
                             \/ x = 2 /\ name = "supersedeResults"
                             \/ x = 3 /\ name = "markStale"
                             \/ x = 4 /\ name = "revive"
      BY <1>0, <1>4, <2>1 DEF MoveOf
    <3>3. /\ DOMAIN names = {1, 2, 3, 4} /\ names[1] = "supersede"
          /\ names[2] = "supersedeResults" /\ names[3] = "markStale" /\ names[4] = "revive"
      BY ONLY <1>1, <3>1
    <3> QED BY ONLY <3>2, <3>3
  <2>2. CASE ~dirty
    <3>1. names = four
      BY <1>0, <1>2, <1>4, <2>2
    <3>2. \A x, name : MoveOf(s, dirty, x, name)
                         <=> \/ x = 1 /\ name = "supersede"
                             \/ x = 2 /\ name = "supersedeResults"
                             \/ x = 3 /\ name = "markStale"
      BY <1>0, <1>4, <2>2 DEF MoveOf
    <3>3. /\ DOMAIN names = {1, 2, 3} /\ names[1] = "supersede"
          /\ names[2] = "supersedeResults" /\ names[3] = "markStale"
      BY ONLY <1>1, <3>1
    <3> QED BY ONLY <3>2, <3>3
  <2> QED BY <2>1, <2>2
<1>5. CASE s = "ready"
  <2>1. CASE dirty
    <3>1. names = none
      BY <1>0, <1>2, <1>5, <2>1
    <3>2. \A x, name : ~MoveOf(s, dirty, x, name)
      BY <1>0, <1>5, <2>1 DEF MoveOf
    <3>3. DOMAIN names = {}
      BY ONLY <1>1, <3>1
    <3> QED BY ONLY <3>2, <3>3
  <2>2. CASE ~dirty
    <3>1. names = five
      BY <1>0, <1>2, <1>5, <2>2
    <3>2. \A x, name : MoveOf(s, dirty, x, name) <=> x = 1 /\ name = "demote"
      BY <1>0, <1>5, <2>2 DEF MoveOf
    <3>3. DOMAIN names = {1} /\ names[1] = "demote"
      BY ONLY <1>1, <3>1
    <3> QED BY ONLY <3>2, <3>3
  <2> QED BY <2>1, <2>2
<1>6. CASE s \notin Running /\ s \notin Finished /\ s # "ready"
  <2>1. names = none
    BY <1>2, <1>6
  <2>2. \A x, name : ~MoveOf(s, dirty, x, name)
    BY <1>6 DEF MoveOf
  <2>3. DOMAIN names = {}
    BY ONLY <1>1, <2>1
  <2> QED BY ONLY <2>2, <2>3
<1> QED BY <1>3, <1>4, <1>5, <1>6

LEMMA MovesAre ==
  ASSUME NEW s, NEW i \in Items, NEW dirty \in BOOLEAN
  PROVE  /\ Moves(s, i, dirty) \in Seq(Op)
         /\ \A x \in DOMAIN Moves(s, i, dirty) :
              /\ Moves(s, i, dirty)[x].item = i
              /\ MoveOf(s, dirty, x, Moves(s, i, dirty)[x].move)
         /\ \A x, name :
              MoveOf(s, dirty, x, name) =>
                x \in DOMAIN Moves(s, i, dirty)
                /\ Moves(s, i, dirty)[x] = [move |-> name, item |-> i]
<1> DEFINE none == <<>>
           names == CASE s \in {"claimed", "running"} -> Interrupt(dirty)
                      [] s \in Finished               -> Repudiate(dirty)
                      [] s = "ready"                  -> Park(dirty)
                      [] OTHER                        -> none
           ops == [k \in DOMAIN names |-> [move |-> names[k], item |-> i]]
<1>1. Moves(s, i, dirty) = ops /\ Moves(s, i, dirty) \in Seq(Op)
  BY MovesType DEF Moves
<1>2. names = MoveNames(s, dirty)
  BY DEF MoveNames, Running, Finished
<1> HIDE DEF names
<1>3. \A x : \/ /\ x \in DOMAIN names /\ MoveOf(s, dirty, x, names[x])
                /\ \A name : MoveOf(s, dirty, x, name) => name = names[x]
             \/ x \notin DOMAIN names /\ \A name : ~MoveOf(s, dirty, x, name)
  BY <1>2, NamesAre
<1>4. /\ DOMAIN ops = DOMAIN names
      /\ \A x \in DOMAIN names : ops[x] = [move |-> names[x], item |-> i]
  OBVIOUS
<1> HIDE DEF ops
<1>5. \A x \in DOMAIN ops : ops[x].item = i /\ MoveOf(s, dirty, x, ops[x].move)
  BY <1>3, <1>4
<1>6. \A x, name : MoveOf(s, dirty, x, name) =>
        x \in DOMAIN ops /\ ops[x] = [move |-> name, item |-> i]
  BY <1>3, <1>4
<1> QED BY <1>1, <1>5, <1>6

(* The cascade's sequences: those of the affected nodes, then the dirty    *)
(* node's.                                                                 *)
NodeAt(p, r) == IF r \in DOMAIN p.affected THEN p.affected[r] ELSE p.dirty

Blocks(p) ==
  [r \in 1..(Len(p.affected) + 1) |->
     Moves(status[NodeAt(p, r)], NodeAt(p, r), r \notin DOMAIN p.affected)]

LEMMA CascadePlaces ==
  ASSUME NEW p \in Plan
  PROVE  \E row, col : Places(Cascade(p), Blocks(p), Len(p.affected) + 1, row, col)
<1> DEFINE a == p.affected
           n == Len(a)
           seqs == [k \in DOMAIN a |-> Moves(status[a[k]], a[k], FALSE)]
           head == FlattenSeq(seqs)
           last == Moves(status[p.dirty], p.dirty, TRUE)
           blocks == Blocks(p)
<1>1. /\ a \in Seq(Items) /\ p.dirty \in Items /\ n \in Nat /\ DOMAIN a = 1..n
      /\ \A k \in DOMAIN a : a[k] \in Items
  BY DEF Plan
<1>2. \A k \in DOMAIN a : seqs[k] \in Seq(Op)
  BY <1>1, MovesType
<1>3. seqs \in Seq(Seq(Op)) /\ Len(seqs) = n
  <2>1. seqs \in [1..n -> Seq(Op)]
    BY <1>1, <1>2
  <2> HIDE DEF seqs
  <2> QED BY <1>1, <2>1
<1>4. last \in Seq(Op) /\ Cascade(p) = head \o last
  BY <1>1, MovesType DEF Cascade
<1>5. \A r \in 1..(n + 1) :
        blocks[r] = Moves(status[NodeAt(p, r)], NodeAt(p, r), r \notin DOMAIN a)
  BY DEF Blocks
<1>5a. /\ 1..n \subseteq 1..(n + 1) /\ n + 1 \in 1..(n + 1) /\ n + 1 \notin DOMAIN a
       /\ \A r \in DOMAIN a : NodeAt(p, r) = a[r] /\ r \in 1..n
       /\ NodeAt(p, n + 1) = p.dirty
  <2>1. n + 1 \notin DOMAIN a /\ 1..n \subseteq 1..(n + 1) /\ n + 1 \in 1..(n + 1)
    BY <1>1
  <2> QED BY <1>1, <2>1 DEF NodeAt
<1>5b. /\ \A r \in DOMAIN a : seqs[r] = Moves(status[a[r]], a[r], FALSE)
       /\ last = Moves(status[p.dirty], p.dirty, TRUE)
  OBVIOUS
<1> HIDE DEF seqs, last, blocks
<1>5c. /\ \A r \in DOMAIN a : (r \notin DOMAIN a) = FALSE
       /\ (n + 1 \notin DOMAIN a) = TRUE
  BY <1>5a
<1>5d. \A r \in 1..n : blocks[r] = seqs[r]
  BY <1>1, <1>5, <1>5a, <1>5b, <1>5c
<1>5e. blocks[n + 1] = last
  BY <1>5, <1>5a, <1>5b, <1>5c
<1> HIDE DEF n
<1>6. head \in Seq(Op)
  BY <1>3, FlattenHas
<1>7. PICK row, col : Places(head, seqs, n, row, col)
  BY <1>3, FlattenPlaces
<1> HIDE DEF head
<1>8. Places(head, blocks, n, row, col)
  BY <1>5d, <1>7 DEF Places
<1>9. \E r, c : Places(head \o last, blocks, n + 1, r, c)
  BY <1>1, <1>4, <1>5e, <1>6, <1>8, PlacesJoin
<1> QED BY <1>4, <1>9 DEF blocks, n

LEMMA BlocksAre ==
  ASSUME NEW p \in Plan, NEW r \in 1..(Len(p.affected) + 1)
  PROVE  /\ NodeAt(p, r) \in Items
         /\ \A x \in DOMAIN Blocks(p)[r] :
              /\ Blocks(p)[r][x].item = NodeAt(p, r)
              /\ MoveOf(status[NodeAt(p, r)], r \notin DOMAIN p.affected, x,
                        Blocks(p)[r][x].move)
         /\ \A x, name :
              MoveOf(status[NodeAt(p, r)], r \notin DOMAIN p.affected, x, name) =>
                /\ x \in DOMAIN Blocks(p)[r]
                /\ Blocks(p)[r][x] = [move |-> name, item |-> NodeAt(p, r)]
<1> DEFINE i == NodeAt(p, r)
           s == status[i]
           dirty == r \notin DOMAIN p.affected
<1>1. i \in Items
  BY DEF Plan, NodeAt
<1>2. Blocks(p)[r] = Moves(s, i, dirty)
  BY DEF Blocks
<1> DEFINE Are(d) ==
             /\ \A x \in DOMAIN Moves(s, i, d) :
                  /\ Moves(s, i, d)[x].item = i
                  /\ MoveOf(s, d, x, Moves(s, i, d)[x].move)
             /\ \A x, name :
                  MoveOf(s, d, x, name) =>
                    x \in DOMAIN Moves(s, i, d)
                    /\ Moves(s, i, d)[x] = [move |-> name, item |-> i]
<1>3. \A d \in BOOLEAN : Are(d)
  BY <1>1, MovesAre
<1>4. Are(dirty)
  <2>1. dirty \in BOOLEAN
    OBVIOUS
  <2> HIDE DEF dirty, Are
  <2> QED BY <1>3, <2>1
<1> HIDE DEF s, i, dirty
<1>5. /\ \A x \in DOMAIN Blocks(p)[r] :
           /\ Blocks(p)[r][x].item = i
           /\ MoveOf(s, dirty, x, Blocks(p)[r][x].move)
      /\ \A x, name :
           MoveOf(s, dirty, x, name) =>
             /\ x \in DOMAIN Blocks(p)[r]
             /\ Blocks(p)[r][x] = [move |-> name, item |-> i]
  BY <1>2, <1>4
<1> QED BY <1>1, <1>5 DEF s, i, dirty

(* The cascade's moves in their places: row by row the nodes of the plan,  *)
(* the dirty one last, in each row the moves of the status it was read in. *)
Given(p, i, x, name) == MoveOf(status[i], i = p.dirty, x, name)

Placed(f, p, row, col) ==
  /\ \A y \in DOMAIN f :
       /\ f[y].item = NodeAt(p, row[y]) /\ row[y] \in 1..(Len(p.affected) + 1)
       /\ Given(p, f[y].item, col[y], f[y].move)
  /\ \A y, z \in DOMAIN f :
       y < z => row[y] < row[z] \/ (row[y] = row[z] /\ col[y] < col[z])
  /\ \A r \in 1..(Len(p.affected) + 1) : \A x, name :
       Given(p, NodeAt(p, r), x, name) =>
         \E y \in DOMAIN f :
           row[y] = r /\ col[y] = x /\ f[y] = [move |-> name, item |-> NodeAt(p, r)]

LEMMA NodesAt ==
  ASSUME Forest, NEW s, NEW p \in Plan, SoundPlan(s, p)
  PROVE  /\ \A r \in 1..(Len(p.affected) + 1) :
              /\ NodeAt(p, r) \in Items
              /\ r \notin DOMAIN p.affected <=> r = Len(p.affected) + 1
              /\ r \notin DOMAIN p.affected <=> NodeAt(p, r) = p.dirty
              /\ NodeAt(p, r) \in {p.dirty} \cup Listed(p)
         /\ \A i \in {p.dirty} \cup Listed(p) :
              \E r \in 1..(Len(p.affected) + 1) : NodeAt(p, r) = i
         /\ \A r, q \in 1..(Len(p.affected) + 1) : NodeAt(p, r) = NodeAt(p, q) => r = q
<1> DEFINE n == Len(p.affected)
<1>1. /\ p.dirty \in Items /\ p.dirty \notin Listed(p) /\ Listed(p) \subseteq Items
      /\ n \in Nat /\ DOMAIN p.affected = 1..n
  BY PlanFacts DEF Plan
<1>2. /\ n + 1 \in 1..(n + 1) /\ 1..n \subseteq 1..(n + 1)
      /\ \A r \in 1..(n + 1) : r \notin 1..n <=> r = n + 1
  BY <1>1
<1>3. NodeAt(p, n + 1) = p.dirty
  BY <1>1, <1>2 DEF NodeAt
<1>4. \A r \in 1..n : NodeAt(p, r) = p.affected[r] /\ NodeAt(p, r) \in Listed(p)
  BY <1>1 DEF NodeAt, Listed
<1>5. \A i \in Listed(p) : \E r \in 1..n : NodeAt(p, r) = i
  BY <1>1 DEF NodeAt, Listed
<1>6. \A r, q \in 1..n : NodeAt(p, r) = NodeAt(p, q) => r = q
  BY <1>1, <1>4 DEF SoundPlan
<1> HIDE DEF n
<1>7. \A r \in 1..(n + 1) :
        /\ NodeAt(p, r) \in Items
        /\ r \notin DOMAIN p.affected <=> r = n + 1
        /\ r \notin DOMAIN p.affected <=> NodeAt(p, r) = p.dirty
        /\ NodeAt(p, r) \in {p.dirty} \cup Listed(p)
  BY <1>1, <1>2, <1>3, <1>4
<1>8. \A i \in {p.dirty} \cup Listed(p) : \E r \in 1..(n + 1) : NodeAt(p, r) = i
  BY <1>2, <1>3, <1>5
<1>9. \A r, q \in 1..(n + 1) : NodeAt(p, r) = NodeAt(p, q) => r = q
  BY <1>1, <1>2, <1>3, <1>4, <1>6
<1> QED BY <1>7, <1>8, <1>9 DEF n

LEMMA CascadePlaced ==
  ASSUME Forest, NEW s, NEW p \in Plan, SoundPlan(s, p)
  PROVE  \E row, col : Placed(Cascade(p), p, row, col)
<1> DEFINE f == Cascade(p)
           n == Len(p.affected) + 1
           blocks == Blocks(p)
<1>1. PICK row, col : Places(f, blocks, n, row, col)
  BY CascadePlaces
<1>2. \A r \in 1..n :
        /\ NodeAt(p, r) \in Items
        /\ r \notin DOMAIN p.affected <=> NodeAt(p, r) = p.dirty
  BY NodesAt
<1> DEFINE At(r, dirty) ==
             /\ \A x \in DOMAIN blocks[r] :
                  /\ blocks[r][x].item = NodeAt(p, r)
                  /\ MoveOf(status[NodeAt(p, r)], dirty, x, blocks[r][x].move)
             /\ \A x, name :
                  MoveOf(status[NodeAt(p, r)], dirty, x, name) =>
                    /\ x \in DOMAIN blocks[r]
                    /\ blocks[r][x] = [move |-> name, item |-> NodeAt(p, r)]
<1>3. ASSUME NEW r \in 1..n PROVE At(r, NodeAt(p, r) = p.dirty)
  <2>1. At(r, r \notin DOMAIN p.affected)
    BY BlocksAre
  <2>2. (r \notin DOMAIN p.affected) = (NodeAt(p, r) = p.dirty)
    BY <1>2
  <2> HIDE DEF At
  <2> QED BY <2>1, <2>2
<1> HIDE DEF f, n, blocks
<1>4. ASSUME NEW y \in DOMAIN f
      PROVE  /\ f[y].item = NodeAt(p, row[y]) /\ row[y] \in 1..n
             /\ Given(p, f[y].item, col[y], f[y].move)
  <2>1. /\ row[y] \in 1..n /\ col[y] \in DOMAIN blocks[row[y]]
        /\ f[y] = blocks[row[y]][col[y]]
    BY <1>1 DEF Places
  <2>2. f[y].item = NodeAt(p, row[y]) /\ Given(p, NodeAt(p, row[y]), col[y], f[y].move)
    BY <1>3, <2>1 DEF Given
  <2> HIDE DEF At
  <2> QED BY <2>1, <2>2
<1>5. \A y, z \in DOMAIN f :
        y < z => row[y] < row[z] \/ (row[y] = row[z] /\ col[y] < col[z])
  BY <1>1 DEF Places
<1>6. ASSUME NEW r \in 1..n, NEW x, NEW name,
             Given(p, NodeAt(p, r), x, name)
      PROVE  \E y \in DOMAIN f :
               row[y] = r /\ col[y] = x /\ f[y] = [move |-> name, item |-> NodeAt(p, r)]
  <2>1. x \in DOMAIN blocks[r] /\ blocks[r][x] = [move |-> name, item |-> NodeAt(p, r)]
    BY <1>3, <1>6 DEF Given
  <2>2. PICK y \in DOMAIN f : row[y] = r /\ col[y] = x
    BY <1>1, <2>1 DEF Places
  <2>3. f[y] = blocks[row[y]][col[y]]
    BY <1>1 DEF Places
  <2> QED BY <2>1, <2>2, <2>3
<1>7. Placed(f, p, row, col)
  BY <1>4, <1>5, <1>6 DEF Placed, n
<1> QED BY <1>7 DEF f
LEMMA PlacedShape ==
  ASSUME Forest, NEW s, NEW p \in Plan, SoundPlan(s, p), NEW f \in Seq(Op), NEW row, NEW col,
         Placed(f, p, row, col)
  PROVE  OpsShape(f, p)
<1> DEFINE n == Len(p.affected) + 1
           Is(y, x, name) == Given(p, f[y].item, x, name)
<1>1. /\ Len(f) \in Nat /\ DOMAIN f = 1..Len(f) /\ \A y \in DOMAIN f : f[y] \in Op /\ y \in Nat
      /\ n \in Nat /\ n - 1 \in Nat /\ DOMAIN p.affected = 1..(n - 1)
  BY DEF Plan
<1>2. \A y \in DOMAIN f : /\ f[y].item = NodeAt(p, row[y]) /\ row[y] \in 1..n
                          /\ Is(y, col[y], f[y].move)
  BY DEF Placed
<1>3. \A y, z \in DOMAIN f :
        y < z => row[y] < row[z] \/ (row[y] = row[z] /\ col[y] < col[z])
  BY DEF Placed
<1>4. ASSUME NEW y \in DOMAIN f, NEW x, NEW name, Is(y, x, name)
      PROVE  \E z \in DOMAIN f :
               row[z] = row[y] /\ col[z] = x /\ f[z] = [move |-> name, item |-> f[y].item]
  <2> DEFINE r == row[y]
  <2>1. /\ r \in 1..n /\ f[y].item = NodeAt(p, r)
        /\ Given(p, NodeAt(p, r), x, name)
    BY <1>2, <1>4
  <2> HIDE DEF r, n
  <2>2. \E z \in DOMAIN f :
          row[z] = r /\ col[z] = x /\ f[z] = [move |-> name, item |-> NodeAt(p, r)]
    BY <2>1 DEF Placed, n
  <2> QED BY <2>1, <2>2 DEF r
<1>5. /\ \A r \in 1..n : /\ r = n <=> NodeAt(p, r) = p.dirty
                         /\ NodeAt(p, r) \in {p.dirty} \cup Listed(p)
                         /\ r # n => r \in DOMAIN p.affected /\ NodeAt(p, r) = p.affected[r]
      /\ \A r, q \in 1..n : NodeAt(p, r) = NodeAt(p, q) => r = q
  BY NodesAt DEF NodeAt
<1>6. \A y \in DOMAIN f :
        /\ row[y] \in Nat /\ row[y] <= n /\ col[y] \in 1..4
        /\ row[y] = n <=> f[y].item = p.dirty
  <2>1. \A y \in DOMAIN f : col[y] \in 1..4
    BY <1>2 DEF Given, MoveOf
  <2> HIDE DEF Is, n
  <2> QED BY <1>1, <1>2, <1>5, <2>1
<1>7. \A y, z \in DOMAIN f : row[y] = row[z] <=> f[y].item = f[z].item
  BY <1>2, <1>5
<1>8. ASSUME NEW j \in DOMAIN f, NEW k \in DOMAIN f, j < k
      PROVE  /\ f[j] # f[k]
             /\ f[k].item # p.dirty => f[j].item # p.dirty /\ f[k].item \notin Above(f[j].item)
  <2>1. f[j] # f[k]
    <3> SUFFICES ASSUME f[j] = f[k] PROVE FALSE
      OBVIOUS
    <3>1. col[j] < col[k] /\ Is(j, col[j], f[j].move) /\ Is(j, col[k], f[j].move)
      <4>1. row[j] = row[k]
        BY <1>7
      <4>2. ~(row[j] < row[k])
        BY <1>6, <4>1
      <4> QED BY <1>2, <1>3, <1>8, <4>2
    <3>2. col[j] \in Nat /\ col[k] \in Nat
      BY <1>6
    <3>3. col[j] = col[k]
      BY <3>1 DEF Given, MoveOf, Running, Finished
    <3> QED BY <3>1, <3>2, <3>3
  <2>2. ASSUME f[k].item # p.dirty
        PROVE  f[j].item # p.dirty /\ f[k].item \notin Above(f[j].item)
    <3>1. row[k] \in Nat /\ row[j] \in Nat /\ row[k] <= n /\ row[k] # n /\ row[j] <= row[k]
      BY <1>3, <1>6, <1>8, <2>2
    <3>2. row[j] # n /\ row[k] # n /\ ~(row[k] < row[j])
      BY <1>1, <3>1
    <3>3. f[j].item # p.dirty
      BY <1>6, <3>2
    <3>4. /\ row[j] \in DOMAIN p.affected /\ f[j].item = p.affected[row[j]]
          /\ row[k] \in DOMAIN p.affected /\ f[k].item = p.affected[row[k]]
      BY <1>2, <1>5, <3>2
    <3>5. f[k].item \notin Above(f[j].item)
      BY <3>2, <3>4 DEF SoundPlan
    <3> QED BY <3>3, <3>5
  <2> QED BY <2>1, <2>2
<1>9. InPlanOrder(f, p)
  BY <1>8 DEF InPlanOrder
<1>10. OfThePlan(f, p)
  <2> SUFFICES ASSUME NEW k \in DOMAIN f
               PROVE  IF f[k].item = p.dirty
                        THEN f[k].move \in {"revokeLease", "revive"} \cup Repudiations
                        ELSE /\ f[k].item \in Listed(p)
                             /\ f[k].move \in {"revokeLease", "demote"} \cup Repudiations
    BY DEF OfThePlan
  <2>1. Is(k, col[k], f[k].move) /\ f[k].item \in {p.dirty} \cup Listed(p)
    BY <1>2, <1>5
  <2>2. CASE f[k].item = p.dirty
    BY <2>1, <2>2 DEF Given, MoveOf, Repudiations, Still
  <2>3. CASE f[k].item # p.dirty
    BY <2>1, <2>3 DEF Given, MoveOf, Repudiations, Still
  <2> QED BY <2>2, <2>3
<1>11. Alternatives(f)
  <2> SUFFICES ASSUME NEW j \in DOMAIN f, NEW k \in DOMAIN f, f[j].item = f[k].item,
                      f[j].move \in Repudiations,
                      f[k].move \in {"revokeLease", "demote"}
               PROVE  FALSE
    BY DEF Alternatives
  <2>1. Is(j, col[j], f[j].move) /\ Is(k, col[k], f[k].move)
    BY <1>2
  <2>2. status[f[j].item] \in Finished
    BY <2>1 DEF Given, MoveOf, Repudiations, Still
  <2>3. status[f[k].item] \in Running \cup {"ready"}
    BY <2>1 DEF Given, MoveOf
  <2> QED BY <2>2, <2>3 DEF Running, Finished
(* The later of two moves of a node stands after the earlier one. *)
<1>12. \A y, z \in DOMAIN f : row[y] = row[z] /\ col[y] < col[z] => y < z
  <2> SUFFICES ASSUME NEW y \in DOMAIN f, NEW z \in DOMAIN f, row[y] = row[z],
                      col[y] < col[z], ~(y < z)
               PROVE  FALSE
    OBVIOUS
  <2>1. col[y] \in Nat /\ col[z] \in Nat /\ row[y] \in Nat /\ row[z] \in Nat
        /\ y \in Nat /\ z \in Nat
    BY <1>1, <1>6
  <2>2. y = z \/ z < y
    BY <2>1
  <2> QED BY <1>3, <2>1, <2>2
<1>13. ASSUME NEW j \in DOMAIN f, f[j].move = "revokeLease", f[j].item # p.dirty
       PROVE  \E k \in DOMAIN f : j < k /\ f[k] = [move |-> "demote", item |-> f[j].item]
  <2>1. Is(j, col[j], f[j].move)
    BY <1>2
  <2>2. col[j] = 1 /\ Is(j, 2, "demote")
    BY <1>13, <2>1 DEF Given, MoveOf
  <2>3. PICK k \in DOMAIN f :
          row[k] = row[j] /\ col[k] = 2 /\ f[k] = [move |-> "demote", item |-> f[j].item]
    BY <1>4, <2>2
  <2> QED BY <1>12, <2>2, <2>3
<1>14. ASSUME NEW j \in DOMAIN f, f[j].move \in Still
       PROVE  \E k \in DOMAIN f : j < k /\ f[k] = [move |-> "markStale", item |-> f[j].item]
  <2>1. Is(j, col[j], f[j].move)
    BY <1>2
  <2>2. col[j] \in {1, 2} /\ Is(j, 3, "markStale")
    BY <1>14, <2>1 DEF Given, MoveOf, Still
  <2>3. PICK k \in DOMAIN f :
          row[k] = row[j] /\ col[k] = 3 /\ f[k] = [move |-> "markStale", item |-> f[j].item]
    BY <1>4, <2>2
  <2> QED BY <1>12, <2>2, <2>3
<1>15. ASSUME NEW j \in DOMAIN f, f[j].move = "revive" PROVE j = Len(f)
  <2>1. Is(j, col[j], f[j].move)
    BY <1>2
  <2>2. col[j] = 4 /\ f[j].item = p.dirty
    BY <1>15, <2>1 DEF Given, MoveOf
  <2>3. row[j] = n
    BY <1>6, <2>2
  <2>4. ASSUME NEW z \in DOMAIN f, j < z PROVE FALSE
    BY <1>3, <1>6, <2>2, <2>3, <2>4
  <2> QED BY <1>1, <2>4
<1>16. ASSUME NEW j \in DOMAIN f, f[j].move = "markStale", f[j].item = p.dirty
       PROVE  j + 1 = Len(f) /\ f[j + 1] = [move |-> "revive", item |-> p.dirty]
  <2>1. Is(j, col[j], f[j].move)
    BY <1>2
  <2>2. col[j] = 3 /\ Is(j, 4, "revive")
    BY <1>16, <2>1 DEF Given, MoveOf
  <2>3. PICK k \in DOMAIN f :
          row[k] = row[j] /\ col[k] = 4 /\ f[k] = [move |-> "revive", item |-> f[j].item]
    BY <1>4, <2>2
  <2>4. j < k
    BY <1>12, <2>2, <2>3
  <2>5. k = Len(f)
    BY <1>15, <2>3
  <2>6. ASSUME NEW z \in DOMAIN f, j < z, z < k PROVE FALSE
    <3>1. row[j] \in Nat /\ row[z] \in Nat /\ col[z] \in Nat
      BY <1>6
    <3>2. row[z] = row[j]
      BY <1>3, <2>3, <2>6, <3>1
    <3>3. 3 < col[z] /\ col[z] < 4
      BY <1>3, <2>2, <2>3, <2>6, <3>1, <3>2
    <3> QED BY <3>1, <3>3
  <2>7. j + 1 = k
    <3>1. j + 1 \in DOMAIN f /\ j < j + 1 /\ (j + 1 < k \/ j + 1 = k)
      BY <1>1, <2>4
    <3> QED BY <2>6, <3>1
  <2> QED BY <1>16, <2>3, <2>5, <2>7
<1>17. InPairs(f, p)
  BY <1>13, <1>14, <1>15, <1>16 DEF InPairs
<1> QED BY <1>9, <1>10, <1>11, <1>17 DEF OpsShape

(* A cascade chosen from the statuses is sound for them.                   *)
LEMMA CascadeBegins ==
  ASSUME Forest, QueueShape, NEW p \in Plan, SoundPlan(status, p),
         NEW later, ExposedAreAnchored(status, <<>>),
         ExposedAreCovered(status, <<>>, later \cup {p.dirty})
  PROVE  /\ UnderWay(status, Cascade(p), p, later)
         /\ WaitsAreExcused(status, <<>>, later \cup {p.dirty}) =>
              Excused(status, Cascade(p), p, later)
<1> DEFINE f == Cascade(p)
           none == <<>>
<1>1. f \in Seq(Op)
  BY CascadeType
<1>2. PICK row, col : Placed(f, p, row, col)
  BY CascadePlaced
<1>3. OpsShape(f, p)
  BY <1>1, <1>2, PlacedShape
<1>4. /\ \A y \in DOMAIN f : Given(p, f[y].item, col[y], f[y].move)
      /\ \A y \in DOMAIN f : f[y].item \in {p.dirty} \cup Listed(p)
      /\ \A i \in {p.dirty} \cup Listed(p) : \A x, name :
           Given(p, i, x, name) => Left(f, i, name)
  <2>1. \A y \in DOMAIN f : Given(p, f[y].item, col[y], f[y].move)
    BY <1>2 DEF Placed
  <2>2. \A y \in DOMAIN f : f[y].item \in {p.dirty} \cup Listed(p)
    BY <1>2, NodesAt DEF Placed
  <2>3. ASSUME NEW i \in {p.dirty} \cup Listed(p), NEW x, NEW name, Given(p, i, x, name)
        PROVE  Left(f, i, name)
    <3>1. PICK r \in 1..(Len(p.affected) + 1) : NodeAt(p, r) = i
      BY NodesAt
    <3>2. PICK y \in DOMAIN f : f[y] = [move |-> name, item |-> NodeAt(p, r)]
      BY <1>2, <2>3, <3>1 DEF Placed
    <3> QED BY <3>1, <3>2 DEF Left
  <2> QED BY <2>1, <2>2, <2>3
<1>5. /\ p.dirty \in Items /\ Listed(p) \subseteq Items /\ p.dirty \notin Listed(p)
      /\ \A x \in Listed(p) : p.dirty \in Above(x)
  BY PlanFacts
<1>6. /\ \A i, name : ~Left(none, i, name)
      /\ \A i : none # <<[move |-> "revive", item |-> i]>>
  BY DEF Left
<1> HIDE DEF f, none
<1>7. \A y \in DOMAIN f : status[f[y].item] \in Working
  BY <1>4 DEF Given, MoveOf, Working, Running, Finished
<1>8. \A i \in Listed(p) : status[i] \in Working => Rest(f, i)
  <2> SUFFICES ASSUME NEW i \in Listed(p), status[i] \in Working PROVE Rest(f, i)
    OBVIOUS
  <2>1. CASE status[i] \in Running
    <3>1. Given(p, i, 1, "revokeLease")
      BY <1>5, <2>1 DEF Given, MoveOf
    <3> QED BY <1>4, <3>1, LeftIsRest
  <2>2. CASE status[i] \in Finished
    <3>1. Given(p, i, 1, "supersede")
      BY <1>5, <2>2 DEF Given, MoveOf
    <3> QED BY <1>4, <3>1, LeftIsRest
  <2>3. CASE status[i] = "ready"
    <3>1. Given(p, i, 1, "demote")
      BY <1>5, <2>3 DEF Given, MoveOf
    <3> QED BY <1>4, <3>1, LeftIsRest
  <2> QED BY <2>1, <2>2, <2>3 DEF Working, Running, Finished
<1>9. status[p.dirty] = "done" => Left(f, p.dirty, "markStale")
  <2> SUFFICES ASSUME status[p.dirty] = "done" PROVE Left(f, p.dirty, "markStale")
    OBVIOUS
  <2>1. Given(p, p.dirty, 3, "markStale")
    BY DEF Given, MoveOf, Finished
  <2> QED BY <1>4, <2>1
<1>10. \A n \in Items : /\ Exposed(status, f, n) => Exposed(status, none, n)
                        /\ status[n] \in Working => Exposed(status, f, n)
  BY <1>7 DEF Exposed, Left
<1>11. ExposedAreAnchored(status, f) /\ ExposedAreCovered(status, f, later \cup {p.dirty})
  <2>1. ExposedAreAnchored(status, none) /\ ExposedAreCovered(status, none, later \cup {p.dirty})
    BY DEF none
  <2>2. ExposedAreAnchored(status, f)
    BY <1>10, <2>1 DEF ExposedAreAnchored
  <2>3. ExposedAreCovered(status, f, later \cup {p.dirty})
    BY <1>10, <2>1 DEF ExposedAreCovered
  <2> QED BY <2>2, <2>3
<1>12. StatusesFit(status, f)
  BY <1>4 DEF StatusesFit, Given, MoveOf, Running, Finished, Off, Repudiations, Still
<1>13. \A m \in Listed(p) : Rest(f, m) =>
         \A a \in Above(m) : status[a] = "done" \/ (status[a] \in Off /\ Anchored(status, a))
  <2> SUFFICES ASSUME NEW m \in Listed(p), Rest(f, m), NEW a \in Above(m)
               PROVE  status[a] = "done" \/ (status[a] \in Off /\ Anchored(status, a))
    OBVIOUS
  <2>1. m \in Items /\ Exposed(status, f, m)
    BY <1>5, <1>7, <1>10 DEF Rest
  <2> QED BY <1>11, <2>1, AboveExposed
<1>14. PathsAreMoved(status, f, p)
  <2> SUFFICES ASSUME NEW m \in Listed(p), Rest(f, m), NEW t \in Between(p.dirty, m)
               PROVE  status[t] \in Off \/ Rest(f, t)
    BY DEF PathsAreMoved
  <2>1. t \in Listed(p) /\ t \in Above(m)
    BY DEF SoundPlan, Between
  <2> QED BY <1>8, <1>13, <2>1 DEF Working
<1>15. DirtyIsLast(status, f, p)
  <2> SUFFICES ASSUME NEW k \in DOMAIN f, f[k].item # p.dirty
               PROVE  \/ status[p.dirty] = "done" /\ Left(f, p.dirty, "markStale")
                      \/ status[p.dirty] \in Off /\ Anchored(status, p.dirty)
    BY DEF DirtyIsLast
  <2>1. f[k].item \in Listed(p) /\ Rest(f, f[k].item) /\ p.dirty \in Above(f[k].item)
    BY <1>4, <1>5 DEF Rest
  <2> QED BY <1>9, <1>13, <2>1
<1>16. MovedAreSound(status, f, p)
  BY <1>8 DEF MovedAreSound
<1>17. UnderWay(status, f, p, later)
  BY <1>1, <1>3, <1>11, <1>12, <1>14, <1>15, <1>16 DEF UnderWay, Sound, CascadeInv
<1>18. ASSUME WaitsAreExcused(status, none, later \cup {p.dirty})
       PROVE  Excused(status, f, p, later)
  <2> SUFFICES ASSUME NEW n \in Items, status[n] \in Off, Queue!UpstreamsDone(status, n)
               PROVE  DependsOn[n] \cap Reruns(later, f, p) # {}
    BY DEF Excused, WaitsAreExcused
  <2>1. PICK u \in DependsOn[n] : u \in later \cup {p.dirty}
    BY <1>6, <1>18 DEF WaitsAreExcused
  <2>2. status[u] = "done"
    BY DEF Queue!UpstreamsDone
  <2> QED BY <1>9, <2>1, <2>2 DEF Reruns
<1> QED BY <1>17, <1>18 DEF f, none

-----------------------------------------------------------------------------
(* The walk makes a sound plan: what it reaches grows until it is closed,  *)
(* and nearer nodes are listed first.                                      *)
Fresh(S) == {d \in Live : DependsOn[d] \cap S # {}}

LEMMA ReachGrows ==
  ASSUME NEW x \in Items, NEW n \in Nat
  PROVE  /\ Reach(x)[0] = {x} /\ Reach(x)[n] \subseteq Items
         /\ Reach(x)[n + 1] = Reach(x)[n] \cup Fresh(Reach(x)[n])
<1>1. n + 1 \in Nat /\ n + 1 # 0 /\ (n + 1) - 1 = n /\ 0 \in Nat
  OBVIOUS
<1> DEFINE r == Reach(x)
<1>2. r \in [Nat -> SUBSET Items]
  BY ReachType
<1>3. \A k \in Nat : r[k] = IF k = 0 THEN {x} ELSE r[k - 1] \cup Fresh(r[k - 1])
  BY ReachType DEF Fresh
<1> HIDE DEF r
<1>4. r[n + 1] = r[(n + 1) - 1] \cup Fresh(r[(n + 1) - 1])
  BY <1>1, <1>3
<1>5. r[n + 1] = r[n] \cup Fresh(r[n])
  BY <1>1, <1>4
<1>6. r[0] = {x} /\ r[n] \subseteq Items
  BY <1>1, <1>2, <1>3
<1> QED BY <1>5, <1>6 DEF r

LEMMA ReachMonotone ==
  ASSUME NEW x \in Items, NEW m \in Nat, NEW n \in Nat, m <= n
  PROVE  Reach(x)[m] \subseteq Reach(x)[n]
<1> DEFINE Wrong == {k \in Nat : m <= k /\ ~(Reach(x)[m] \subseteq Reach(x)[k])}
<1> SUFFICES ASSUME Wrong # {} PROVE FALSE
  OBVIOUS
<1>1. PICK k \in Wrong : \A j \in Wrong : k <= j
  BY LeastNat
<1>2. k # m
  BY <1>1
<1>3. k - 1 \in Nat /\ (k - 1) + 1 = k /\ m <= k - 1 /\ ~(k <= k - 1)
  BY <1>1, <1>2
<1>4. Reach(x)[m] \subseteq Reach(x)[k - 1]
  BY <1>1, <1>3
<1>5. Reach(x)[k - 1] \subseteq Reach(x)[(k - 1) + 1]
  BY <1>3, ReachGrows
<1> QED BY <1>1, <1>3, <1>4, <1>5

(* Once a step reaches nothing new, no later one does.                     *)
LEMMA ReachRests ==
  ASSUME NEW x \in Items, NEW m \in Nat, Reach(x)[m + 1] = Reach(x)[m], NEW n \in Nat, m <= n
  PROVE  Reach(x)[n] = Reach(x)[m]
<1> DEFINE Wrong == {k \in Nat : m <= k /\ Reach(x)[k] # Reach(x)[m]}
<1> SUFFICES ASSUME Wrong # {} PROVE FALSE
  OBVIOUS
<1>1. PICK k \in Wrong : \A j \in Wrong : k <= j
  BY LeastNat
<1>2. k # m
  BY <1>1
<1>3. k - 1 \in Nat /\ (k - 1) + 1 = k /\ m <= k - 1 /\ ~(k <= k - 1)
  BY <1>1, <1>2
<1>4. Reach(x)[k - 1] = Reach(x)[m]
  BY <1>1, <1>3
<1>5. /\ Reach(x)[(k - 1) + 1] = Reach(x)[k - 1] \cup Fresh(Reach(x)[k - 1])
      /\ Reach(x)[m + 1] = Reach(x)[m] \cup Fresh(Reach(x)[m])
  BY <1>3, ReachGrows
<1> QED BY <1>1, <1>3, <1>4, <1>5

LEMMA ReachIsClosed ==
  ASSUME NEW x \in Items
  PROVE  Fresh(Reach(x)[Cardinality(Items)]) \subseteq Reach(x)[Cardinality(Items)]
<1> DEFINE C == Cardinality(Items)
           r == Reach(x)
           Wrong == {k \in Nat : k <= C /\ ~(k + 1 <= Cardinality(r[k]))}
<1>1. IsFiniteSet(Items) /\ C \in Nat
  BY RunAssumption, FS_CardinalityType
<1>2. \A n \in Nat : r[n] \subseteq Items /\ IsFiniteSet(r[n]) /\ Cardinality(r[n]) \in Nat
                     /\ Cardinality(r[n]) <= C
  BY <1>1, ReachGrows, FS_Subset, FS_CardinalityType
<1> SUFFICES ASSUME r[C + 1] # r[C] PROVE FALSE
  BY <1>1, ReachGrows
<1> HIDE DEF C
<1>3. Wrong # {}
  <2>1. ~(C + 1 <= Cardinality(r[C])) /\ C <= C
    BY <1>1, <1>2
  <2> QED BY <1>1, <2>1
<1>4. PICK k \in Wrong : \A j \in Wrong : k <= j
  BY <1>3, LeastNat
<1>5. k # 0
  <2>1. r[0] = {x} /\ Cardinality({x}) = 1
    BY ReachGrows, FS_Singleton
  <2> QED BY <1>4, <2>1
<1>6. k - 1 \in Nat /\ (k - 1) + 1 = k /\ k - 1 <= C /\ k - 1 \notin Wrong
  BY <1>1, <1>4, <1>5
<1> DEFINE m == k - 1
<1>7. /\ m \in Nat /\ m + 1 = k /\ m <= C /\ m + 1 <= Cardinality(r[m]) /\ k \in Nat
      /\ k <= C /\ ~(k + 1 <= Cardinality(r[k]))
  BY <1>4, <1>6
<1> HIDE DEF m, r, Wrong
<1>8. r[m + 1] # r[m] /\ r[m] \subseteq r[m + 1]
  <2>1. r[m + 1] = r[m] => r[C] = r[m] /\ r[C + 1] = r[m]
    BY <1>1, <1>7, ReachRests DEF r
  <2>2. r[m] \subseteq r[m + 1]
    BY <1>7, ReachGrows DEF r
  <2> QED BY <2>1, <2>2
<1>9. PICK y \in r[k] : y \notin r[m]
  BY <1>7, <1>8
<1>10. Cardinality(r[m] \cup {y}) = Cardinality(r[m]) + 1
  BY <1>2, <1>7, <1>9, FS_AddElement
<1>11. Cardinality(r[m] \cup {y}) <= Cardinality(r[k])
  <2>1. r[m] \cup {y} \in SUBSET r[k] /\ IsFiniteSet(r[k])
    BY <1>2, <1>7, <1>8, <1>9
  <2> QED BY <2>1, FS_Subset
<1> QED BY <1>2, <1>7, <1>10, <1>11

(* What is reached hangs from x, with all that is between.                 *)
LEMMA ReachIsBelow ==
  ASSUME Forest, NEW x \in Items, NEW n \in Nat, NEW d \in Reach(x)[n]
  PROVE  d = x \/ (n > 0 /\ x \in Above(d) /\ Between(x, d) \subseteq Reach(x)[n - 1])
<1> DEFINE Good(k, e) ==
             e = x \/ (k > 0 /\ x \in Above(e) /\ Between(x, e) \subseteq Reach(x)[k - 1])
           Wrong == {k \in Nat : \E e \in Reach(x)[k] : ~Good(k, e)}
<1> SUFFICES ASSUME Wrong # {} PROVE FALSE
  OBVIOUS
<1>1. PICK k \in Wrong : \A j \in Wrong : k <= j
  BY LeastNat
<1>2. PICK e \in Reach(x)[k] : ~Good(k, e)
  BY <1>1
<1>3. k # 0
  BY <1>2, ReachGrows
<1> DEFINE m == k - 1
<1>4. /\ m \in Nat /\ m + 1 = k /\ ~(k <= m) /\ k > 0 /\ k \in Nat
      /\ m > 0 => m - 1 \in Nat /\ m - 1 <= m
  BY <1>1, <1>3
<1>5. /\ Reach(x)[k] = Reach(x)[m] \cup Fresh(Reach(x)[m])
      /\ Reach(x)[k] \subseteq Items /\ Reach(x)[m] \subseteq Items
      /\ m > 0 => Reach(x)[m - 1] \subseteq Reach(x)[m]
  <2>1. Reach(x)[m + 1] = Reach(x)[m] \cup Fresh(Reach(x)[m])
    BY <1>4, ReachGrows
  <2>2. Reach(x)[k] \subseteq Items /\ Reach(x)[m] \subseteq Items
    BY <1>4, ReachGrows
  <2>3. m > 0 => Reach(x)[m - 1] \subseteq Reach(x)[m]
    BY <1>4, ReachMonotone
  <2> QED BY <1>4, <2>1, <2>2, <2>3
<1>6. \A b \in Reach(x)[m] : Good(m, b)
  BY <1>1, <1>4
<1>7. ~(e = x) /\ ~(x \in Above(e) /\ Between(x, e) \subseteq Reach(x)[m])
  BY <1>2, <1>4
<1> HIDE DEF m
<1>8. CASE e \in Reach(x)[m]
  BY <1>5, <1>6, <1>7, <1>8
<1>9. CASE e \notin Reach(x)[m]
  <2>1. PICK u \in DependsOn[e] : u \in Reach(x)[m]
    BY <1>5, <1>9 DEF Fresh
  <2>2. e \in Items /\ u \in Items /\ u \in Above(e)
    BY <1>5, <2>1, AboveHolds
  <2>3. CASE u = x
    <3>1. Between(x, e) = {}
      BY <2>1, <2>2, <2>3, BetweenUpstream, AboveAcyclic
    <3> QED BY <1>7, <2>2, <2>3, <3>1
  <2>4. CASE u # x
    <3>1. x \in Above(u) /\ Between(x, u) \subseteq Reach(x)[m - 1] /\ m > 0
      BY <1>6, <2>1, <2>4
    <3>2. x \in Above(e)
      BY <2>2, <3>1, AboveTransitive
    <3>3. Between(x, e) = Between(x, u) \cup {u}
      BY <2>1, <2>2, <2>4, <3>2, BetweenUpstream
    <3> QED BY <1>5, <1>7, <2>1, <3>1, <3>2, <3>3
  <2> QED BY <2>3, <2>4
<1> QED BY <1>8, <1>9

(* A cover of x holds all that is reached from it.                         *)
LEMMA ReachIsCovered ==
  ASSUME NEW x \in Items, NEW R, x \in R, Covers(status, R), NEW n \in Nat
  PROVE  Reach(x)[n] \subseteq R
<1> DEFINE Wrong == {k \in Nat : ~(Reach(x)[k] \subseteq R)}
<1> SUFFICES ASSUME Wrong # {} PROVE FALSE
  OBVIOUS
<1>1. PICK k \in Wrong : \A j \in Wrong : k <= j
  BY LeastNat
<1>2. k # 0
  BY <1>1, ReachGrows
<1>3. k - 1 \in Nat /\ (k - 1) + 1 = k /\ ~(k <= k - 1)
  BY <1>1, <1>2
<1>4. Reach(x)[k - 1] \subseteq R
  BY <1>1, <1>3
<1>5. Reach(x)[k] = Reach(x)[k - 1] \cup Fresh(Reach(x)[k - 1])
  BY <1>3, ReachGrows
<1>6. Fresh(Reach(x)[k - 1]) \subseteq R
  BY <1>4 DEF Fresh, Live, Covers
<1> QED BY <1>1, <1>4, <1>5, <1>6

LEMMA DeeperBelow ==
  ASSUME Forest, NEW x \in Items, NEW a \in Dependents(x), NEW b \in Dependents(x),
         a \in Above(b)
  PROVE  ~(Depth(x, b) <= Depth(x, a))
<1> DEFINE C == Cardinality(Items)
           j == Depth(x, a)
           k == Depth(x, b)
<1>1. C \in Nat
  BY RunAssumption, FS_CardinalityType
<1>2. a \in Reach(x)[C] /\ b \in Reach(x)[C] /\ a # x /\ b # x
  BY DEF Dependents
<1>3. /\ j \in 0..C /\ (j > 0 => a \notin Reach(x)[j - 1])
      /\ k \in 0..C /\ b \in Reach(x)[k]
  BY <1>2, DepthType
<1> HIDE DEF C, j, k
<1>4. x \in Above(a)
  BY <1>1, <1>2, ReachIsBelow
<1>5. j \in Nat /\ k \in Nat
  BY <1>1, <1>3
<1>6. k > 0 /\ Between(x, b) \subseteq Reach(x)[k - 1]
  BY <1>2, <1>3, <1>5, ReachIsBelow
<1>7. a \in Reach(x)[k - 1]
  BY <1>4, <1>6 DEF Between
<1> SUFFICES ASSUME k <= j PROVE FALSE
  BY DEF j, k
<1>8. j > 0 /\ j - 1 \in Nat /\ k - 1 \in Nat /\ k - 1 <= j - 1
  BY <1>5, <1>6
<1> QED BY <1>3, <1>7, <1>8, ReachMonotone

LEMMA WalkListsOnce ==
  ASSUME NEW x \in Items, NEW p, p = [dirty |-> x, affected |-> WalkDependents(x)]
  PROVE  /\ p \in Plan /\ p.dirty = x /\ Listed(p) = Dependents(x)
         /\ \A j, k \in DOMAIN p.affected : p.affected[j] = p.affected[k] => j = k
         /\ Len(p.affected) = Cardinality(Dependents(x)) /\ IsFiniteSet(Dependents(x))
         /\ Dependents(x) \subseteq Items
<1> DEFINE S == Dependents(x)
           n == Cardinality(S)
           w == WalkDependents(x)
<1>1. S \subseteq Items /\ IsFiniteSet(S) /\ n \in Nat
  <2>1. S \subseteq Items
    BY ReachType, RunAssumption, FS_CardinalityType DEF Dependents
  <2> QED BY <2>1, RunAssumption, FS_Subset, FS_CardinalityType
<1>2. w \in Seq(Items) /\ w \in [1..n -> S] /\ \A j, k \in 1..n : j # k => w[j] # w[k]
  BY WalkType DEF SetToSeqs
<1>3. DOMAIN w = 1..n /\ Len(w) = n
  BY <1>1, <1>2
<1> HIDE DEF S, n, w
<1>4. w \in Injection(1..n, S)
  BY <1>2 DEF Injection, IsInjective
<1>5. Cardinality(1..n) = Cardinality(S)
  <2>1. 1 \in Int /\ n \in Int /\ (1 > n <=> n = 0) /\ n - 1 + 1 = n
    BY <1>1
  <2> QED BY <2>1, FS_Interval DEF n
<1>6. w \in Surjection(1..n, S)
  BY <1>1, <1>4, <1>5, FS_Injection
<1>7. {w[k] : k \in DOMAIN w} = S
  BY <1>2, <1>3, <1>6 DEF Surjection
<1>8. p.dirty = x /\ p.affected = w /\ p \in Plan
  BY <1>2 DEF Plan, w
<1> QED BY <1>1, <1>2, <1>3, <1>7, <1>8 DEF Listed, S, n

LEMMA WalkIsSound ==
  ASSUME Forest, NEW x \in Items, NEW p, p = [dirty |-> x, affected |-> WalkDependents(x)]
  PROVE  p \in Plan /\ SoundPlan(status, p) /\ (Narrow(status, x) => 1 + Len(p.affected) <= AutoMax)
<1> DEFINE C == Cardinality(Items)
           D == Dependents(x)
<1>1. C \in Nat
  BY RunAssumption, FS_CardinalityType
<1>2. /\ p \in Plan /\ p.dirty = x /\ Listed(p) = D
      /\ \A j, k \in DOMAIN p.affected : p.affected[j] = p.affected[k] => j = k
      /\ Len(p.affected) = Cardinality(D) /\ IsFiniteSet(D) /\ D \subseteq Items
  BY WalkListsOnce
<1>3. D = Reach(x)[C] \ {x} /\ x \in Reach(x)[C]
  <2>1. Reach(x)[0] = {x} /\ Reach(x)[0] \subseteq Reach(x)[C]
    BY <1>1, ReachGrows, ReachMonotone
  <2> QED BY <2>1 DEF Dependents
<1>4. {x} \cup D = Reach(x)[C]
  BY <1>3
<1> HIDE DEF C, D
<1>5. \A d \in D : x \in Above(d) /\ Between(x, d) \subseteq D
  <2> SUFFICES ASSUME NEW d \in D PROVE x \in Above(d) /\ Between(x, d) \subseteq D
    OBVIOUS
  <2>1. C > 0 /\ x \in Above(d) /\ Between(x, d) \subseteq Reach(x)[C - 1]
    BY <1>1, <1>3, ReachIsBelow
  <2>2. Reach(x)[C - 1] \subseteq Reach(x)[C]
    <3>1. C - 1 \in Nat /\ C - 1 <= C
      BY <1>1, <2>1
    <3> QED BY <1>1, <3>1, ReachMonotone
  <2>3. x \notin Between(x, d)
    BY AboveAcyclic DEF Between
  <2> QED BY <1>3, <2>1, <2>2, <2>3
<1>6. ASSUME NEW j \in DOMAIN p.affected, NEW k \in DOMAIN p.affected,
             p.affected[j] \in Above(p.affected[k])
      PROVE  j < k
  <2>1. p.affected[j] \in D /\ p.affected[k] \in D
    BY <1>2 DEF Listed
  <2>2. ~(Depth(x, p.affected[k]) <= Depth(x, p.affected[j]))
    BY <1>6, <2>1, DeeperBelow DEF D
  <2>3. ~(k < j)
    BY <2>2, WalkType
  <2>4. j # k
    BY <1>2, <1>6, <2>1, AboveAcyclic
  <2>5. j \in Nat /\ k \in Nat
    BY <1>2 DEF Plan
  <2> QED BY <2>3, <2>4, <2>5
<1>7. Covers(status, {x} \cup D)
  <2>1. Fresh(Reach(x)[C]) \subseteq Reach(x)[C]
    BY ReachIsClosed DEF C
  <2> QED BY <1>4, <2>1 DEF Covers, Fresh, Live
<1>8. SoundPlan(status, p)
  BY <1>2, <1>5, <1>6, <1>7 DEF SoundPlan
<1>9. ASSUME Narrow(status, x) PROVE 1 + Len(p.affected) <= AutoMax
  <2>1. PICK R \in SUBSET Items : x \in R /\ Cardinality(R) <= AutoMax /\ Covers(status, R)
    BY <1>9 DEF Narrow
  <2>2. D \cup {x} \subseteq R
    BY <1>1, <1>4, <2>1, ReachIsCovered
  <2>3. IsFiniteSet(R) /\ Cardinality(R) \in Nat
    BY <2>1, RunAssumption, FS_Subset, FS_CardinalityType
  <2>4. Cardinality(D \cup {x}) = Cardinality(D) + 1 /\ Cardinality(D) \in Nat
    BY <1>2, <1>3, FS_AddElement, FS_CardinalityType
  <2>5. Cardinality(D \cup {x}) <= Cardinality(R)
    BY <2>2, <2>3, FS_Subset
  <2> QED BY <1>2, <2>1, <2>3, <2>4, <2>5, EngineAssumption
<1> QED BY <1>2, <1>8, <1>9

-----------------------------------------------------------------------------
(* What the events still before the engine will invalidate unasked: their  *)
(* narrow causes, and the dirty nodes of the parked plans they approve.    *)
ApprovesPlan(e, q) ==
  /\ e.type = "hold" /\ e.request = q /\ e.verdict = "approved"
  /\ q \in DOMAIN parked /\ ~IsChange(q)

Will(e, c) ==
  \/ c \in Causes(e) /\ Narrow(status, c)
  \/ \E q \in Holds : ApprovesPlan(e, q) /\ parked[q].dirty = c

Begun == IF engine = Idle THEN ahead ELSE ahead + 1

Later ==
  {c \in Items : \/ \E k \in DOMAIN inbox : k > Begun /\ Will(inbox[k], c)
                 \/ engine # Idle /\ c \in engine.causes /\ Narrow(status, c)}

Coming == Later \cup {c \in Items : Handles("planned") /\ c = engine.plan.dirty}

Cascading == Handles("moves") /\ engine.plan # NoPlan

(* The nodes are sound: between cascades, and in the midst of one.         *)
Resting(s, W) ==
  /\ ExposedAreAnchored(s, <<>>) /\ ExposedAreCovered(s, <<>>, W)
  /\ crashes = 0 => WaitsAreExcused(s, <<>>, W)

NodesAreSound ==
  IF Cascading
    THEN /\ UnderWay(status, engine.ops, engine.plan, Later)
         /\ crashes = 0 => Excused(status, engine.ops, engine.plan, Later)
    ELSE Resting(status, Coming)

(* What is requested, what is parked, and what the handler has in hand.    *)
RequestsAreMade ==
  /\ \A q \in DOMAIN proposed :
       holds[q] # "none" /\ q \notin DOMAIN parked /\ proposed[q].skip \in Skippable
  /\ \A q \in DOMAIN parked :
       /\ holds[q] # "none"
       /\ IF IsChange(q) THEN parked[q].skip \in Skippable ELSE SoundPlan(status, parked[q])

AnsweredOnce ==
  \A j, k \in DOMAIN inbox :
    inbox[j].type = "hold" /\ inbox[k].type = "hold" /\ inbox[j].request = inbox[k].request
      => j = k

PlanInHand(e) ==
  \/ /\ engine.request = Idle /\ engine.plan.dirty \in Causes(e)
     /\ 1 + Len(engine.plan.affected) <= AutoMax
  \/ ApprovesPlan(e, engine.request) /\ parked[engine.request] = engine.plan

ChangeInHand(e) ==
  /\ engine.request = Idle \/ (e.type = "hold" /\ e.request = engine.request)
  /\ \A k \in DOMAIN engine.ops :
       \/ engine.ops[k].move = "resolveApproval"
       \/ engine.ops[k].move = "skip" /\ engine.ops[k].item \in Skippable

WorkInHand ==
  engine # Idle =>
    /\ engine.causes \subseteq Causes(inbox[ahead + 1])
    /\ engine.plan # NoPlan => SoundPlan(status, engine.plan)
    /\ engine.phase \in {"causes", "gating"} => engine.request = Idle
    /\ engine.phase = "parking" =>
         /\ holds[engine.request] # "none"
         /\ engine.request \notin DOMAIN proposed \cup DOMAIN parked
    /\ engine.phase = "planned" \/ Cascading => PlanInHand(inbox[ahead + 1])
    /\ engine.phase = "moves" /\ engine.plan = NoPlan => ChangeInHand(inbox[ahead + 1])

Book == crashes \in Nat /\ RequestsAreMade /\ AnsweredOnce /\ WorkInHand

-----------------------------------------------------------------------------
(* What the queue's steps do to the statuses.  Workers move executions on, *)
(* or finish one, which releases its dependents.                           *)
Keeps(s, t) ==
  \A j \in Items : /\ t[j] \in Off <=> s[j] \in Off
                   /\ t[j] = "done" <=> s[j] = "done"
                   /\ s[j] \in Finished => t[j] \in Finished
                   /\ t[j] \in Working => s[j] \in Working

LEMMA SettlesStep ==
  ASSUME Forest, QueueShape, NEW i \in Items, NEW path, path[Len(path)] = "done",
         Queue!Settle(i, path), status[i] \in Working, status[i] # "done"
  PROVE  Settles(status, status', i) /\ Cancels(status, status')
<1> DEFINE s == [status EXCEPT ![i] = "done"]
           up == Queue!Promotable(s, i)
<1>1. status' = [j \in Items |-> IF j \in up THEN "ready" ELSE s[j]]
  BY DEF Queue!Settle
<1>2. s[i] = "done" /\ \A j \in Items : j # i => s[j] = status[j]
  BY DEF QueueShape
<1>3. \A j \in Items : i \in DependsOn[j] => j # i /\ Queue!UpstreamsDone(s, j)
  <2> SUFFICES ASSUME NEW j \in Items, i \in DependsOn[j]
               PROVE  j # i /\ Queue!UpstreamsDone(s, j)
    OBVIOUS
  <2>1. i \in Above(j)
    BY AboveHolds
  <2>2. \A u \in DependsOn[j] : u = i
    BY DEF Forest, OneUpstream
  <2> QED BY <1>2, <2>1, <2>2, AboveAcyclic DEF Queue!UpstreamsDone
<1>4. up = {j \in Items : i \in DependsOn[j] /\ s[j] \in {"pending", "stale"}}
  BY <1>3 DEF Queue!Promotable
<1> HIDE DEF s, up
<1>5. \A j \in Items \ {i} :
        status'[j] = IF i \in DependsOn[j] /\ status[j] \in Off THEN "ready" ELSE status[j]
  BY <1>1, <1>2, <1>4 DEF Off
<1>6. status'[i] = "done"
  BY <1>1, <1>2, <1>4
<1> QED BY <1>5, <1>6 DEF Settles, Cancels, Off, Working

LEMMA CompleteStep ==
  ASSUME Forest, QueueShape, LeasesRide, NEW t \in issued, NEW o \in Outcomes,
         Queue!Complete(t, o)
  PROVE  /\ Cancels(status, status')
         /\ \/ Keeps(status, status')
            \/ \E i \in Items : Settles(status, status', i) /\ status[i] \notin Finished
<1> DEFINE to == Queue!OutcomeToStatus[o]
           i == t.item
           path == Queue!RunPath(status[i], to)
<1>1. path[Len(path)] = to
  BY DEF Queue!RunPath
<1>2. i \in Items /\ Queue!Settle(i, path)
  BY DEF QueueShape, Queue!Complete
<1>3. status[i] \in {"claimed", "running"}
  BY <1>2 DEF LeasesRide, Queue!LeaseRidesExecution, Queue!Complete, Queue!Held
<1>4. to \in {"done", "awaiting_approval", "blocked", "failed", "cancelled"}
  BY RunAssumption DEF Queue!OutcomeToStatus
<1> HIDE DEF path
<1>5. CASE to = "done"
  <2>1. Settles(status, status', i) /\ Cancels(status, status')
    BY <1>1, <1>2, <1>3, <1>5, SettlesStep DEF Working
  <2> QED BY <1>2, <1>3, <2>1 DEF Finished
<1>6. CASE to # "done"
  <2>1. status' = [j \in Items |-> [status EXCEPT ![i] = to][j]]
    BY <1>1, <1>2, <1>6 DEF Queue!Settle
  <2>2. status'[i] = to /\ \A j \in Items : j # i => status'[j] = status[j]
    BY <1>2, <2>1 DEF QueueShape
  <2>3. Keeps(status, status') /\ Cancels(status, status')
    BY <1>2, <1>3, <1>4, <1>6, <2>2 DEF Keeps, Cancels, Off, Working, Finished
  <2> QED BY <2>3
<1> QED BY <1>5, <1>6

LEMMA WorkStep ==
  ASSUME Forest, QueueShape, LeasesRide, Work
  PROVE  /\ Cancels(status, status')
         /\ \/ Keeps(status, status')
            \/ \E i \in Items : Settles(status, status', i) /\ status[i] \notin Finished
<1>1. ASSUME NEW p \in Principals, NEW i \in Items, Queue!Claim(p, i)
      PROVE  Keeps(status, status') /\ Cancels(status, status')
  <2>1. status[i] = "ready" /\ status' = [status EXCEPT ![i] = "claimed"]
    BY <1>1 DEF Queue!Claim
  <2>2. status'[i] = "claimed" /\ \A j \in Items : j # i => status'[j] = status[j]
    BY <2>1 DEF QueueShape
  <2> QED BY <2>1, <2>2 DEF Keeps, Cancels, Off, Working, Finished
<1>2. ASSUME NEW t \in issued, Queue!Release(t)
      PROVE  Keeps(status, status') /\ Cancels(status, status')
  <2> DEFINE i == t.item
  <2>1. i \in Items /\ status' = [status EXCEPT ![i] = "ready"]
    BY <1>2 DEF QueueShape, Queue!Release, Queue!Transition
  <2>2. status[i] \in {"claimed", "running"}
    BY <1>2, <2>1 DEF LeasesRide, Queue!LeaseRidesExecution, Queue!Release, Queue!Held
  <2>3. status'[i] = "ready" /\ \A j \in Items : j # i => status'[j] = status[j]
    BY <2>1 DEF QueueShape
  <2> QED BY <2>1, <2>2, <2>3 DEF Keeps, Cancels, Off, Working, Finished
<1> QED BY <1>1, <1>2, CompleteStep DEF Work

(* The engine's moves change one node, to the move's target, which its     *)
(* status allows; an approval settles the node.                            *)
LEMMA MoveStep ==
  ASSUME Forest, QueueShape, NEW op \in Op, Possible(op), Apply(op)
  PROVE  /\ Cancels(status, status')
         /\ op.move \in Still => status' = status
         /\ op.move = "resolveApproval" => Settles(status, status', op.item)
         /\ op.move \notin {"resolveApproval"} \cup Still =>
              /\ Changes(status, status', op.item) /\ status'[op.item] = Target(op)
              /\ Target(op) \in Queue!Transitions(status[op.item])
<1> DEFINE i == op.item
<1>0. i \in Items /\ op.move \in Names
  BY DEF Op
<1>1. CASE op.move \in Still
  <2>1. status' = status
    BY <1>1 DEF Apply, queue, Still
  <2> QED BY <1>1, <2>1 DEF Cancels, Still
<1>2. CASE op.move = "resolveApproval"
  <2> DEFINE path == <<status[i], "done">>
  <2>1. path[Len(path)] = "done" /\ Queue!Settle(i, path)
    BY <1>2 DEF Apply, Still, Queue!ResolveApproval
  <2>2. status[i] \in Working /\ status[i] # "done"
    BY <1>2 DEF Possible, Target, Queue!Transitions, Working, Still
  <2> HIDE DEF path
  <2>3. Settles(status, status', i) /\ Cancels(status, status')
    BY <1>0, <2>1, <2>2, SettlesStep
  <2> QED BY <1>2, <2>3 DEF Still
<1>3. CASE op.move \notin {"resolveApproval"} \cup Still
  <2>1. Queue!Transition(i, Target(op))
    BY <1>0, <1>3 DEF Apply, Target, Names, Still, Queue!Cancel, Queue!RevokeLease,
                      Queue!Demote, Queue!MarkStale, Queue!Revive
  <2>2. /\ Target(op) \in Queue!Transitions(status[i])
        /\ status' = [status EXCEPT ![i] = Target(op)]
    BY <2>1 DEF Queue!Transition
  <2>3. status'[i] = Target(op) /\ \A j \in Items : j # i => status'[j] = status[j]
    BY <1>0, <2>2 DEF QueueShape
  <2>4. status[i] # "cancelled"
    BY <2>2 DEF Queue!Transitions
  <2> QED BY <1>3, <2>2, <2>3, <2>4 DEF Cancels, Changes
<1> QED BY <1>1, <1>2, <1>3

-----------------------------------------------------------------------------
(* What is to come stays so until the handler takes it up.                 *)
LEMMA NoPlanIsNone == NoPlan \notin Plan /\ Idle \notin Holds /\ Idle \notin Handlers
<1>1. NoPlan \notin Plan
  BY IdleAssumption DEF NoPlan, Plan
<1> QED BY <1>1, IdleAssumption

LEMMA WillKept ==
  ASSUME Cancels(status, status'), NEW e, NEW c, Will(e, c),
         \A q \in Holds : ApprovesPlan(e, q) => q \in DOMAIN parked' /\ parked'[q] = parked[q]
  PROVE  Will(e, c)'
<1>1. CASE c \in Causes(e) /\ Narrow(status, c)
  <2>1. Narrow(status', c)
    BY <1>1, CancelsKeep
  <2> QED BY <1>1, <2>1 DEF Will, Causes
<1>2. ASSUME NEW q \in Holds, ApprovesPlan(e, q), parked[q].dirty = c PROVE Will(e, c)'
  <2>1. ApprovesPlan(e, q)' /\ parked'[q].dirty = c
    BY <1>2 DEF ApprovesPlan, IsChange
  <2> QED BY <2>1 DEF Will
<1> QED BY <1>1, <1>2 DEF Will

(* What is still to come stays so while the events ahead are kept, with    *)
(* the plans they approve, and the causes in hand too, or their event.     *)
EventsStayAhead ==
  \A k \in DOMAIN inbox : k > Begun =>
    /\ \E j \in DOMAIN inbox' : j > Begun' /\ inbox'[j] = inbox[k]
    /\ \A q \in Holds : ApprovesPlan(inbox[k], q) => q \in DOMAIN parked' /\ parked'[q] = parked[q]

LEMMA EventKept ==
  ASSUME Cancels(status, status'), NEW c \in Items, NEW k \in DOMAIN inbox, Will(inbox[k], c),
         \E j \in DOMAIN inbox' : j > Begun' /\ inbox'[j] = inbox[k],
         \A q \in Holds : ApprovesPlan(inbox[k], q)
                           => q \in DOMAIN parked' /\ parked'[q] = parked[q]
  PROVE  c \in Later'
<1>1. PICK j \in DOMAIN inbox' : j > Begun' /\ inbox'[j] = inbox[k]
  OBVIOUS
<1>2. PICK e : e = inbox[k]
  OBVIOUS
<1>3. \A q \in Holds : ApprovesPlan(e, q) => q \in DOMAIN parked' /\ parked'[q] = parked[q]
  BY <1>2
<1>4. Will(e, c)
  BY <1>2
<1>5. Will(e, c)'
  BY <1>3, <1>4, WillKept
<1>6. inbox'[j] = e
  BY <1>1, <1>2
<1>7. Will(inbox[j], c)'
  BY <1>5, <1>6 DEF Will, ApprovesPlan, Causes
<1> QED BY <1>1, <1>7 DEF Later

LEMMA CauseKept ==
  ASSUME Cancels(status, status'), NEW c \in Items, Narrow(status, c),
         \/ engine' # Idle /\ c \in engine'.causes
         \/ \E j \in DOMAIN inbox' : j > Begun' /\ c \in Causes(inbox'[j])
  PROVE  c \in Later'
<1>1. Narrow(status', c)
  BY CancelsKeep
<1> QED BY <1>1 DEF Later, Will, Causes

LEMMA LaterKept ==
  ASSUME Cancels(status, status'), EventsStayAhead,
         \A c \in Items : engine # Idle /\ c \in engine.causes /\ Narrow(status, c) => c \in Later'
  PROVE  Later \subseteq Later'
<1> SUFFICES ASSUME NEW c \in Later PROVE c \in Later'
  OBVIOUS
<1>1. c \in Items
  BY DEF Later
<1>2. ASSUME NEW k \in DOMAIN inbox, k > Begun, Will(inbox[k], c) PROVE c \in Later'
  BY <1>1, <1>2, EventKept DEF EventsStayAhead
<1> QED BY <1>1, <1>2 DEF Later

LEMMA LaterStays ==
  ASSUME Cancels(status, status'), EventsStayAhead,
         engine # Idle => engine' # Idle /\ engine.causes \subseteq engine'.causes
  PROVE  Later \subseteq Later'
BY CauseKept, LaterKept

(* Soundness is kept, between cascades, when nothing that is to come is    *)
(* dropped, and while nothing is moved and the handler does not act.       *)
LEMMA RestKept ==
  ASSUME NEW s, NEW W, NEW X, W \subseteq X, Resting(s, W), crashes' = 0 => crashes = 0
  PROVE  /\ ExposedAreAnchored(s, <<>>) /\ ExposedAreCovered(s, <<>>, X)
         /\ crashes' = 0 => WaitsAreExcused(s, <<>>, X)
BY MoreComing DEF Resting

LEMMA RestingKept ==
  ASSUME NodesAreSound, ~Cascading, ~Cascading', status' = status, Coming \subseteq Coming',
         crashes' = 0 => crashes = 0
  PROVE  NodesAreSound'
<1>1. Resting(status, Coming)
  BY DEF NodesAreSound
<1>2. /\ ExposedAreAnchored(status, <<>>) /\ ExposedAreCovered(status, <<>>, Coming')
      /\ crashes' = 0 => WaitsAreExcused(status, <<>>, Coming')
  BY <1>1, RestKept
<1>3. Resting(status, Coming)'
  BY <1>2 DEF Resting
<1> QED BY <1>3 DEF NodesAreSound

LEMMA UnderWayMore ==
  ASSUME NEW s, NEW ops, NEW p, NEW W, NEW X, W \subseteq X
  PROVE  /\ UnderWay(s, ops, p, W) => UnderWay(s, ops, p, X)
         /\ Excused(s, ops, p, W) => Excused(s, ops, p, X)
<1>1. W \cup {p.dirty} \subseteq X \cup {p.dirty} /\ Reruns(W, ops, p) \subseteq Reruns(X, ops, p)
  BY DEF Reruns
<1>2. UnderWay(s, ops, p, W) => UnderWay(s, ops, p, X)
  BY <1>1, MoreComing DEF UnderWay, Sound
<1>3. Excused(s, ops, p, W) => Excused(s, ops, p, X)
  BY <1>1, MoreComing DEF Excused
<1> QED BY <1>2, <1>3

LEMMA SoundKept ==
  ASSUME NodesAreSound, UNCHANGED <<status, engine, crashes>>, EventsStayAhead
  PROVE  NodesAreSound'
<1>1. Cancels(status, status')
  BY DEF Cancels
<1>2. Later \subseteq Later'
  BY <1>1, LaterStays
<1>3. CASE Cascading
  <2>1. /\ UnderWay(status, engine.ops, engine.plan, Later')
        /\ crashes = 0 => Excused(status, engine.ops, engine.plan, Later')
    BY <1>2, <1>3, UnderWayMore DEF NodesAreSound
  <2>2. Cascading'
    BY <1>3 DEF Cascading, Handles
  <2> QED BY <2>1, <2>2 DEF NodesAreSound
<1>4. CASE ~Cascading
  <2>1. ~Cascading'
    BY <1>4 DEF Cascading, Handles
  <2>2. Coming \subseteq Coming'
    BY <1>2 DEF Coming, Handles
  <2> QED BY <1>4, <2>1, <2>2, RestingKept
<1> QED BY <1>3, <1>4

-----------------------------------------------------------------------------
(* No step brings a cancelled node back.                                   *)
LEMMA CancelsStep ==
  ASSUME Forest, Shape, [Next]_vars
  PROVE  Cancels(status, status')
<1>1. CASE Work
  BY <1>1, WorkStep DEF Shape
<1>2. CASE Move
  <2> DEFINE op == Head(engine.ops)
  <2>1. op \in Op
    BY <1>2, HeadType DEF Move, Shape
  <2>2. Possible(op) /\ Apply(op)
    BY <1>2 DEF Move
  <2> HIDE DEF op
  <2> QED BY <2>1, <2>2, MoveStep DEF Shape
<1>3. CASE ~Work /\ ~Move
  <2>1. status' = status
    BY <1>3
    DEF Next, Engine, RequestReview, ResolveReview, ResolveHold, ProposeSkip, ParkSkip, NewDoc,
        Receive, PlanInvalidation, RequestPlan, ParkPlan, ReadStatuses, Executed, Finish,
        Persist, Throw, Crash, queue, vars
  <2> QED BY <2>1 DEF Cancels
<1> QED BY <1>1, <1>2, <1>3

(* A request is answered once.                                             *)
LEMMA AnsweredOnceStep ==
  ASSUME Shape, Answered, AnsweredOnce, [Next]_vars
  PROVE  AnsweredOnce'
<1>1. CASE inbox' = inbox
  BY <1>1 DEF AnsweredOnce
<1>2. ASSUME NEW e \in Event, inbox' = Append(inbox, e),
             e.type = "hold" => holds[e.request] = "pending"
      PROVE  AnsweredOnce'
  <2>1. \A k \in DOMAIN inbox' : (k \in DOMAIN inbox /\ inbox'[k] = inbox[k])
                                 \/ (k = Len(inbox) + 1 /\ inbox'[k] = e)
    <3>1. \A k \in DOMAIN inbox' : k \in DOMAIN inbox \/ k = Len(inbox) + 1
      BY <1>2 DEF Shape, EngineShape
    <3> QED BY <1>2, <3>1, AppendType DEF Shape
  <2>2. \A k \in DOMAIN inbox :
          e.type = "hold" /\ inbox[k].type = "hold" => inbox[k].request # e.request
    <3> SUFFICES ASSUME NEW k \in DOMAIN inbox, e.type = "hold", inbox[k].type = "hold",
                        inbox[k].request = e.request
                 PROVE  FALSE
      OBVIOUS
    <3>1. inbox[k] \in Event
      BY DEF Shape, EngineShape
    <3> QED BY <1>2, <3>1, VerdictsAreFinal DEF Answered
  <2> QED BY <2>1, <2>2 DEF AnsweredOnce
<1>3. CASE inbox' = SubSeq(inbox, ahead + 1, Len(inbox)) /\ ahead' = 0
  <2>1. \A k \in DOMAIN inbox' : k + ahead \in DOMAIN inbox /\ inbox'[k] = inbox[k + ahead]
    BY <1>3, ReadEnds DEF Shape
  <2>2. \A k \in DOMAIN inbox' : k \in Nat
    BY <1>3, ReadEnds DEF Shape
  <2>3. ahead \in Nat
    BY DEF Shape, EngineShape
  <2> SUFFICES ASSUME NEW j \in DOMAIN inbox', NEW k \in DOMAIN inbox',
                      inbox'[j].type = "hold", inbox'[k].type = "hold",
                      inbox'[j].request = inbox'[k].request
               PROVE  j = k
    BY DEF AnsweredOnce
  <2>4. j + ahead = k + ahead
    BY <2>1 DEF AnsweredOnce
  <2> QED BY <2>2, <2>3, <2>4
<1> QED BY <1>1, <1>2, <1>3, InboxChange DEF Shape

LEMMA RowsKept ==
  ASSUME RequestsAreMade, Cancels(status, status'), UNCHANGED <<holds, proposed>>,
         \A q \in DOMAIN parked' : q \in DOMAIN parked /\ parked'[q] = parked[q]
  PROVE  RequestsAreMade'
<1>1. \A q \in DOMAIN parked' : ~IsChange(q) => SoundPlan(status', parked[q])
  BY CancelsKeep DEF RequestsAreMade
<1> QED BY <1>1 DEF RequestsAreMade, IsChange

(* What is requested is made of nodes that may be skipped and sound plans. *)
LEMMA RequestsStep ==
  ASSUME Forest, Shape, RequestsAreMade, WorkInHand, [Next]_vars
  PROVE  RequestsAreMade'
<1>0. /\ Cancels(status, status') /\ DOMAIN holds = Holds
      /\ DOMAIN proposed \subseteq Holds /\ DOMAIN parked \subseteq Holds
  BY CancelsStep DEF Shape, RequestShape
<1>1. ASSUME NEW q \in Holds, NEW v \in Verdicts, ResolveHold(q, v) PROVE RequestsAreMade'
  <2>1. UNCHANGED <<status, proposed, parked>> /\ \A r : IsChange(r)' <=> IsChange(r)
    BY <1>1 DEF ResolveHold, queue, IsChange
  <2>2. \A r \in Holds : holds[r] # "none" => holds'[r] # "none"
    BY <1>0, <1>1, VerdictsAreFinal DEF ResolveHold
  <2> QED BY <1>0, <2>1, <2>2 DEF RequestsAreMade
<1>2. ASSUME NEW q \in Holds, NEW i \in Items, ProposeSkip(q, i) PROVE RequestsAreMade'
  <2>1. UNCHANGED <<status, parked>> /\ \A r : IsChange(r)' <=> IsChange(r)
    BY <1>2 DEF ProposeSkip, queue, IsChange
  <2>2. holds[q] = "none" /\ holds' = [holds EXCEPT ![q] = "pending"] /\ i \in Skippable
    BY <1>2 DEF ProposeSkip
  <2>3. q \notin DOMAIN parked /\ holds'[q] = "pending"
        /\ \A r \in Holds : r # q => holds'[r] = holds[r]
    BY <1>0, <2>2 DEF RequestsAreMade
  <2>4. \A r \in DOMAIN proposed' :
          IF r = q THEN proposed'[r] = [skip |-> i]
                   ELSE r \in DOMAIN proposed /\ proposed'[r] = proposed[r]
    BY <1>2 DEF ProposeSkip, Put
  <2>5. \A r \in DOMAIN proposed' :
          holds'[r] # "none" /\ r \notin DOMAIN parked' /\ proposed'[r].skip \in Skippable
    BY <1>0, <2>1, <2>2, <2>3, <2>4 DEF RequestsAreMade
  <2>6. \A r \in DOMAIN parked : holds'[r] # "none"
    BY <1>0, <2>3 DEF RequestsAreMade
  <2> QED BY <2>1, <2>5, <2>6 DEF RequestsAreMade
<1>3. ASSUME NEW q \in Holds, ParkSkip(q) PROVE RequestsAreMade'
  <2>1. UNCHANGED <<status, holds>> /\ q \in DOMAIN proposed /\ proposed[q] \in Change
    BY <1>3 DEF ParkSkip, queue, Shape, RequestShape
  <2>2. \A r \in DOMAIN parked' :
          IF r = q THEN parked'[r] = proposed[q]
                   ELSE r \in DOMAIN parked /\ parked'[r] = parked[r]
    BY <1>3 DEF ParkSkip, Put
  <2>3. \A r \in DOMAIN proposed' : r \in DOMAIN proposed /\ r # q /\ proposed'[r] = proposed[r]
    BY <1>3 DEF ParkSkip, Restrict
  <2>4. "skip" \in DOMAIN proposed[q]
    BY <2>1, PlanIsNoChange
  <2> QED BY <2>1, <2>2, <2>3, <2>4 DEF RequestsAreMade, IsChange
<1>4. CASE Receive \/ Executed
  <2>1. \/ parked' = parked
        \/ \E q : parked' = Restrict(parked, DOMAIN parked \ {q})
    BY <1>4 DEF Receive, Executed
  <2>2. \A r \in DOMAIN parked' : r \in DOMAIN parked /\ parked'[r] = parked[r]
    BY <2>1 DEF Restrict
  <2>3. UNCHANGED <<holds, proposed>>
    BY <1>4 DEF Receive, Executed, requests
  <2> QED BY <1>0, <2>2, <2>3, RowsKept
<1>5. ASSUME NEW q \in Holds, RequestPlan(q) PROVE RequestsAreMade'
  <2>1. UNCHANGED <<status, proposed, parked>> /\ \A r : IsChange(r)' <=> IsChange(r)
    BY <1>5 DEF RequestPlan, queue, IsChange
  <2>2. \A r \in Holds : holds[r] # "none" => holds'[r] # "none"
    BY <1>0, <1>5 DEF RequestPlan
  <2> QED BY <1>0, <2>1, <2>2 DEF RequestsAreMade
<1>6. CASE ParkPlan
  <2> DEFINE q == engine.request
  <2>1. /\ engine # Idle /\ engine.phase = "parking" /\ UNCHANGED <<status, holds, proposed>>
        /\ parked' = Put(parked, q, engine.plan)
    BY <1>6 DEF ParkPlan, Handles, requests, queue
  <2>2. engine.plan \in Plan /\ engine.plan # NoPlan
    BY <2>1, NoPlanIsNone DEF Shape, EngineShape
  <2>3. SoundPlan(status, engine.plan) /\ holds[q] # "none" /\ q \notin DOMAIN proposed
    BY <2>1, <2>2 DEF WorkInHand
  <2>4. "skip" \notin DOMAIN engine.plan
    BY <2>2, PlanIsNoChange
  <2> HIDE DEF q
  <2>5. \A r \in DOMAIN parked' :
          IF r = q THEN parked'[r] = engine.plan
                   ELSE r \in DOMAIN parked /\ parked'[r] = parked[r]
    BY <2>1 DEF Put
  <2>6. \A r \in DOMAIN parked' :
          /\ holds[r] # "none"
          /\ IF IsChange(r)' THEN parked'[r].skip \in Skippable ELSE SoundPlan(status, parked'[r])
    BY <2>3, <2>4, <2>5 DEF RequestsAreMade, IsChange
  <2>7. \A r \in DOMAIN proposed : r \notin DOMAIN parked'
    BY <2>3, <2>5 DEF RequestsAreMade
  <2> QED BY <2>1, <2>6, <2>7 DEF RequestsAreMade
<1>7. CASE \/ Work \/ PlanInvalidation \/ ReadStatuses \/ Move \/ Finish \/ Persist \/ Throw
           \/ Crash \/ (\E nodes \in SUBSET Items \ {{}} : NewDoc(nodes))
           \/ (\E i \in Items : RequestReview(i))
           \/ (\E i \in Items, a \in 1..MaxAttempt, v \in Verdicts : ResolveReview(i, a, v))
           \/ UNCHANGED vars
  <2>1. UNCHANGED <<holds, proposed, parked>>
    BY <1>7
    DEF Work, PlanInvalidation, ReadStatuses, Move, Finish, Persist, Throw, Crash, NewDoc,
        RequestReview, ResolveReview, requests, vars
  <2> QED BY <1>0, <2>1, RowsKept
<1> QED BY <1>1, <1>2, <1>3, <1>4, <1>5, <1>6, <1>7 DEF Next, Engine

LEMMA CausesType ==
  ASSUME NEW e \in Event
  PROVE  Causes(e) \in SUBSET Items
BY DEF Causes, Event

(* What the handler takes up with an event: an approval's one move, the    *)
(* parked plan that was approved, or the event's causes.                   *)
LEMMA BeginOutcome ==
  ASSUME QueueShape, RequestShape, NEW e \in Event, NEW h, h = Begin(e)
  PROVE  \/ /\ h.phase = "moves" /\ h.plan = NoPlan /\ h.causes = {}
            /\ \/ e.type = "review" /\ h.request = Idle /\ Causes(e) = {}
                  /\ h.ops = <<[move |-> "resolveApproval", item |-> e.item]>>
               \/ HeldBy(e) /\ h.request = e.request /\ IsChange(e.request)
                  /\ h.ops = <<[move |-> "skip", item |-> parked[e.request].skip]>>
         \/ /\ h.phase = "planned" /\ h.causes = {} /\ HeldBy(e) /\ e.verdict = "approved"
            /\ h.request = e.request /\ h.plan = parked[e.request] /\ ~IsChange(e.request)
         \/ /\ h.phase = "causes" /\ h.plan = NoPlan /\ h.request = Idle /\ h.causes = Causes(e)
            /\ HeldBy(e) => e.verdict # "approved"
<1>1. CASE e.type = "review" /\ e.verdict = "approved" /\ status[e.item] = "awaiting_approval"
  <2> DEFINE g == Handler("moves", {})
             ops == <<[move |-> "resolveApproval", item |-> e.item]>>
  <2>1. g.phase = "moves" /\ g.causes = {} /\ g.plan = NoPlan /\ g.request = Idle
    BY DEF Handler
  <2>2. g \in Handlers
    BY HandlerType DEF Phases
  <2>3. h = [g EXCEPT !.ops = ops]
    BY <1>1 DEF Begin, HeldBy
  <2>4. Causes(e) = {}
    BY <1>1 DEF Causes
  <2> HIDE DEF g, ops
  <2>5. h.phase = "moves" /\ h.causes = {} /\ h.plan = NoPlan /\ h.request = Idle /\ h.ops = ops
    BY <2>1, <2>2, <2>3 DEF Handlers
  <2> QED BY <1>1, <2>4, <2>5 DEF ops
<1>2. CASE HeldBy(e) /\ e.verdict = "approved" /\ "skip" \in DOMAIN parked[e.request]
  <2> DEFINE g == Handler("moves", {})
             ops == <<[move |-> "skip", item |-> parked[e.request].skip]>>
  <2>1. g.phase = "moves" /\ g.causes = {} /\ g.plan = NoPlan
    BY DEF Handler
  <2>2. g \in Handlers
    BY HandlerType DEF Phases
  <2>3. h = [g EXCEPT !.ops = ops, !.request = e.request]
    BY <1>2 DEF Begin, HeldBy
  <2> HIDE DEF g, ops
  <2>4. /\ h.phase = "moves" /\ h.causes = {} /\ h.plan = NoPlan
        /\ h.request = e.request /\ h.ops = ops
    BY <2>1, <2>2, <2>3 DEF Handlers
  <2> QED BY <1>2, <2>4 DEF ops, IsChange
<1>3. CASE HeldBy(e) /\ e.verdict = "approved" /\ "skip" \notin DOMAIN parked[e.request]
  <2> DEFINE g == Handler("planned", {})
             plan == parked[e.request]
  <2>1. g.phase = "planned" /\ g.causes = {}
    BY DEF Handler
  <2>2. g \in Handlers
    BY HandlerType DEF Phases
  <2>3. h = [g EXCEPT !.plan = plan, !.request = e.request]
    BY <1>3 DEF Begin, HeldBy
  <2> HIDE DEF g, plan
  <2>4. h.phase = "planned" /\ h.causes = {} /\ h.request = e.request /\ h.plan = plan
    BY <2>1, <2>2, <2>3 DEF Handlers
  <2> QED BY <1>3, <2>4 DEF plan, IsChange
<1>4. CASE /\ ~(e.type = "review" /\ e.verdict = "approved"
                /\ status[e.item] = "awaiting_approval")
           /\ ~(HeldBy(e) /\ e.verdict = "approved")
  <2>1. h = Handler("causes", Causes(e))
    BY <1>4 DEF Begin
  <2> QED BY <1>4, <2>1 DEF Handler
<1> QED BY <1>1, <1>2, <1>3, <1>4

(* While others act, what the handler has in hand stays right.             *)
LEMMA HandKept ==
  ASSUME WorkInHand, engine # Idle, UNCHANGED <<engine, ahead>>, Cancels(status, status'),
         inbox'[ahead + 1] = inbox[ahead + 1],
         \A q \in DOMAIN parked : q \in DOMAIN parked' /\ parked'[q] = parked[q],
         engine.phase = "parking" =>
           /\ holds'[engine.request] # "none"
           /\ engine.request \notin DOMAIN proposed' \cup DOMAIN parked'
  PROVE  WorkInHand'
<1> DEFINE e == inbox[ahead + 1]
<1>1. PICK d : d = e
  OBVIOUS
<1>2. inbox'[ahead' + 1] = d
  BY <1>1
<1>3. PlanInHand(d) => PlanInHand(d)'
  BY DEF PlanInHand, ApprovesPlan, IsChange, Causes
<1>4. ChangeInHand(d) => ChangeInHand(d)'
  BY DEF ChangeInHand
<1>5. engine.plan # NoPlan /\ SoundPlan(status, engine.plan) => SoundPlan(status', engine.plan)
  BY CancelsKeep
<1>6. /\ engine.causes \subseteq Causes(d)
      /\ engine.plan # NoPlan => SoundPlan(status, engine.plan)
      /\ engine.phase \in {"causes", "gating"} => engine.request = Idle
      /\ engine.phase = "planned" \/ Cascading => PlanInHand(d)
      /\ engine.phase = "moves" /\ engine.plan = NoPlan => ChangeInHand(d)
  BY <1>1 DEF WorkInHand
<1>7. /\ engine'.causes \subseteq Causes(d)
      /\ engine'.plan # NoPlan => SoundPlan(status', engine'.plan)
      /\ engine'.phase \in {"causes", "gating"} => engine'.request = Idle
      /\ engine'.phase = "parking" =>
           /\ holds'[engine'.request] # "none"
           /\ engine'.request \notin DOMAIN proposed' \cup DOMAIN parked'
      /\ engine'.phase = "planned" \/ Cascading' => PlanInHand(d)'
      /\ engine'.phase = "moves" /\ engine'.plan = NoPlan => ChangeInHand(d)'
  BY <1>3, <1>4, <1>5, <1>6 DEF Cascading, Handles
<1> HIDE DEF e
<1>8. PlanInHand(d)' => PlanInHand(inbox[ahead + 1])'
  BY <1>2 DEF PlanInHand, ApprovesPlan, Causes
<1>9. ChangeInHand(d)' => ChangeInHand(inbox[ahead + 1])'
  BY <1>2 DEF ChangeInHand
<1>10. Causes(d) = Causes(inbox'[ahead' + 1])
  BY <1>2
<1> QED BY <1>7, <1>8, <1>9, <1>10 DEF WorkInHand, NoPlan

LEMMA HandReceives ==
  ASSUME Shape, RequestsAreMade, Receive
  PROVE  WorkInHand'
<1> DEFINE e == inbox[ahead + 1]
<1>1. /\ engine' = Begin(e) /\ e \in Event
      /\ parked' = IF HeldBy(e) /\ e.verdict # "approved"
                     THEN Restrict(parked, DOMAIN parked \ {e.request}) ELSE parked
      /\ UNCHANGED <<status, holds, proposed, inbox, ahead>>
  BY HeadEvent DEF Receive, requests, progress, queue, Shape
<1>2. inbox'[ahead' + 1] = e
  BY <1>1
<1> HIDE DEF e
<1>3. PICK h : h = Begin(e)
  OBVIOUS
<1>4. PICK d : d = e
  OBVIOUS
<1>5. \/ /\ h.phase = "moves" /\ h.plan = NoPlan /\ h.causes = {}
         /\ \/ e.type = "review" /\ h.request = Idle /\ Causes(e) = {}
               /\ h.ops = <<[move |-> "resolveApproval", item |-> e.item]>>
            \/ HeldBy(e) /\ h.request = e.request /\ IsChange(e.request)
               /\ h.ops = <<[move |-> "skip", item |-> parked[e.request].skip]>>
      \/ /\ h.phase = "planned" /\ h.causes = {} /\ HeldBy(e) /\ e.verdict = "approved"
         /\ h.request = e.request /\ h.plan = parked[e.request] /\ ~IsChange(e.request)
      \/ /\ h.phase = "causes" /\ h.plan = NoPlan /\ h.request = Idle /\ h.causes = Causes(e)
         /\ HeldBy(e) => e.verdict # "approved"
  BY <1>1, <1>3, BeginOutcome DEF Shape
<1>6. engine' = h /\ inbox'[ahead' + 1] = d
  BY <1>1, <1>2, <1>3, <1>4
<1>7. CASE h.phase = "moves"
  <2>1. h.plan = NoPlan /\ h.causes = {} /\ ~Cascading'
    BY <1>5, <1>6, <1>7 DEF Cascading, Handles, NoPlan
  <2>2. \A k \in DOMAIN h.ops :
          \/ h.ops[k].move = "resolveApproval"
          \/ h.ops[k].move = "skip" /\ h.ops[k].item \in Skippable
    <3>1. CASE h.ops = <<[move |-> "resolveApproval", item |-> e.item]>>
      BY <3>1, OnlyMove
    <3>2. CASE /\ HeldBy(e) /\ IsChange(e.request)
               /\ h.ops = <<[move |-> "skip", item |-> parked[e.request].skip]>>
      <4>1. parked[e.request].skip \in Skippable
        BY <3>2 DEF RequestsAreMade, HeldBy
      <4> QED BY <3>2, <4>1, OnlyMove
    <3> QED BY <1>5, <1>7, <3>1, <3>2
  <2>3. h.request = Idle \/ (d.type = "hold" /\ d.request = h.request)
    BY <1>4, <1>5, <1>7 DEF HeldBy
  <2>4. ChangeInHand(d)'
    BY <1>6, <2>2, <2>3 DEF ChangeInHand
  <2>5. ChangeInHand(inbox[ahead + 1])'
    BY <1>6, <2>4 DEF ChangeInHand
  <2> QED BY <1>6, <1>7, <2>1, <2>5 DEF WorkInHand, NoPlan
<1>8. CASE h.phase = "planned"
  <2>1. /\ h.causes = {} /\ HeldBy(e) /\ e.verdict = "approved" /\ h.request = e.request
        /\ h.plan = parked[h.request] /\ ~IsChange(h.request) /\ parked' = parked
        /\ h.request \in DOMAIN parked
    BY <1>1, <1>5, <1>8 DEF HeldBy
  <2>2. SoundPlan(status, h.plan)
    BY <2>1 DEF RequestsAreMade
  <2>3. d.type = "hold" /\ d.request = h.request /\ d.verdict = "approved"
    BY <1>4, <2>1 DEF HeldBy
  <2>4. PlanInHand(d)'
    BY <1>6, <2>1, <2>3 DEF PlanInHand, ApprovesPlan, IsChange
  <2>5. PlanInHand(inbox[ahead + 1])'
    BY <1>6, <2>4 DEF PlanInHand, ApprovesPlan, Causes
  <2> QED BY <1>1, <1>6, <1>8, <2>1, <2>2, <2>5 DEF WorkInHand, Cascading, Handles
<1>9. CASE h.phase = "causes"
  <2>1. h.plan = NoPlan /\ h.request = Idle /\ h.causes = Causes(inbox'[ahead' + 1])
    BY <1>2, <1>5, <1>9
  <2> QED BY <1>6, <1>9, <2>1 DEF WorkInHand, NoPlan, Cascading, Handles
<1> QED BY <1>5, <1>7, <1>8, <1>9

LEMMA HandPlans ==
  ASSUME Forest, Shape, WorkInHand, PlanInvalidation
  PROVE  WorkInHand'
<1>1. engine # Idle /\ engine.phase = "causes" /\ engine \in Handlers
      /\ UNCHANGED <<status, inbox, ahead>>
  BY DEF PlanInvalidation, Handles, Shape, EngineShape, queue, progress
<1>2. PICK c \in engine.causes \cap Live :
        LET plan == [dirty |-> c, affected |-> WalkDependents(c)]
        IN engine' = [engine EXCEPT
             !.causes = @ \ {c}, !.plan = plan,
             !.phase = IF 1 + Len(plan.affected) <= AutoMax THEN "planned" ELSE "gating"]
  BY DEF PlanInvalidation
<1> DEFINE plan == [dirty |-> c, affected |-> WalkDependents(c)]
           phase == IF 1 + Len(plan.affected) <= AutoMax THEN "planned" ELSE "gating"
<1>3. engine' = [engine EXCEPT !.causes = @ \ {c}, !.plan = plan, !.phase = phase]
  BY <1>2
<1>4. c \in Items /\ plan.dirty = c
  BY DEF Live
<1>5. SoundPlan(status, plan)
  BY <1>4, WalkIsSound
<1>6. phase \in {"planned", "gating"}
      /\ (phase = "planned" => 1 + Len(plan.affected) <= AutoMax)
  OBVIOUS
<1> HIDE DEF plan, phase
<1>7. engine'.causes = engine.causes \ {c} /\ engine'.plan = plan /\ engine'.phase = phase
      /\ engine'.request = engine.request
  BY <1>1, <1>3 DEF Handlers
<1>8. PICK d : d = inbox[ahead + 1]
  OBVIOUS
<1>9. engine.request = Idle /\ engine.causes \subseteq Causes(d) /\ inbox'[ahead' + 1] = d
  BY <1>1, <1>8 DEF WorkInHand
<1>10. phase = "planned" => PlanInHand(d)'
  BY <1>4, <1>6, <1>7, <1>9 DEF PlanInHand, Causes
<1>11. phase = "planned" => PlanInHand(inbox[ahead + 1])'
  BY <1>9, <1>10 DEF PlanInHand, ApprovesPlan, Causes
<1>12. engine'.causes \subseteq Causes(inbox'[ahead' + 1])
  BY <1>7, <1>9
<1> QED BY <1>1, <1>5, <1>6, <1>7, <1>9, <1>11, <1>12 DEF WorkInHand, Cascading, Handles

LEMMA HandActs ==
  ASSUME Shape, RequestsAreMade, WorkInHand, Cancels(status, status'),
         (\E q \in Holds : RequestPlan(q)) \/ ParkPlan \/ ReadStatuses \/ Move \/ Executed
  PROVE  WorkInHand'
<1>1. engine # Idle /\ engine \in Handlers /\ UNCHANGED <<inbox, ahead>>
  BY DEF RequestPlan, ParkPlan, ReadStatuses, Move, Executed, Handles, Shape, EngineShape, progress
<1>2. PICK d : d = inbox[ahead + 1]
  OBVIOUS
<1>3. inbox'[ahead' + 1] = d
  BY <1>1, <1>2
<1>4. /\ engine.causes \subseteq Causes(d)
      /\ engine.plan # NoPlan => SoundPlan(status, engine.plan)
      /\ engine.phase \in {"causes", "gating"} => engine.request = Idle
      /\ engine.phase = "planned" \/ Cascading => PlanInHand(d)
      /\ engine.phase = "moves" /\ engine.plan = NoPlan => ChangeInHand(d)
  BY <1>1, <1>2 DEF WorkInHand
<1>5. Causes(d) = Causes(inbox'[ahead' + 1])
  BY <1>3
<1>6. PlanInHand(d)' => PlanInHand(inbox[ahead + 1])'
  BY <1>3 DEF PlanInHand, ApprovesPlan, Causes
<1>7. ChangeInHand(d)' => ChangeInHand(inbox[ahead + 1])'
  BY <1>3 DEF ChangeInHand
<1>8. ASSUME NEW q \in Holds, RequestPlan(q) PROVE WorkInHand'
  <2>1. /\ engine'.phase = "parking" /\ engine'.request = q /\ engine'.causes = engine.causes
        /\ engine'.plan = engine.plan
    BY <1>1, <1>8 DEF RequestPlan, Handlers
  <2>2. holds[q] = "none" /\ holds'[q] = "pending" /\ UNCHANGED <<status, proposed, parked>>
    BY <1>8 DEF RequestPlan, Shape, RequestShape, queue
  <2>3. q \notin DOMAIN proposed \cup DOMAIN parked
    BY <2>2 DEF RequestsAreMade
  <2> QED BY <1>4, <1>5, <2>1, <2>2, <2>3 DEF WorkInHand, Cascading, Handles, NoPlan
<1>9. CASE ParkPlan \/ Executed
  <2>1. /\ engine'.phase = "causes" /\ engine'.request = Idle /\ engine'.causes = engine.causes
        /\ engine'.plan = NoPlan
    BY <1>1, <1>9 DEF ParkPlan, Executed, Handlers
  <2> QED BY <1>4, <1>5, <2>1 DEF WorkInHand, Cascading, Handles, NoPlan
<1>10. CASE ReadStatuses
  <2>1. engine.phase = "planned" /\ engine.plan # NoPlan /\ UNCHANGED <<status, parked>>
    BY <1>1, <1>10, NoPlanIsNone DEF ReadStatuses, Handles, Shape, EngineShape, queue
  <2>2. /\ engine'.phase = "moves" /\ engine'.request = engine.request
        /\ engine'.causes = engine.causes /\ engine'.plan = engine.plan
    BY <1>1, <1>10 DEF ReadStatuses, Handlers
  <2>3. PlanInHand(d)'
    BY <1>4, <2>1, <2>2 DEF PlanInHand, ApprovesPlan, IsChange, Causes
  <2> QED BY <1>4, <1>5, <1>6, <2>1, <2>2, <2>3 DEF WorkInHand, Cascading, Handles, NoPlan
<1>11. CASE Move
  <2>1. engine.phase = "moves" /\ UNCHANGED parked
    BY <1>11 DEF Move, Handles
  <2>2. /\ engine'.phase = "moves" /\ engine'.request = engine.request
        /\ engine'.causes = engine.causes /\ engine'.plan = engine.plan
        /\ engine'.ops = Tail(engine.ops)
    BY <1>1, <1>11, <2>1 DEF Move, Handlers
  <2>3. engine.plan # NoPlan => PlanInHand(d)'
    BY <1>1, <1>4, <2>1, <2>2 DEF PlanInHand, ApprovesPlan, IsChange, Causes, Cascading, Handles
  <2>4. engine.plan # NoPlan => SoundPlan(status', engine.plan)
    BY <1>4, CancelsKeep
  <2>5. engine.plan = NoPlan => ChangeInHand(d)'
    <3>1. engine.ops \in Seq(Op) /\ engine.ops # <<>>
      BY <1>1, <1>11 DEF Handlers, Move
    <3>2. \A k \in DOMAIN Tail(engine.ops) :
            \E j \in DOMAIN engine.ops : Tail(engine.ops)[k] = engine.ops[j]
      BY <3>1, TailAt
    <3> QED BY <1>4, <2>1, <2>2, <3>2 DEF ChangeInHand
  <2> QED BY <1>4, <1>5, <1>6, <1>7, <2>1, <2>2, <2>3, <2>4, <2>5
          DEF WorkInHand, Cascading, Handles, NoPlan
<1> QED BY <1>8, <1>9, <1>10, <1>11

LEMMA WorkInHandStep ==
  ASSUME Forest, Shape, RequestsAreMade, WorkInHand, [Next]_vars
  PROVE  WorkInHand'
<1>0. Cancels(status, status')
  BY CancelsStep
<1>1. CASE Receive
  BY <1>1, HandReceives
<1>2. CASE PlanInvalidation
  BY <1>2, HandPlans
<1>3. CASE (\E q \in Holds : RequestPlan(q)) \/ ParkPlan \/ ReadStatuses \/ Move \/ Executed
  BY <1>0, <1>3, HandActs
<1>4. CASE Finish \/ Persist \/ Throw \/ Crash
  BY <1>4 DEF Finish, Persist, Throw, Crash, WorkInHand
<1>5. ASSUME UNCHANGED <<engine, ahead>>, engine = Idle PROVE WorkInHand'
  BY <1>5 DEF WorkInHand
<1>6. ASSUME engine # Idle, UNCHANGED <<engine, ahead>>,
             \A k \in DOMAIN inbox : inbox'[k] = inbox[k],
             \A q \in DOMAIN parked : q \in DOMAIN parked' /\ parked'[q] = parked[q],
             \A r \in Holds : holds[r] # "none" =>
               /\ holds'[r] # "none"
               /\ r \notin DOMAIN proposed \cup DOMAIN parked
                    => r \notin DOMAIN proposed' \cup DOMAIN parked'
      PROVE  WorkInHand'
  <2>1. ahead + 1 \in DOMAIN inbox
    BY <1>6 DEF Shape, EngineShape
  <2>2. engine.phase = "parking" => engine.request \in Holds
    BY <1>6 DEF Shape, EngineShape
  <2>3. engine.phase = "parking" =>
          /\ holds'[engine.request] # "none"
          /\ engine.request \notin DOMAIN proposed' \cup DOMAIN parked'
    BY <1>6, <2>2 DEF WorkInHand
  <2> QED BY <1>0, <1>6, <2>1, <2>3, HandKept
<1>7. ASSUME engine # Idle,
             \/ \E i \in Items, a \in 1..MaxAttempt, v \in Verdicts : ResolveReview(i, a, v)
             \/ \E q \in Holds, v \in Verdicts : ResolveHold(q, v)
             \/ \E nodes \in SUBSET Items \ {{}} : NewDoc(nodes)
      PROVE  WorkInHand'
  <2>1. UNCHANGED <<engine, ahead, parked, proposed>>
    BY <1>7 DEF ResolveReview, ResolveHold, NewDoc, requests
  <2>2. PICK e : inbox' = Append(inbox, e)
    BY <1>7 DEF ResolveReview, ResolveHold, NewDoc
  <2>3. \A k \in DOMAIN inbox : inbox'[k] = inbox[k]
    BY <2>2 DEF Shape, EngineShape
  <2>4. \A r \in Holds : holds[r] # "none" => holds'[r] # "none"
    BY <1>7, VerdictsAreFinal DEF ResolveReview, ResolveHold, NewDoc, requests, Shape, RequestShape
  <2> QED BY <1>6, <1>7, <2>1, <2>3, <2>4
<1>8. ASSUME engine # Idle, NEW q \in Holds, NEW i \in Items, ProposeSkip(q, i)
      PROVE  WorkInHand'
  <2>1. UNCHANGED <<engine, ahead, inbox, parked>> /\ holds[q] = "none"
        /\ holds' = [holds EXCEPT ![q] = "pending"] /\ DOMAIN proposed' = DOMAIN proposed \cup {q}
    BY <1>8 DEF ProposeSkip, progress, Put
  <2>2. \A r \in Holds : holds[r] # "none" => r # q /\ holds'[r] # "none"
    BY <2>1 DEF Shape, RequestShape
  <2> QED BY <1>6, <1>8, <2>1, <2>2
<1>9. ASSUME engine # Idle, NEW q \in Holds, ParkSkip(q) PROVE WorkInHand'
  <2>1. UNCHANGED <<engine, ahead, inbox, holds>> /\ q \in DOMAIN proposed
    BY <1>9 DEF ParkSkip, progress
  <2>2. q \notin DOMAIN parked
    BY <2>1 DEF RequestsAreMade
  <2>3. /\ DOMAIN parked' = DOMAIN parked \cup {q} /\ DOMAIN proposed' \subseteq DOMAIN proposed
        /\ \A r \in DOMAIN parked : parked'[r] = parked[r]
    BY <1>9, <2>2 DEF ParkSkip, Put, Restrict
  <2> QED BY <1>6, <1>9, <2>1, <2>3
<1>10. ASSUME engine # Idle, Work \/ (\E i \in Items : RequestReview(i)) \/ UNCHANGED vars
       PROVE  WorkInHand'
  <2>1. UNCHANGED <<engine, ahead, inbox, holds, proposed, parked>>
    BY <1>10 DEF Work, RequestReview, progress, requests, vars
  <2> QED BY <1>6, <1>10, <2>1
<1>11. CASE /\ ~Receive /\ ~PlanInvalidation /\ ~(\E q \in Holds : RequestPlan(q)) /\ ~ParkPlan
            /\ ~ReadStatuses /\ ~Move /\ ~Executed /\ ~Finish /\ ~Persist /\ ~Throw /\ ~Crash
  <2>1. UNCHANGED <<engine, ahead>>
    BY <1>11
    DEF Next, Engine, Work, RequestReview, ResolveReview, ResolveHold, ProposeSkip, ParkSkip,
        NewDoc, progress, vars
  <2> QED BY <1>5, <1>7, <1>8, <1>9, <1>10, <1>11, <2>1 DEF Next, Engine
<1> QED BY <1>1, <1>2, <1>3, <1>4, <1>11

LEMMA BookStep ==
  ASSUME Forest, Shape, Answered, Book, [Next]_vars
  PROVE  Book'
<1>1. crashes' = crashes \/ crashes' = crashes + 1
  BY DEF Next, Engine, Work, RequestReview, ResolveReview, ResolveHold, ProposeSkip, ParkSkip,
         NewDoc, Receive, PlanInvalidation, RequestPlan, ParkPlan, ReadStatuses, Move, Executed,
         Finish, Persist, Throw, Crash, bounds, vars
<1>2. crashes \in Nat => crashes' \in Nat
  BY <1>1
<1> QED BY <1>2, RequestsStep, AnsweredOnceStep, WorkInHandStep DEF Book

LEMMA BookInit == Init => Book
BY DEF Init, Book, RequestsAreMade, AnsweredOnce, WorkInHand

-----------------------------------------------------------------------------
(* What workers do leaves the nodes sound.                                 *)
Toils(s, t) == Keeps(s, t) \/ \E i \in Items : Settles(s, t, i) /\ s[i] \notin Finished

LEMMA KeepsIsSteady ==
  ASSUME NEW s, NEW t, Keeps(s, t), NEW ops
  PROVE  /\ Steady(s, t)
         /\ \A n \in Items : Exposed(t, ops, n) => Exposed(s, ops, n)
         /\ \A n \in Items : t[n] \in Off => s[n] \in Off
<1>1. Inner \subseteq Items
  BY EdgeType DEF Inner
<1> QED BY <1>1 DEF Keeps, Steady, Exposed

LEMMA ToilIsSound ==
  ASSUME Forest, NEW s, NEW t, Toils(s, t), NEW ops, NEW W
  PROVE  /\ ExposedAreAnchored(s, ops) => ExposedAreAnchored(t, ops)
         /\ ExposedAreAnchored(s, ops) /\ ExposedAreCovered(s, ops, W)
              => ExposedAreCovered(t, ops, W)
         /\ WaitsAreExcused(s, ops, W) => WaitsAreExcused(t, ops, W)
<1>1. CASE Keeps(s, t)
  <2>1. /\ Steady(s, t)
        /\ \A n \in Items : Exposed(t, ops, n) => Exposed(s, ops, n)
        /\ \A n \in Items : t[n] \in Off => s[n] \in Off
    BY <1>1, KeepsIsSteady
  <2>2. ExposedAreAnchored(s, ops) => ExposedAreAnchored(t, ops)
    BY <2>1, SteadyAnchored
  <2>3. ExposedAreCovered(s, ops, W) => ExposedAreCovered(t, ops, W)
    BY <2>1, SteadyCovered
  <2>4. WaitsAreExcused(s, ops, W) => WaitsAreExcused(t, ops, W)
    BY <2>1, SteadyExcused
  <2> QED BY <2>2, <2>3, <2>4
<1>2. ASSUME NEW i \in Items, Settles(s, t, i)
      PROVE  /\ ExposedAreAnchored(s, ops) => ExposedAreAnchored(t, ops)
             /\ ExposedAreAnchored(s, ops) /\ ExposedAreCovered(s, ops, W)
                  => ExposedAreCovered(t, ops, W)
             /\ WaitsAreExcused(s, ops, W) => WaitsAreExcused(t, ops, W)
  <2>1. ExposedAreAnchored(s, ops) => ExposedAreAnchored(t, ops)
    BY <1>2, SettlesExposed
  <2>2. ExposedAreAnchored(s, ops) /\ ExposedAreCovered(s, ops, W)
          => ExposedAreCovered(t, ops, W)
    BY <1>2, SettlesCovered
  <2>3. WaitsAreExcused(s, ops, W) => WaitsAreExcused(t, ops, W)
    BY <1>2, SettlesExcused
  <2> QED BY <2>1, <2>2, <2>3
<1> QED BY <1>1, <1>2 DEF Toils

LEMMA ToilUnderWay ==
  ASSUME Forest, NEW s, NEW t, Toils(s, t), Cancels(s, t), NEW ops, NEW p, NEW later,
         UnderWay(s, ops, p, later)
  PROVE  UnderWay(t, ops, p, later) /\ (Excused(s, ops, p, later) => Excused(t, ops, p, later))
<1>1. /\ p \in Plan /\ ops \in Seq(Op) /\ SoundPlan(s, p) /\ OpsShape(ops, p)
      /\ ExposedAreAnchored(s, ops) /\ ExposedAreCovered(s, ops, later \cup {p.dirty})
      /\ CascadeInv(s, ops, p)
  BY DEF UnderWay, Sound
<1>2. ExposedAreAnchored(t, ops) /\ ExposedAreCovered(t, ops, later \cup {p.dirty})
  BY <1>1, ToilIsSound
<1>3. SoundPlan(t, p)
  BY <1>1, CancelsKeep
<1>4. CascadeInv(t, ops, p)
  <2>1. CASE Keeps(s, t)
    BY <1>1, <2>1, SteadyCascade DEF Keeps
  <2>2. ASSUME NEW i \in Items, Settles(s, t, i), s[i] \notin Finished
        PROVE  CascadeInv(t, ops, p)
    BY <1>1, <2>2, SettlesCascade
  <2> QED BY <2>1, <2>2 DEF Toils
<1>5. Excused(s, ops, p, later) => Excused(t, ops, p, later)
  BY ToilIsSound DEF Excused
<1> QED BY <1>1, <1>2, <1>3, <1>4, <1>5 DEF UnderWay, Sound

LEMMA WorkIsSound ==
  ASSUME Forest, Shape, NodesAreSound, Work
  PROVE  NodesAreSound'
<1>1. UNCHANGED <<engine, inbox, ahead, parked, crashes>>
  BY DEF Work, progress, bounds
<1>2. Cancels(status, status') /\ Toils(status, status')
  BY WorkStep DEF Shape, Toils
<1>3. EventsStayAhead
  BY <1>1 DEF EventsStayAhead, Begun, ApprovesPlan
<1>4. Later \subseteq Later'
  BY <1>1, <1>2, <1>3, LaterStays
<1>5. CASE Cascading
  <2>1. /\ UnderWay(status, engine.ops, engine.plan, Later)
        /\ crashes = 0 => Excused(status, engine.ops, engine.plan, Later)
    BY <1>5 DEF NodesAreSound
  <2>2. /\ UnderWay(status', engine.ops, engine.plan, Later)
        /\ crashes = 0 => Excused(status', engine.ops, engine.plan, Later)
    BY <1>2, <2>1, ToilUnderWay
  <2>3. /\ UnderWay(status', engine.ops, engine.plan, Later')
        /\ crashes = 0 => Excused(status', engine.ops, engine.plan, Later')
    BY <1>4, <2>2, UnderWayMore
  <2>4. Cascading'
    BY <1>1, <1>5 DEF Cascading, Handles, NoPlan
  <2> QED BY <1>1, <2>3, <2>4 DEF NodesAreSound
<1>6. CASE ~Cascading
  <2>1. Resting(status, Coming)
    BY <1>6 DEF NodesAreSound
  <2>2. /\ ExposedAreAnchored(status', <<>>) /\ ExposedAreCovered(status', <<>>, Coming)
        /\ crashes = 0 => WaitsAreExcused(status', <<>>, Coming)
    BY <1>2, <2>1, ToilIsSound DEF Resting
  <2>3. Coming \subseteq Coming'
    BY <1>1, <1>4 DEF Coming, Handles
  <2>4. /\ ExposedAreCovered(status', <<>>, Coming')
        /\ crashes = 0 => WaitsAreExcused(status', <<>>, Coming')
    BY <2>2, <2>3, MoreComing
  <2>5. ~Cascading'
    BY <1>1, <1>6 DEF Cascading, Handles, NoPlan
  <2> QED BY <1>1, <2>2, <2>4, <2>5 DEF NodesAreSound, Resting
<1> QED BY <1>5, <1>6

(* A move of a cascade under way keeps it so.                              *)
LEMMA MoveUnderWay ==
  ASSUME Forest, QueueShape, NEW ops, ops # <<>>, NEW p, NEW later,
         UnderWay(status, ops, p, later), Possible(Head(ops)), Apply(Head(ops))
  PROVE  /\ UnderWay(status', Tail(ops), p, later)
         /\ Excused(status, ops, p, later) => Excused(status', Tail(ops), p, later)
<1> DEFINE op == Head(ops)
           x == op.item
<1>1. p \in Plan /\ ops \in Seq(Op) /\ SoundPlan(status, p) /\ OpsShape(ops, p)
  BY DEF UnderWay
<1>2. op \in Op /\ x \in Items
  BY <1>1, TailAt, OpsType
<1>3. /\ op.move \in {"revokeLease", "demote", "revive"} \cup Repudiations
      /\ op.move = "revive" => x = p.dirty
  BY <1>1, HeadShape
<1>4. /\ Cancels(status, status')
      /\ op.move \in Still => status' = status
      /\ op.move \notin {"resolveApproval"} \cup Still =>
           /\ Changes(status, status', x) /\ status'[x] = Target(op)
           /\ Target(op) \in Queue!Transitions(status[x])
  BY <1>2, MoveStep
<1>5. Sound(status', Tail(ops), p, later)
      /\ (Excused(status, ops, p, later) => Excused(status', Tail(ops), p, later))
  <2>1. CASE op.move = "demote"
    <3>1. Target(op) = "pending"
      BY <2>1 DEF Target
    <3>2. status[x] \in {"ready", "stale"}
      BY <1>4, <2>1, <3>1 DEF Queue!Transitions, Still
    <3> QED BY <1>4, <2>1, <3>1, <3>2, DemoteStep DEF Still
  <2>2. CASE op.move = "revokeLease"
    <3>1. Target(op) = "ready"
      BY <2>2 DEF Target
    <3>2. status[x] # "done"
      BY <1>4, <2>2, <3>1 DEF Queue!Transitions, Still
    <3> QED BY <1>2, <1>4, <2>2, <3>1, <3>2, RevokeStep DEF Still
  <2>3. CASE op.move \in Still
    BY <1>4, <2>3, SupersedeStep
  <2>4. CASE op.move = "markStale"
    <3>1. Target(op) = "stale"
      BY <2>4 DEF Target
    <3>2. CASE x = p.dirty
      BY <1>4, <2>4, <3>1, <3>2, MarkDirtyStep DEF Still
    <3>3. CASE x # p.dirty
      BY <1>4, <2>4, <3>1, <3>3, MarkStep DEF Still
    <3> QED BY <3>2, <3>3
  <2>5. CASE op.move = "revive"
    <3>1. Target(op) = IF Queue!UpstreamsDone(status, x) THEN "ready" ELSE "pending"
      BY <2>5 DEF Target
    <3>2. status[x] # "done"
      BY <1>4, <2>5, <3>1 DEF Queue!Transitions, Still
    <3> QED BY <1>4, <2>5, <3>1, <3>2, ReviveStep DEF Still
  <2> QED BY <1>3, <2>1, <2>2, <2>3, <2>4, <2>5 DEF Repudiations
<1>6. Tail(ops) \in Seq(Op) /\ OpsShape(Tail(ops), p)
  BY <1>1, TailAt, TailShape
<1>7. SoundPlan(status', p)
  BY <1>1, <1>4, CancelsKeep
<1> QED BY <1>1, <1>5, <1>6, <1>7 DEF UnderWay

(* Skipping a leaf takes nothing from the others.                          *)
LEMMA SkipIsSound ==
  ASSUME OnlyLeavesSkipped, NEW s, NEW t, NEW x \in Items \cap Skippable, Changes(s, t, x),
         t[x] = "cancelled", NEW W
  PROVE  /\ ExposedAreAnchored(s, <<>>) => ExposedAreAnchored(t, <<>>)
         /\ ExposedAreCovered(s, <<>>, W) => ExposedAreCovered(t, <<>>, W)
         /\ WaitsAreExcused(s, <<>>, W) => WaitsAreExcused(t, <<>>, W)
<1> DEFINE none == <<>>
<1>1. x \notin Inner
  BY DEF OnlyLeavesSkipped, Inner
<1>2. Inner \subseteq Items
  BY EdgeType DEF Inner
<1>3. Steady(s, t)
  BY <1>1, <1>2 DEF Steady, Changes
<1>4. \A n \in Items : t[n] \in Off => s[n] \in Off
  BY DEF Changes, Off
<1>5. \A n \in Items : Exposed(t, none, n) => Exposed(s, none, n)
  BY DEF Exposed, Changes, Working, Left
<1> HIDE DEF none
<1>6. ExposedAreAnchored(s, none) => ExposedAreAnchored(t, none)
  BY <1>3, <1>5, SteadyAnchored
<1>7. ExposedAreCovered(s, none, W) => ExposedAreCovered(t, none, W)
  BY <1>3, <1>5, SteadyCovered
<1>8. WaitsAreExcused(s, none, W) => WaitsAreExcused(t, none, W)
  BY <1>3, <1>4, SteadyExcused
<1> QED BY <1>6, <1>7, <1>8 DEF none

LEMMA MoveIsSound ==
  ASSUME Forest, OnlyLeavesSkipped, Shape, WorkInHand, NodesAreSound, Move
  PROVE  NodesAreSound'
<1>1. /\ engine # Idle /\ engine.phase = "moves" /\ engine \in Handlers /\ engine.ops # <<>>
      /\ UNCHANGED <<inbox, ahead, parked, crashes>>
      /\ Possible(Head(engine.ops)) /\ Apply(Head(engine.ops))
  BY DEF Move, Handles, Shape, EngineShape, progress, bounds
<1>2. /\ engine' # Idle /\ engine'.phase = "moves" /\ engine'.plan = engine.plan
      /\ engine'.causes = engine.causes /\ engine'.ops = Tail(engine.ops)
  <2>1. engine' = [engine EXCEPT !.ops = Tail(@)]
    BY DEF Move
  <2>2. engine' \in Handlers
    BY <1>1, <2>1, HeadType DEF Handlers, Handles, Shape
  <2> QED BY <1>1, <2>1, <2>2, NoPlanIsNone DEF Handlers
<1>3. PICK op : op = Head(engine.ops)
  OBVIOUS
<1>4. op \in Op /\ Possible(op) /\ Apply(op)
  BY <1>1, <1>3, HeadType DEF Handles, Shape
<1>5. Cancels(status, status')
  BY <1>4, MoveStep DEF Shape
<1>6. EventsStayAhead
  BY <1>1, <1>2 DEF EventsStayAhead, Begun, ApprovesPlan
<1>7. Later \subseteq Later'
  BY <1>1, <1>2, <1>5, <1>6, LaterStays
<1>8. CASE engine.plan # NoPlan
  <2> DEFINE ops == engine.ops
             p == engine.plan
  <2>1. Cascading /\ Cascading'
    BY <1>1, <1>2, <1>8 DEF Cascading, Handles, NoPlan
  <2>2. /\ UnderWay(status, ops, p, Later)
        /\ crashes = 0 => Excused(status, ops, p, Later)
    BY <2>1 DEF NodesAreSound
  <2>3. /\ UnderWay(status', Tail(ops), p, Later)
        /\ crashes = 0 => Excused(status', Tail(ops), p, Later)
    <3>1. PICK o, l : o = ops /\ l = Later
      OBVIOUS
    <3>2. PICK q : q = p
      OBVIOUS
    <3>3. /\ o # <<>> /\ UnderWay(status, o, q, l) /\ Possible(Head(o)) /\ Apply(Head(o))
          /\ crashes = 0 => Excused(status, o, q, l)
      BY <1>1, <1>3, <1>4, <2>2, <3>1, <3>2
    <3>4. /\ UnderWay(status', Tail(o), q, l)
          /\ crashes = 0 => Excused(status', Tail(o), q, l)
      BY <3>3, MoveUnderWay DEF Shape
    <3> QED BY <3>1, <3>2, <3>4
  <2>4. /\ UnderWay(status', Tail(ops), p, Later')
        /\ crashes = 0 => Excused(status', Tail(ops), p, Later')
    BY <1>7, <2>3, UnderWayMore
  <2>5. engine'.ops = Tail(ops) /\ engine'.plan = p /\ crashes' = crashes
    BY <1>1, <1>2
  <2> HIDE DEF ops, p
  <2> QED BY <2>1, <2>4, <2>5 DEF NodesAreSound
<1>9. CASE engine.plan = NoPlan
  <2>1. ~Cascading /\ ~Cascading'
    BY <1>2, <1>9 DEF Cascading, NoPlan
  <2>2. Coming = Later /\ Coming' = Later'
    BY <1>1, <1>2 DEF Coming, Handles
  <2>3. Resting(status, Later)
    BY <2>1, <2>2 DEF NodesAreSound
  <2>4. \/ op.move = "resolveApproval"
        \/ op.move = "skip" /\ op.item \in Skippable
    <3>1. ChangeInHand(inbox[ahead + 1])
      BY <1>1, <1>9 DEF WorkInHand
    <3>2. 1 \in DOMAIN engine.ops /\ engine.ops[1] = op
      BY <1>1, <1>3, TailAt DEF Handlers
    <3> QED BY <3>1, <3>2 DEF ChangeInHand
  <2>5. /\ ExposedAreAnchored(status', <<>>) /\ ExposedAreCovered(status', <<>>, Later)
        /\ crashes = 0 => WaitsAreExcused(status', <<>>, Later)
    <3>1. CASE op.move = "resolveApproval"
      <4>1. Settles(status, status', op.item)
        BY <1>4, <3>1, MoveStep DEF Shape
      <4>2. ExposedAreAnchored(status', <<>>)
        BY <2>3, <4>1, SettlesExposed DEF Resting
      <4>3. ExposedAreCovered(status', <<>>, Later)
        BY <2>3, <4>1, SettlesCovered DEF Resting
      <4>4. crashes = 0 => WaitsAreExcused(status', <<>>, Later)
        BY <2>3, <4>1, SettlesExcused DEF Resting
      <4> QED BY <4>2, <4>3, <4>4
    <3>2. CASE op.move = "skip" /\ op.item \in Skippable
      <4>1. Changes(status, status', op.item) /\ status'[op.item] = "cancelled"
        BY <1>4, <3>2, MoveStep DEF Shape, Target, Still
      <4>2. op.item \in Items \cap Skippable
        BY <1>4, <3>2 DEF Op
      <4>3. /\ ExposedAreAnchored(status, <<>>) => ExposedAreAnchored(status', <<>>)
            /\ ExposedAreCovered(status, <<>>, Later) => ExposedAreCovered(status', <<>>, Later)
            /\ WaitsAreExcused(status, <<>>, Later) => WaitsAreExcused(status', <<>>, Later)
        BY <4>1, <4>2, SkipIsSound
      <4> QED BY <2>3, <4>3 DEF Resting
    <3> QED BY <2>4, <3>1, <3>2
  <2>6. /\ ExposedAreCovered(status', <<>>, Later')
        /\ crashes = 0 => WaitsAreExcused(status', <<>>, Later')
    BY <1>7, <2>5, MoreComing
  <2> QED BY <1>1, <2>1, <2>2, <2>5, <2>6 DEF NodesAreSound, Resting
<1> QED BY <1>8, <1>9

-----------------------------------------------------------------------------
(* The handler takes up an event: what the event was to invalidate becomes *)
(* a cause or a plan in its hands.                                         *)
LEMMA ReceiveIsSound ==
  ASSUME Shape, AnsweredOnce, NodesAreSound, Receive
  PROVE  NodesAreSound'
<1> DEFINE e == inbox[ahead + 1]
<1>1. /\ engine = Idle /\ engine' = Begin(e) /\ e \in Event /\ ahead + 1 \in DOMAIN inbox
      /\ parked' = IF HeldBy(e) /\ e.verdict # "approved"
                     THEN Restrict(parked, DOMAIN parked \ {e.request}) ELSE parked
      /\ UNCHANGED <<status, inbox, ahead, crashes>>
  BY HeadEvent DEF Receive, progress, queue, bounds, Shape
<1>2. PICK h : h = Begin(e)
  OBVIOUS
<1>3. \/ /\ h.phase = "moves" /\ h.plan = NoPlan /\ h.causes = {}
         /\ \/ e.type = "review" /\ h.request = Idle /\ Causes(e) = {}
               /\ h.ops = <<[move |-> "resolveApproval", item |-> e.item]>>
            \/ HeldBy(e) /\ h.request = e.request /\ IsChange(e.request)
               /\ h.ops = <<[move |-> "skip", item |-> parked[e.request].skip]>>
      \/ /\ h.phase = "planned" /\ h.causes = {} /\ HeldBy(e) /\ e.verdict = "approved"
         /\ h.request = e.request /\ h.plan = parked[e.request] /\ ~IsChange(e.request)
      \/ /\ h.phase = "causes" /\ h.plan = NoPlan /\ h.request = Idle /\ h.causes = Causes(e)
         /\ HeldBy(e) => e.verdict # "approved"
  BY <1>1, <1>2, BeginOutcome DEF Shape
<1>4. h \in Handlers /\ engine' = h /\ engine' # Idle
  <2>1. h \in Handlers
    BY <1>1, <1>2, BeginType DEF Shape
  <2> QED BY <1>1, <1>2, <2>1, NoPlanIsNone
<1>5. ~Cascading /\ ~Cascading'
  BY <1>1, <1>3, <1>4 DEF Cascading, Handles, NoPlan
<1>6. Begun = ahead /\ Begun' = ahead + 1 /\ ahead \in Nat /\ DOMAIN inbox \subseteq Nat
  BY <1>1, <1>4 DEF Begun, Shape, EngineShape
<1>7. Cancels(status, status')
  BY <1>1 DEF Cancels
<1>8. Coming = Later
  BY <1>1 DEF Coming, Handles
<1>9. ASSUME NEW c \in Items, NEW k \in DOMAIN inbox, k > ahead + 1, Will(inbox[k], c)
      PROVE  c \in Later'
  <2>1. ASSUME NEW q \in Holds, ApprovesPlan(inbox[k], q)
        PROVE  q \in DOMAIN parked' /\ parked'[q] = parked[q]
    <3>1. k \in Nat /\ k # ahead + 1
      BY <1>6, <1>9
    <3>2. ~(e.type = "hold" /\ e.request = q)
      BY <1>1, <2>1, <3>1 DEF AnsweredOnce, ApprovesPlan
    <3>3. q \in DOMAIN parked
      BY <2>1 DEF ApprovesPlan
    <3> HIDE DEF e
    <3> QED BY <1>1, <3>2, <3>3 DEF Restrict, HeldBy
  <2>2. \E j \in DOMAIN inbox' : j > Begun' /\ inbox'[j] = inbox[k]
    BY <1>1, <1>6, <1>9
  <2> QED BY <1>7, <1>9, <2>1, <2>2, EventKept
<1>10. ASSUME NEW c \in Items, Will(e, c) PROVE c \in Coming'
  <2> HIDE DEF e
  <2>1. CASE c \in Causes(e) /\ Narrow(status, c)
    <3>1. Causes(e) # {} => e.type # "hold"
      BY DEF Causes
    <3>2. h.phase = "causes" /\ h.causes = Causes(e)
      BY <1>3, <2>1, <3>1 DEF HeldBy
    <3>3. c \in Later'
      BY <1>4, <1>7, <2>1, <3>2, CauseKept
    <3> QED BY <3>3 DEF Coming
  <2>2. ASSUME NEW q \in Holds, ApprovesPlan(e, q), parked[q].dirty = c
        PROVE  c \in Coming'
    <3>1. /\ HeldBy(e) /\ e.verdict = "approved" /\ e.request = q /\ ~IsChange(q)
          /\ e.type # "review"
      BY <2>2 DEF ApprovesPlan, HeldBy
    <3>2. h.phase = "planned" /\ h.plan = parked[q]
      BY <1>3, <3>1
    <3> QED BY <1>4, <2>2, <3>2 DEF Coming, Handles
  <2> QED BY <1>10, <2>1, <2>2 DEF Will
<1>11. Coming \subseteq Coming'
  <2> SUFFICES ASSUME NEW c \in Coming PROVE c \in Coming'
    OBVIOUS
  <2>1. c \in Items /\ \E k \in DOMAIN inbox : k > ahead /\ Will(inbox[k], c)
    BY <1>1, <1>6, <1>8 DEF Later
  <2>2. PICK k \in DOMAIN inbox : k > ahead /\ Will(inbox[k], c)
    BY <2>1
  <2>3. CASE k = ahead + 1
    BY <1>10, <2>1, <2>2, <2>3
  <2>4. CASE k # ahead + 1
    <3>1. k > ahead + 1
      BY <1>6, <2>2, <2>4
    <3> QED BY <1>9, <2>1, <2>2, <3>1 DEF Coming
  <2> QED BY <2>3, <2>4
<1> QED BY <1>1, <1>5, <1>11, RestingKept

(* A cause is planned: its cascade is to be executed when it is narrow.    *)
LEMMA PlanIsSound ==
  ASSUME Forest, Shape, NodesAreSound, PlanInvalidation
  PROVE  NodesAreSound'
<1>1. engine # Idle /\ engine.phase = "causes" /\ engine \in Handlers
      /\ UNCHANGED <<status, inbox, ahead, parked, crashes>>
  BY DEF PlanInvalidation, Handles, Shape, EngineShape, queue, progress, bounds
<1>2. PICK c \in engine.causes \cap Live :
        LET plan == [dirty |-> c, affected |-> WalkDependents(c)]
        IN engine' = [engine EXCEPT
             !.causes = @ \ {c}, !.plan = plan,
             !.phase = IF 1 + Len(plan.affected) <= AutoMax THEN "planned" ELSE "gating"]
  BY DEF PlanInvalidation
<1> DEFINE plan == [dirty |-> c, affected |-> WalkDependents(c)]
           phase == IF 1 + Len(plan.affected) <= AutoMax THEN "planned" ELSE "gating"
<1>3. engine' = [engine EXCEPT !.causes = @ \ {c}, !.plan = plan, !.phase = phase]
  BY <1>2
<1>4. c \in Items /\ plan.dirty = c
  BY DEF Live
<1>5. plan \in Plan /\ (Narrow(status, c) => 1 + Len(plan.affected) <= AutoMax)
  BY <1>4, WalkIsSound
<1>6. phase \in {"planned", "gating"} /\ (Narrow(status, c) => phase = "planned")
  BY <1>5
<1> HIDE DEF plan, phase
<1>7. /\ engine'.causes = engine.causes \ {c} /\ engine'.plan = plan /\ engine'.phase = phase
      /\ engine' # Idle
  <2>1. /\ engine'.causes = engine.causes \ {c} /\ engine'.plan = plan /\ engine'.phase = phase
        /\ engine' \in Handlers
    BY <1>1, <1>3, <1>5, <1>6 DEF Handlers, Phases
  <2> QED BY <2>1, NoPlanIsNone
<1>8. ~Cascading /\ ~Cascading'
  BY <1>1, <1>6, <1>7 DEF Cascading, Handles
<1>9. Cancels(status, status') /\ EventsStayAhead
  BY <1>1, <1>7 DEF Cancels, EventsStayAhead, Begun, ApprovesPlan
<1>10. Narrow(status, c) => c \in Coming'
  BY <1>4, <1>6, <1>7 DEF Coming, Handles
<1>11. Coming \subseteq Coming'
  <2> SUFFICES ASSUME NEW x \in Coming PROVE x \in Coming'
    OBVIOUS
  <2>1. x \in Later /\ x \in Items
    BY <1>1 DEF Coming, Handles, Later
  <2>2. ASSUME NEW k \in DOMAIN inbox, k > Begun, Will(inbox[k], x) PROVE x \in Later'
    BY <1>9, <2>1, <2>2, EventKept DEF EventsStayAhead
  <2>3. CASE x \in engine.causes /\ Narrow(status, x) /\ x # c
    BY <1>7, <1>9, <2>1, <2>3, CauseKept DEF Coming
  <2> QED BY <1>10, <2>1, <2>2, <2>3 DEF Later, Coming
<1> QED BY <1>1, <1>8, <1>11, RestingKept

(* A plan is gated: its cause was none that is invalidated unasked.        *)
LEMMA GateIsSound ==
  ASSUME Shape, WorkInHand, NodesAreSound, (\E q \in Holds : RequestPlan(q)) \/ ParkPlan
  PROVE  NodesAreSound'
<1>1. /\ engine # Idle /\ engine \in Handlers /\ engine.phase \in {"gating", "parking"}
      /\ UNCHANGED <<status, inbox, ahead, crashes>>
  BY DEF RequestPlan, ParkPlan, Handles, Shape, EngineShape, queue, progress, bounds
<1>2. engine'.phase \in {"parking", "causes"} /\ engine'.causes = engine.causes /\ engine' # Idle
  <2>1. CASE ParkPlan
    <3>1. /\ engine'.phase = "causes" /\ engine'.causes = engine.causes
          /\ engine' \in Handlers
      BY <1>1, <2>1 DEF ParkPlan, Handlers, Phases
    <3> QED BY <3>1, NoPlanIsNone
  <2>2. ASSUME NEW q \in Holds, RequestPlan(q)
        PROVE  engine'.phase = "parking" /\ engine'.causes = engine.causes /\ engine' # Idle
    <3>1. /\ engine'.phase = "parking" /\ engine'.causes = engine.causes
          /\ engine' \in Handlers
      BY <1>1, <2>2 DEF RequestPlan, Handlers, Phases
    <3> QED BY <3>1, NoPlanIsNone
  <2> QED BY <2>1, <2>2
<1>3. \A q \in DOMAIN parked : q \in DOMAIN parked' /\ parked'[q] = parked[q]
  <2>1. CASE ParkPlan
    <3>1. engine.request \notin DOMAIN parked
      BY <1>1, <2>1 DEF WorkInHand, ParkPlan, Handles
    <3>2. parked' = Put(parked, engine.request, engine.plan)
      BY <2>1 DEF ParkPlan
    <3> QED BY <3>1, <3>2 DEF Put
  <2>2. CASE \E q \in Holds : RequestPlan(q)
    BY <2>2 DEF RequestPlan
  <2> QED BY <2>1, <2>2
<1>4. Cancels(status, status') /\ EventsStayAhead
  BY <1>1, <1>2, <1>3 DEF Cancels, EventsStayAhead, Begun, ApprovesPlan
<1>5. Later \subseteq Later'
  BY <1>2, <1>4, LaterStays
<1>6. Coming = Later /\ Coming' = Later' /\ ~Cascading /\ ~Cascading'
  BY <1>1, <1>2 DEF Coming, Cascading, Handles
<1> QED BY <1>1, <1>5, <1>6, RestingKept

(* The statuses are read: the cascade is under way.                        *)
LEMMA ReadIsSound ==
  ASSUME Forest, Shape, WorkInHand, NodesAreSound, ReadStatuses
  PROVE  NodesAreSound'
<1>1. /\ engine # Idle /\ engine \in Handlers /\ engine.phase = "planned"
      /\ engine.plan \in Plan /\ UNCHANGED <<status, inbox, ahead, parked, crashes>>
  BY DEF ReadStatuses, Handles, Shape, EngineShape, queue, progress, bounds
<1>2. engine.plan # NoPlan /\ SoundPlan(status, engine.plan)
  BY <1>1, NoPlanIsNone DEF WorkInHand
<1>3. Cascade(engine.plan) \in Seq(Op)
  BY <1>1, CascadeType DEF Shape
<1>4. /\ engine'.phase = "moves" /\ engine'.plan = engine.plan /\ engine' # Idle
      /\ engine'.causes = engine.causes /\ engine'.ops = Cascade(engine.plan)
  <2>1. engine' = [engine EXCEPT !.phase = "moves", !.ops = Cascade(engine.plan), !.base = attempt]
    BY DEF ReadStatuses
  <2>2. engine' \in Handlers
    BY <1>1, <1>3, <2>1 DEF Handlers, Phases, Shape, QueueShape
  <2> QED BY <1>1, <2>1, <2>2, NoPlanIsNone DEF Handlers
<1>5. ~Cascading /\ Cascading'
  BY <1>1, <1>2, <1>4 DEF Cascading, Handles, NoPlan
<1>6. Cancels(status, status') /\ EventsStayAhead
  BY <1>1, <1>4 DEF Cancels, EventsStayAhead, Begun, ApprovesPlan
<1>7. Later \subseteq Later'
  BY <1>4, <1>6, LaterStays
<1>8. PICK p, l : p = engine.plan /\ l = Later
  OBVIOUS
<1>9. Coming = l \cup {p.dirty}
  <2>1. p.dirty \in Items
    BY <1>1, <1>8 DEF Plan
  <2> QED BY <1>1, <1>8, <2>1 DEF Coming, Handles
<1>10. Resting(status, l \cup {p.dirty})
  BY <1>5, <1>9 DEF NodesAreSound
<1>11. /\ UnderWay(status, Cascade(p), p, l)
       /\ crashes = 0 => Excused(status, Cascade(p), p, l)
  BY <1>1, <1>2, <1>8, <1>10, CascadeBegins DEF Resting, Shape
<1>12. /\ UnderWay(status, Cascade(p), p, Later')
       /\ crashes = 0 => Excused(status, Cascade(p), p, Later')
  BY <1>7, <1>8, <1>11, UnderWayMore
<1>13. engine'.ops = Cascade(p) /\ engine'.plan = p
  BY <1>4, <1>8
<1> QED BY <1>1, <1>5, <1>12, <1>13 DEF NodesAreSound

(* An event's request is settled: no later event approves it.              *)
LEMMA SettledOnce ==
  ASSUME AnsweredOnce, NEW k \in DOMAIN inbox, ahead + 1 \in DOMAIN inbox, k # ahead + 1,
         NEW q \in Holds, ApprovesPlan(inbox[k], q),
         \/ engine.request = Idle
         \/ inbox[ahead + 1].type = "hold" /\ inbox[ahead + 1].request = engine.request
  PROVE  q # engine.request
BY NoPlanIsNone DEF AnsweredOnce, ApprovesPlan

LEMMA ExecutedIsSound ==
  ASSUME Forest, Shape, AnsweredOnce, WorkInHand, NodesAreSound, Executed
  PROVE  NodesAreSound'
<1>1. /\ engine # Idle /\ engine \in Handlers /\ engine.phase = "moves" /\ engine.ops = <<>>
      /\ ahead \in Nat /\ ahead + 1 \in DOMAIN inbox
      /\ UNCHANGED <<status, inbox, ahead, crashes>>
      /\ parked' = Restrict(parked, DOMAIN parked \ {engine.request})
  BY DEF Executed, Handles, Shape, EngineShape, queue, progress, bounds
<1>2. engine'.phase = "causes" /\ engine'.causes = engine.causes /\ engine' # Idle
  <2>1. /\ engine'.phase = "causes" /\ engine'.causes = engine.causes
        /\ engine' \in Handlers
    BY <1>1 DEF Executed, Handlers, Phases
  <2> QED BY <2>1, NoPlanIsNone
<1>3. \/ engine.request = Idle
      \/ inbox[ahead + 1].type = "hold" /\ inbox[ahead + 1].request = engine.request
  <2>1. CASE engine.plan = NoPlan
    BY <1>1, <2>1 DEF WorkInHand, ChangeInHand
  <2>2. CASE engine.plan # NoPlan
    <3>1. PlanInHand(inbox[ahead + 1])
      BY <1>1, <2>2 DEF WorkInHand, Cascading, Handles
    <3> QED BY <3>1 DEF PlanInHand, ApprovesPlan
  <2> QED BY <2>1, <2>2
<1>4. EventsStayAhead
  <2> SUFFICES ASSUME NEW k \in DOMAIN inbox, k > ahead + 1, NEW q \in Holds,
                      ApprovesPlan(inbox[k], q)
               PROVE  q \in DOMAIN parked' /\ parked'[q] = parked[q]
    BY <1>1, <1>2 DEF EventsStayAhead, Begun
  <2>1. k # ahead + 1
    BY <1>1
  <2>2. q # engine.request
    BY <1>1, <1>3, <2>1, SettledOnce
  <2> QED BY <1>1, <2>2 DEF ApprovesPlan, Restrict
<1>5. Cancels(status, status')
  BY <1>1 DEF Cancels
<1>6. Later \subseteq Later'
  BY <1>2, <1>4, <1>5, LaterStays
<1>7. ~Cascading' /\ Coming' = Later'
  BY <1>2 DEF Coming, Cascading, Handles
<1>8. CASE engine.plan = NoPlan
  <2>1. ~Cascading /\ Coming = Later
    BY <1>1, <1>8 DEF Coming, Cascading, Handles
  <2> QED BY <1>1, <1>6, <1>7, <2>1, RestingKept
<1>9. CASE engine.plan # NoPlan
  <2>1. PICK p, l : p = engine.plan /\ l = Later
    OBVIOUS
  <2>2. /\ UnderWay(status, <<>>, p, l)
        /\ crashes = 0 => Excused(status, <<>>, p, l)
    BY <1>1, <1>9, <2>1 DEF NodesAreSound, Cascading, Handles
  <2>3. p \in Plan /\ SoundPlan(status, p) /\ Sound(status, <<>>, p, l)
    BY <2>2 DEF UnderWay
  <2>4. /\ ExposedAreAnchored(status, <<>>) /\ ExposedAreCovered(status, <<>>, l)
        /\ Excused(status, <<>>, p, l) => WaitsAreExcused(status, <<>>, l)
    BY <2>3, LastMove
  <2>5. /\ ExposedAreAnchored(status, <<>>) /\ ExposedAreCovered(status, <<>>, Later')
        /\ crashes = 0 => WaitsAreExcused(status, <<>>, Later')
    BY <1>6, <2>1, <2>2, <2>4, MoreComing
  <2> QED BY <1>1, <1>7, <2>5 DEF NodesAreSound, Resting
<1> QED BY <1>8, <1>9

LEMMA FinishIsSound ==
  ASSUME Shape, NodesAreSound, Finish
  PROVE  NodesAreSound'
<1>1. /\ engine # Idle /\ engine.phase = "causes" /\ engine.causes = {}
      /\ engine' = Idle /\ ahead' = ahead + 1 /\ UNCHANGED <<status, inbox, parked, crashes>>
  BY DEF Finish, Handles, queue, bounds
<1>2. Cancels(status, status') /\ EventsStayAhead
  BY <1>1 DEF Cancels, EventsStayAhead, Begun, ApprovesPlan
<1>3. Later \subseteq Later'
  BY <1>1, <1>2, LaterKept
<1>4. Coming = Later /\ Coming' = Later' /\ ~Cascading /\ ~Cascading'
  BY <1>1 DEF Coming, Cascading, Handles
<1> QED BY <1>1, <1>3, <1>4, RestingKept

(* The handler is cut short: what it had in hand is with its event, which  *)
(* is ahead again.                                                         *)
LEMMA HandIsDropped ==
  ASSUME Shape, WorkInHand, engine # Idle, engine' = Idle, UNCHANGED <<status, parked>>,
         ahead' = 0,
         \A k \in DOMAIN inbox : k > ahead =>
           \E j \in DOMAIN inbox' : j > 0 /\ inbox'[j] = inbox[k]
  PROVE  /\ Later \subseteq Later'
         /\ Handles("planned") \/ Cascading => engine.plan.dirty \in Later'
<1>1. Begun = ahead + 1 /\ Begun' = 0 /\ ahead \in Nat /\ ahead + 1 \in DOMAIN inbox
      /\ DOMAIN inbox \subseteq Nat /\ engine \in Handlers
  BY DEF Begun, Shape, EngineShape
<1>2. PICK j \in DOMAIN inbox' : j > 0 /\ inbox'[j] = inbox[ahead + 1]
  BY <1>1
<1>3. Cancels(status, status')
  BY DEF Cancels
<1>4. EventsStayAhead
  BY <1>1 DEF EventsStayAhead, ApprovesPlan
<1>5. \A c \in Items : c \in engine.causes /\ Narrow(status, c) => c \in Later'
  <2>1. engine.causes \subseteq Causes(inbox'[j])
    BY <1>2 DEF WorkInHand
  <2> QED BY <1>1, <1>2, <1>3, <2>1, CauseKept
<1>6. Later \subseteq Later'
  BY <1>3, <1>4, <1>5, LaterKept
<1>7. ASSUME Handles("planned") \/ Cascading PROVE engine.plan.dirty \in Later'
  <2>1. engine.plan \in Plan
    BY <1>1, <1>7 DEF Handles, Cascading, Shape, EngineShape, Handlers
  <2>2. SoundPlan(status, engine.plan) /\ PlanInHand(inbox[ahead + 1])
    BY <1>7, <2>1, NoPlanIsNone DEF WorkInHand, Handles, Cascading
  <2>3. engine.plan.dirty \in Items
    BY <2>1 DEF Plan
  <2>4. CASE /\ engine.plan.dirty \in Causes(inbox[ahead + 1])
             /\ 1 + Len(engine.plan.affected) <= AutoMax
    <3>1. Narrow(status, engine.plan.dirty)
      BY <2>1, <2>2, <2>4, PlanIsNarrow
    <3>2. engine.plan.dirty \in Causes(inbox'[j]) /\ j > Begun'
      BY <1>1, <1>2, <2>4
    <3> QED BY <1>3, <2>3, <3>1, <3>2, CauseKept
  <2>5. CASE /\ ApprovesPlan(inbox[ahead + 1], engine.request)
             /\ parked[engine.request] = engine.plan
    <3>1. Will(inbox[ahead + 1], engine.plan.dirty)
      <4>1. engine.request \in Holds
        BY <2>5 DEF ApprovesPlan, Shape, RequestShape
      <4> QED BY <2>5, <4>1 DEF Will
    <3>2. PICK c : c = engine.plan.dirty
      OBVIOUS
    <3>3. c \in Items /\ Will(inbox[ahead + 1], c)
      BY <2>3, <3>1, <3>2
    <3>4. j > Begun' /\ inbox'[j] = inbox[ahead + 1]
      BY <1>1, <1>2
    <3>5. \A q \in Holds : ApprovesPlan(inbox[ahead + 1], q)
             => q \in DOMAIN parked' /\ parked'[q] = parked[q]
      BY DEF ApprovesPlan
    <3>6. c \in Later'
      BY <1>1, <1>2, <1>3, <3>3, <3>4, <3>5, EventKept
    <3> QED BY <3>2, <3>6
  <2> QED BY <2>2, <2>4, <2>5 DEF PlanInHand
<1> QED BY <1>6, <1>7

LEMMA DropIsSound ==
  ASSUME Shape, WorkInHand, NodesAreSound, engine # Idle, engine' = Idle,
         UNCHANGED <<status, parked>>, ahead' = 0,
         \A k \in DOMAIN inbox : k > ahead =>
           \E j \in DOMAIN inbox' : j > 0 /\ inbox'[j] = inbox[k],
         crashes' = 0 => crashes = 0,
         Cascading /\ crashes' = 0 => engine.ops # <<>> /\ ~Possible(Head(engine.ops))
  PROVE  NodesAreSound'
<1>1. /\ Later \subseteq Later'
      /\ Handles("planned") \/ Cascading => engine.plan.dirty \in Later'
  BY HandIsDropped
<1>2. ~Cascading' /\ Coming' = Later'
  BY DEF Coming, Cascading, Handles
<1>3. CASE ~Cascading
  <2>1. Coming \subseteq Coming'
    BY <1>1, <1>2 DEF Coming
  <2> QED BY <1>2, <1>3, <2>1, RestingKept
<1>4. CASE Cascading
  <2>1. PICK p, l : p = engine.plan /\ l = Later
    OBVIOUS
  <2>2. PICK ops : ops = engine.ops
    OBVIOUS
  <2>3. /\ UnderWay(status, ops, p, l)
        /\ crashes = 0 => Excused(status, ops, p, l)
    BY <1>4, <2>1, <2>2 DEF NodesAreSound
  <2>4. l \cup {p.dirty} \subseteq Later'
    BY <1>1, <1>4, <2>1
  <2>5. ExposedAreAnchored(status, <<>>) /\ ExposedAreCovered(status, <<>>, l \cup {p.dirty})
    BY <2>3, CutShort DEF UnderWay, Sound
  <2>6. crashes' = 0 => WaitsAreExcused(status, <<>>, l \cup {p.dirty})
    <3> SUFFICES ASSUME crashes' = 0, NEW n \in Items, status[n] \in Off,
                        Queue!UpstreamsDone(status, n)
                 PROVE  DependsOn[n] \cap (l \cup {p.dirty}) # {}
      BY DEF WaitsAreExcused
    <3>1. /\ ops # <<>> /\ ~Possible(Head(ops))
          /\ WaitsAreExcused(status, ops, Reruns(l, ops, p))
      BY <1>4, <2>2, <2>3 DEF Excused
    <3>2. ops # <<[move |-> "revive", item |-> n]>>
      <4> SUFFICES ASSUME ops = <<[move |-> "revive", item |-> n]>> PROVE FALSE
        OBVIOUS
      <4>1. Head(ops) = [move |-> "revive", item |-> n]
        OBVIOUS
      <4>2. Target(Head(ops)) = "ready"
        BY <4>1 DEF Target
      <4>3. "ready" \in Queue!Transitions(status[n])
        BY DEF Off, Queue!Transitions
      <4> QED BY <3>1, <4>1, <4>2, <4>3 DEF Possible, Still
    <3>3. DependsOn[n] \cap Reruns(l, ops, p) # {}
      BY <3>1, <3>2 DEF WaitsAreExcused
    <3> QED BY <3>3 DEF Reruns
  <2>7. /\ ExposedAreCovered(status, <<>>, Later')
        /\ crashes' = 0 => WaitsAreExcused(status, <<>>, Later')
    BY <2>4, <2>5, <2>6, MoreComing
  <2> QED BY <1>2, <2>5, <2>7 DEF NodesAreSound, Resting
<1> QED BY <1>3, <1>4

-----------------------------------------------------------------------------
(* The handler's end, and the invariant over every step.                   *)
LEMMA EndsAreSound ==
  ASSUME Shape, crashes \in Nat, WorkInHand, NodesAreSound, Persist \/ Throw \/ Crash
  PROVE  NodesAreSound'
<1>1. /\ engine' = Idle /\ ahead' = 0 /\ UNCHANGED <<status, parked>>
      /\ crashes' = 0 => crashes = 0
  BY DEF Persist, Throw, Crash, queue, bounds, Shape, EngineShape
<1>2. ASSUME NEW k \in DOMAIN inbox, k > ahead
      PROVE  \E j \in DOMAIN inbox' : j > 0 /\ inbox'[j] = inbox[k]
  <2>1. k \in Nat /\ ahead \in Nat
    BY DEF Shape, EngineShape
  <2>2. CASE Crash
    BY <1>2, <2>1, <2>2 DEF Crash
  <2>3. CASE Persist \/ Throw
    <3>1. inbox' = SubSeq(inbox, ahead + 1, Len(inbox))
      BY <2>3 DEF Persist, Throw
    <3>2. k - ahead \in DOMAIN inbox' /\ inbox'[k - ahead] = inbox[k] /\ k - ahead > 0
      BY <1>1, <1>2, <2>1, <3>1, ReadEnds DEF Shape
    <3> QED BY <3>2
  <2> QED BY <2>2, <2>3
<1>3. CASE engine = Idle
  <2>1. EventsStayAhead
    BY <1>1, <1>2, <1>3 DEF EventsStayAhead, Begun, ApprovesPlan
  <2>2. Cancels(status, status')
    BY <1>1 DEF Cancels
  <2>3. Later \subseteq Later'
    BY <1>3, <2>1, <2>2, LaterStays
  <2>4. ~Cascading /\ ~Cascading' /\ Coming = Later /\ Coming' = Later'
    BY <1>1, <1>3 DEF Coming, Cascading, Handles
  <2> QED BY <1>1, <2>3, <2>4, RestingKept
<1>4. CASE engine # Idle
  <2>1. Cascading /\ crashes' = 0 => engine.ops # <<>> /\ ~Possible(Head(engine.ops))
    <3>1. CASE Crash
      <4>1. crashes' # 0
        <5>1. crashes \in Nat /\ crashes' = crashes + 1
          BY <3>1 DEF Crash
        <5> QED BY <5>1
      <4> QED BY <4>1
    <3>2. CASE Persist \/ Throw
      BY <1>4, <3>2 DEF Persist, Throw, Cascading, Handles
    <3> QED BY <3>1, <3>2
  <2> QED BY <1>1, <1>2, <1>4, <2>1, DropIsSound
<1> QED BY <1>3, <1>4

(* What others than the engine and the workers do takes nothing from what  *)
(* is to come.                                                             *)
LEMMA OthersAreSound ==
  ASSUME Shape, RequestsAreMade, NodesAreSound,
         \/ \E i \in Items : RequestReview(i)
         \/ \E i \in Items, a \in 1..MaxAttempt, v \in Verdicts : ResolveReview(i, a, v)
         \/ \E q \in Holds, v \in Verdicts : ResolveHold(q, v)
         \/ \E q \in Holds, i \in Items : ProposeSkip(q, i)
         \/ \E q \in Holds : ParkSkip(q)
         \/ \E nodes \in SUBSET Items \ {{}} : NewDoc(nodes)
         \/ UNCHANGED vars
  PROVE  NodesAreSound'
<1>1. UNCHANGED <<status, engine, crashes, ahead>>
  BY DEF RequestReview, ResolveReview, ResolveHold, ProposeSkip, ParkSkip, NewDoc, queue,
         progress, bounds, vars
<1>2. \A k \in DOMAIN inbox : k \in DOMAIN inbox' /\ inbox'[k] = inbox[k]
  <2>1. inbox' = inbox \/ \E e : inbox' = Append(inbox, e)
    BY DEF RequestReview, ResolveReview, ResolveHold, ProposeSkip, ParkSkip, NewDoc,
           progress, vars
  <2> QED BY <2>1 DEF Shape, EngineShape
<1>3. \A q \in DOMAIN parked : q \in DOMAIN parked' /\ parked'[q] = parked[q]
  <2>1. ASSUME NEW q \in Holds, ParkSkip(q)
        PROVE  \A r \in DOMAIN parked : r \in DOMAIN parked' /\ parked'[r] = parked[r]
    BY <2>1 DEF ParkSkip, Put, RequestsAreMade
  <2>2. CASE ~(\E q \in Holds : ParkSkip(q))
    BY <2>2 DEF RequestReview, ResolveReview, ResolveHold, ProposeSkip, NewDoc, vars
  <2> QED BY <2>1, <2>2
<1>4. EventsStayAhead
  BY <1>1, <1>2, <1>3 DEF EventsStayAhead, Begun, ApprovesPlan
<1> QED BY <1>1, <1>4, SoundKept

LEMMA NodesStep ==
  ASSUME Forest, OnlyLeavesSkipped, Shape, Book, NodesAreSound, [Next]_vars
  PROVE  NodesAreSound'
<1> USE DEF Book
<1>1. CASE Work
  BY <1>1, WorkIsSound
<1>2. CASE Receive
  BY <1>2, ReceiveIsSound
<1>3. CASE PlanInvalidation
  BY <1>3, PlanIsSound
<1>4. CASE (\E q \in Holds : RequestPlan(q)) \/ ParkPlan
  BY <1>4, GateIsSound
<1>5. CASE ReadStatuses
  BY <1>5, ReadIsSound
<1>6. CASE Move
  BY <1>6, MoveIsSound
<1>7. CASE Executed
  BY <1>7, ExecutedIsSound
<1>8. CASE Finish
  BY <1>8, FinishIsSound
<1>9. CASE Persist \/ Throw \/ Crash
  BY <1>9, EndsAreSound
<1>10. CASE \/ \E i \in Items : RequestReview(i)
            \/ \E i \in Items, a \in 1..MaxAttempt, v \in Verdicts : ResolveReview(i, a, v)
            \/ \E q \in Holds, v \in Verdicts : ResolveHold(q, v)
            \/ \E q \in Holds, i \in Items : ProposeSkip(q, i)
            \/ \E q \in Holds : ParkSkip(q)
            \/ \E nodes \in SUBSET Items \ {{}} : NewDoc(nodes)
            \/ UNCHANGED vars
  BY <1>10, OthersAreSound
<1> QED
  BY <1>1, <1>2, <1>3, <1>4, <1>5, <1>6, <1>7, <1>8, <1>9, <1>10 DEF Next, Engine

LEMMA NodesInit == Init => NodesAreSound
<1> SUFFICES ASSUME Init PROVE NodesAreSound
  OBVIOUS
<1>1. \A i \in Items : status[i] = IF DependsOn[i] = {} THEN "ready" ELSE "pending"
  BY DEF Init
<1>2. \A i \in Items : Queue!UpstreamsDone(status, i) <=> DependsOn[i] = {}
  BY <1>1, EdgeType DEF Queue!UpstreamsDone
<1> DEFINE none == <<>>
<1>3. \A i, name : ~Left(none, i, name)
  BY DEF Left
<1>4. engine = Idle
  BY DEF Init
<1> HIDE DEF none
<1>5. \A i \in Items : Exposed(status, none, i) <=> DependsOn[i] = {}
  BY <1>1, <1>3 DEF Exposed, Working
<1>6. ExposedAreAnchored(status, none)
  BY <1>5 DEF ExposedAreAnchored
<1>7. ExposedAreCovered(status, none, Coming)
  BY <1>2, <1>5 DEF ExposedAreCovered
<1>8. WaitsAreExcused(status, none, Coming)
  BY <1>1, <1>2 DEF WaitsAreExcused, Off
<1>9. Resting(status, Coming)
  BY <1>6, <1>7, <1>8 DEF Resting, none
<1> QED BY <1>4, <1>9 DEF NodesAreSound, Cascading, Handles

(* When the engine is at rest nothing is to come.                          *)
LEMMA RestIsSound ==
  ASSUME NodesAreSound, ParkedPlansAwaitAnswers
  PROVE  SettledRunsAreSound
<1> SUFFICES ASSUME Settled
             PROVE  /\ NothingRunsAhead
                    /\ crashes = 0 => \A i \in Items :
                         status[i] \in {"pending", "stale"} => ~Queue!UpstreamsDone(status, i)
  BY DEF SettledRunsAreSound, NoPromotionLostByRetries, NothingWaitsInVain, NothingRunsAhead
<1> DEFINE none == <<>>
<1>1. engine = Idle /\ DOMAIN inbox = {}
  BY DEF Settled
<1>2. Coming = {}
  BY <1>1 DEF Coming, Later, Handles
<1>3. Resting(status, {})
  BY <1>1, <1>2 DEF NodesAreSound, Cascading, Handles
<1>4. \A i : none # <<[move |-> "revive", item |-> i]>>
  OBVIOUS
<1>5. NothingRunsAhead
  BY <1>3 DEF NothingRunsAhead, Resting, ExposedAreCovered, Exposed, Working
<1>6. crashes = 0 => \A i \in Items :
        status[i] \in {"pending", "stale"} => ~Queue!UpstreamsDone(status, i)
  BY <1>3, <1>4 DEF Resting, WaitsAreExcused, Off
<1> QED BY <1>5, <1>6

(* The engine at rest, every event handled, leaves a sound run: no plan is *)
(* left behind an answered request, no node may run, runs or has run while *)
(* an upstream is unfinished, and, unless a crash cut a cascade, no node   *)
(* waits whose upstreams are all finished.  So executeInvalidation may     *)
(* move nodes one transaction at a time, from statuses read before, with   *)
(* workers, documents, skips and answers between any two, provided that no *)
(* node has two upstreams (a join breaks it) and only leaves are skipped   *)
(* (the dependents of a skipped node wait for ever).                       *)
THEOREM SettledRunsStaySound ==
  ASSUME Forest, OnlyLeavesSkipped
  PROVE  Spec => []SettledRunsAreSound
<1> DEFINE Inv == Book /\ NodesAreSound
<1>1. Init => Inv
  BY BookInit, NodesInit
<1>2. (Shape /\ Answered) /\ Inv /\ [Next]_vars => Inv'
  BY BookStep, NodesStep
<1>3. Inv /\ ParkedPlansAwaitAnswers => SettledRunsAreSound
  BY RestIsSound
<1> HIDE DEF Inv
<1> QED BY <1>1, <1>2, <1>3, ApprovedInvariant, NoPlanIsLeftBehind, PTL DEF Spec
=============================================================================
