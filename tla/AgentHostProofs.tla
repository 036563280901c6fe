-------------------------- MODULE AgentHostProofs --------------------------
(***************************************************************************)
(* Proofs about the resident agent, for every set of items, every price    *)
(* list and every bound.                                                   *)
(***************************************************************************)
EXTENDS AgentHost, FoldFacts

(* The run in the loop's hands was issued by a claim, and the fields of the *)
(* loop are those of the code, whatever the budget and the cost are.        *)
Fields == {"phase", "run", "budget", "cost", "outcome", "aborted"}

Phases == {"none", "open", "check", "claim", "start", "run", "put", "complete", "close"}

InHand == loop.phase \in {"start", "run", "put", "complete"}

LoopShape ==
  /\ DOMAIN loop = Fields
  /\ loop.phase \in Phases
  /\ InHand => loop.run \in issued
  /\ loop.phase \in {"put", "complete"} => loop.outcome \in Outcomes

QueueShape ==
  /\ status \in [Items -> Queue!Statuses \cup {"absent"}]
  /\ lease \in [Items -> Queue!Lease \cup {NoLease}]
  /\ attempt \in [Items -> Nat]
  /\ now \in Nat
  /\ issued \subseteq [item: Items, holder: {Agent}, run: Nat]
  /\ \A i \in Items : lease[i] # NoLease => lease[i].run = attempt[i]

ThreadStates == {"idle", "opened", "handling", "waiting", "reclaimed"}

HostShape ==
  /\ LoopShape
  /\ pending \in BOOLEAN
  /\ thread \in [Threads -> ThreadStates]
  /\ faults \in Nat

LEMMA ShapeInit == Init => QueueShape /\ HostShape
<1> SUFFICES ASSUME Init PROVE QueueShape /\ HostShape
  OBVIOUS
<1>1. QueueShape
  BY DEF Init, QueueShape, Queue!Init
<1>2. LoopShape
  BY DEF Init, LoopShape, NoLoop, Fields, Phases, InHand
<1>3. pending \in BOOLEAN
  BY DEF Init
<1>4. faults \in Nat /\ thread \in [Threads -> ThreadStates]
  BY DEF Init, ThreadStates
<1> QED BY <1>1, <1>2, <1>3, <1>4 DEF HostShape

-----------------------------------------------------------------------------
(* What the steps do to the loop, one lemma for each part of the shape.    *)
LEMMA ResetShape ==
  ASSUME \/ loop' = NoLoop
         \/ loop' = [NoLoop EXCEPT !.phase = "open"]
         \/ loop' = [NoLoop EXCEPT !.phase = "check"]
  PROVE  LoopShape' /\ loop'.phase \in {"none", "open", "check"}
BY DEF LoopShape, Fields, Phases, InHand, NoLoop

LEMMA LoopStep ==
  ASSUME LoopShape, QueueShape, [Next]_vars
  PROVE  LoopShape'
<1> USE DEF LoopShape, Fields, Phases, InHand, At, Outcomes
<1>0. ASSUME UNCHANGED loop, issued \subseteq issued' PROVE LoopShape'
  BY <1>0
<1>1. ASSUME NEW i \in Items, OpenForEvent(i) PROVE LoopShape'
  BY <1>0, <1>1 DEF OpenForEvent, Queue!Open
<1>2. CASE WakeForItem \/ WakeForEvent \/ Heartbeat
  BY <1>2 DEF WakeForItem, WakeForEvent, Heartbeat, WakeBy, NoLoop, queue
<1>3. CASE Reclaim \/ NoHeartbeat \/ KeepAlive
  BY <1>0, <1>3 DEF Reclaim, NoHeartbeat, KeepAlive, Queue!Tick, Queue!Heartbeat, queue
<1>4. CASE OthersWork
  <2>1. issued' = issued
    BY <1>4
    DEF OthersWork, Queue!Open, Queue!RevokeLease, Queue!Cancel, Queue!Transition,
        Queue!Advance
  <2> QED BY <1>0, <1>4, <2>1 DEF OthersWork
<1>5. CASE OpenSession \/ CheckBudget \/ QueueDrained
  <2>1. /\ issued' = issued
        /\ \/ loop' = [loop EXCEPT !.phase = "check"]
           \/ loop' = [loop EXCEPT !.phase = "claim"]
           \/ loop' = [loop EXCEPT !.phase = "close"]
    BY <1>5 DEF OpenSession, CheckBudget, QueueDrained, queue
  <2> QED BY <2>1
<1>6. ASSUME NEW i \in Items, ClaimItem(i) PROVE LoopShape'
  BY <1>6 DEF ClaimItem, Queue!Claim, QueueShape
<1>7. CASE StartRun \/ FinishRun
  BY <1>7 DEF StartRun, StartsRun, FinishRun, queue
<1>8. CASE CompleteItem
  <2>1. loop' = [NoLoop EXCEPT !.phase = "check"]
    BY <1>8 DEF CompleteItem
  <2> QED BY <2>1, ResetShape
<1>9. CASE CloseSession
  <2>1. loop' = NoLoop \/ loop' = [NoLoop EXCEPT !.phase = "open"]
    BY <1>9 DEF CloseSession
  <2> QED BY <2>1, ResetShape
<1>10. ASSUME NEW c \in CallCosts, NEW next \in Reports \cup {"continue"},
              ModelCall(c, next)
       PROVE  LoopShape'
  BY <1>10, BudgetAssumption DEF ModelCall, queue
<1>11. ASSUME NEW outcome \in {"failed", "cancelled"}, GiveUp(outcome)
       PROVE  LoopShape'
  BY <1>11 DEF GiveUp, queue
<1>12. CASE HeartbeatFails
  <2>1. loop' = [loop EXCEPT !.aborted = TRUE] /\ issued' = issued
    BY <1>12 DEF HeartbeatFails, queue
  <2> QED BY <2>1
<1>13. CASE ExecutorThrows
  <2>1. /\ loop' = [loop EXCEPT !.phase = "put", !.outcome = "failed", !.cost = 0]
        /\ issued' = issued /\ loop.phase \in {"run", "put"}
    BY <1>13 DEF ExecutorThrows, Running, queue
  <2> QED BY <2>1
<1>14. CASE LoopThrows \/ CompleteFails \/ Crash
  <2>1. loop' = NoLoop \/ loop' = [NoLoop EXCEPT !.phase = "check"]
    BY <1>14 DEF LoopThrows, CompleteFails, Crash
  <2> QED BY <2>1, ResetShape
<1>15. CASE UNCHANGED vars
  BY <1>0, <1>15 DEF vars, queue
<1> QED
  BY <1>1, <1>2, <1>3, <1>4, <1>5, <1>6, <1>7, <1>8, <1>9, <1>10, <1>11, <1>12,
     <1>13, <1>14, <1>15
  DEF Next, ClockNext, DispatcherNext, LoopNext, Disturbance

LEMMA ThreadStep ==
  ASSUME HostShape, [Next]_vars
  PROVE  /\ pending' \in BOOLEAN
         /\ thread' \in [Threads -> ThreadStates]
         /\ faults' \in Nat
<1>1. faults' \in {faults, faults + 1}
  BY DEF Next, ClockNext, DispatcherNext, LoopNext, Disturbance, OpenForEvent,
         WakeForItem, WakeForEvent, Reclaim, Heartbeat, NoHeartbeat, OpenSession,
         CheckBudget, ClaimItem, QueueDrained, StartRun, StartsRun, FinishRun,
         CompleteItem, CloseSession, ModelCall, GiveUp, ExecutorThrows, KeepAlive,
         HeartbeatFails, LoopThrows, CompleteFails, Crash, OthersWork, Fault, vars
<1>2. pending' \in {pending, TRUE, FALSE}
  BY DEF Next, ClockNext, DispatcherNext, LoopNext, Disturbance, OpenForEvent,
         WakeForItem, WakeForEvent, Reclaim, Heartbeat, NoHeartbeat, OpenSession,
         CheckBudget, ClaimItem, QueueDrained, StartRun, StartsRun, FinishRun,
         CompleteItem, CloseSession, ModelCall, GiveUp, ExecutorThrows, KeepAlive,
         HeartbeatFails, LoopThrows, CompleteFails, Crash, OthersWork, WakeBy, vars
<1>3. \/ thread' = thread
      \/ \E c \in Threads, s \in ThreadStates : thread' = [thread EXCEPT ![c] = s]
      \/ thread' = [c \in Threads |-> IF c \in Waiting THEN "idle" ELSE thread[c]]
      \/ thread' = [c \in Threads |-> "idle"]
  BY DEF Next, ClockNext, DispatcherNext, LoopNext, Disturbance, OpenForEvent,
         WakeForItem, WakeForEvent, Reclaim, Heartbeat, NoHeartbeat, OpenSession,
         CheckBudget, ClaimItem, QueueDrained, StartRun, StartsRun, FinishRun,
         CompleteItem, CloseSession, ModelCall, GiveUp, ExecutorThrows, KeepAlive,
         HeartbeatFails, LoopThrows, CompleteFails, Crash, OthersWork, WakeBy, Return,
         Threads, ThreadStates, vars
<1>4. thread' \in [Threads -> ThreadStates]
  BY <1>3 DEF HostShape, ThreadStates
<1>5. faults' \in Nat
  BY <1>1 DEF HostShape
<1> QED BY <1>2, <1>4, <1>5 DEF HostShape

LEMMA HostStep == QueueShape /\ HostShape /\ [Next]_vars => HostShape'
BY LoopStep, ThreadStep DEF HostShape

-----------------------------------------------------------------------------
(* The queue as the agent uses it: every step of the host is an operation  *)
(* of the queue or leaves it alone, and the leases it presents were issued.*)
Completion == CompleteItem /\ Queue!Complete(loop.run, loop.outcome)

QueueOps ==
  \/ \E i \in Items : \/ Queue!Open(i, NoWake) \/ Queue!Claim(Agent, i)
                      \/ Queue!RevokeLease(i) \/ Queue!Cancel(i)
  \/ \E t \in issued : Queue!Heartbeat(t)
  \/ Queue!Tick(now, {})
  \/ Queue!Advance

LEMMA HostUsesQueue ==
  ASSUME LoopShape, [Next]_vars
  PROVE  QueueOps \/ Completion \/ UNCHANGED queue
<1>1. CASE UNCHANGED queue
  BY <1>1
<1>2. ASSUME NEW i \in Items, OpenForEvent(i) \/ ClaimItem(i)
      PROVE  QueueOps
  BY <1>2 DEF OpenForEvent, ClaimItem, QueueOps
<1>3. CASE Reclaim /\ Queue!Tick(now, {})
  BY <1>3 DEF QueueOps
<1>4. CASE Completion
  BY <1>4
<1>5. CASE KeepAlive
  BY <1>5 DEF KeepAlive, Running, LoopShape, InHand, At, QueueOps
<1>6. CASE OthersWork
  BY <1>6 DEF OthersWork, QueueOps
<1> QED
  BY <1>1, <1>2, <1>3, <1>4, <1>5, <1>6
  DEF Next, ClockNext, DispatcherNext, LoopNext, Disturbance,
      WakeForItem, WakeForEvent, Reclaim, Heartbeat, NoHeartbeat, OpenSession,
      CheckBudget, QueueDrained, StartRun, StartsRun, FinishRun,
      CompleteItem, Completion, CloseSession, ModelCall, GiveUp, ExecutorThrows,
      HeartbeatFails, LoopThrows, CompleteFails, Crash, vars

(* What completes an item: its lease is that of its latest attempt.        *)
LEMMA CompletionOf ==
  ASSUME QueueShape, LoopShape, Completion
  PROVE  /\ At("complete") /\ loop.outcome \in Outcomes /\ loop.run \in issued
         /\ Queue!Held(loop.run) /\ Queue!Complete(loop.run, loop.outcome)
BY DEF Completion, CompleteItem, LoopShape, InHand, At, Queue!Complete

(* No item depends on another here, so a completion promotes nobody.       *)
LEMMA NobodyPromoted == ASSUME NEW s, NEW i PROVE Queue!Promotable(s, i) = {}
BY DEF Queue!Promotable

LEMMA CompletionStep ==
  ASSUME QueueShape, LoopShape, Completion
  PROVE  LET i  == loop.run.item
             to == Queue!OutcomeToStatus[loop.outcome]
         IN /\ i \in Items /\ loop.run = [item |-> i, holder |-> Agent, run |-> attempt[i]]
            /\ to \in {"done", "blocked", "failed", "cancelled"}
            /\ to = "done" <=> loop.outcome = "done"
            /\ status' = [status EXCEPT ![i] = to]
            /\ lease' = [lease EXCEPT ![i] = NoLease]
            /\ UNCHANGED <<attempt, wake, now, issued>>
<1> DEFINE i  == loop.run.item
           to == Queue!OutcomeToStatus[loop.outcome]
<1>1. /\ to \in {"done", "blocked", "failed", "cancelled"}
      /\ to = "done" <=> loop.outcome = "done"
  BY CompletionOf DEF Queue!OutcomeToStatus, Outcomes
<1>2. i \in Items /\ loop.run = [item |-> i, holder |-> Agent, run |-> attempt[i]]
  BY CompletionOf DEF QueueShape, Queue!Held
<1>3. /\ status' = [j \in Items |-> [status EXCEPT ![i] = to][j]]
      /\ lease' = [j \in Items |-> IF j = i THEN NoLease ELSE lease[j]]
      /\ UNCHANGED <<attempt, wake, now, issued>>
  BY CompletionOf, NobodyPromoted DEF Queue!Complete, Queue!Settle, Queue!RunPath
<1> HIDE DEF i, to
<1>4. /\ status' = [status EXCEPT ![i] = to]
      /\ lease' = [lease EXCEPT ![i] = NoLease]
  BY <1>2, <1>3 DEF QueueShape
<1> QED BY <1>1, <1>2, <1>3, <1>4 DEF i, to

LEMMA LeaseTime == ASSUME NEW t \in Nat PROVE t + LeaseTtl \in Nat
BY QueueAssumption

LEMMA QueueStep ==
  ASSUME QueueShape, LoopShape, QueueOps \/ Completion \/ UNCHANGED queue
  PROVE  QueueShape'
<1> USE DEF QueueShape, Queue!Statuses, Queue!Lease
<1>1. ASSUME NEW i \in Items, Queue!Open(i, NoWake) PROVE QueueShape'
  BY <1>1 DEF Queue!Open, Queue!InitialStatus
<1>2. ASSUME NEW i \in Items, Queue!Claim(Agent, i) PROVE QueueShape'
  BY <1>2, LeaseTime DEF Queue!Claim
<1>3. ASSUME NEW i \in Items, NEW to \in Queue!Statuses, Queue!Transition(i, to)
      PROVE  QueueShape'
  BY <1>3 DEF Queue!Transition
<1>4. ASSUME NEW t \in issued, Queue!Heartbeat(t) PROVE QueueShape'
  BY <1>4, LeaseTime DEF Queue!Heartbeat, Queue!Held
<1>5. CASE Completion
  BY <1>5, CompletionStep
<1>6. CASE Queue!Tick(now, {})
  BY <1>6 DEF Queue!Tick
<1>7. CASE Queue!Advance
  BY <1>7 DEF Queue!Advance
<1>8. CASE UNCHANGED queue
  BY <1>8 DEF queue
<1>9. "ready" \in Queue!Statuses /\ "cancelled" \in Queue!Statuses
  BY DEF Queue!Statuses
<1> QED
  BY <1>1, <1>2, <1>3, <1>4, <1>5, <1>6, <1>7, <1>8, <1>9
  DEF QueueOps, Queue!RevokeLease, Queue!Cancel

LEMMA ShapeInvariant == Spec => [](QueueShape /\ HostShape)
<1>1. QueueShape /\ HostShape /\ [Next]_vars => (QueueShape /\ HostShape)'
  BY HostStep, HostUsesQueue, QueueStep DEF HostShape
<1> QED BY <1>1, ShapeInit, PTL DEF Spec

-----------------------------------------------------------------------------
(* A session only closes without another pass when it found the queue      *)
(* drained, or the budget spent, after the last wake.                      *)
ServedInv == At("close") /\ ~pending => Waiting \subseteq looked

LEMMA WakeByPending ==
  ASSUME NEW c, NEW waiting, LoopShape, WakeBy(c, waiting)
  PROVE  At("close")' => pending'
BY DEF WakeBy, At, NoLoop, LoopShape

LEMMA ServedStep ==
  ASSUME HostShape, LoopShape', ServedInv, [Next]_vars
  PROVE  ServedInv'
<1> SUFFICES ASSUME At("close")', ~pending'
             PROVE  Waiting' \subseteq looked'
  BY DEF ServedInv
<1> USE DEF At
<1>1. CASE UNCHANGED <<loop, pending, thread, looked>>
  BY <1>1 DEF ServedInv, Waiting
<1>2. CASE UNCHANGED <<loop, pending, looked>> /\ Waiting' \subseteq Waiting
  BY <1>2 DEF ServedInv
<1>3. ASSUME NEW i \in Items, OpenForEvent(i) PROVE Waiting' \subseteq looked'
  BY <1>2, <1>3 DEF OpenForEvent, Waiting, HostShape, Threads
<1>4. CASE WakeForItem \/ WakeForEvent \/ Heartbeat
  BY <1>4, WakeByPending DEF WakeForItem, WakeForEvent, Heartbeat, HostShape
<1>5. CASE Reclaim \/ NoHeartbeat
  BY <1>2, <1>5 DEF Reclaim, NoHeartbeat, Waiting, HostShape, Threads
<1>6. CASE CheckBudget \/ QueueDrained
  <2>1. \/ looked' = Waiting /\ UNCHANGED thread
        \/ loop' = [loop EXCEPT !.phase = "claim"]
    BY <1>6 DEF CheckBudget, QueueDrained
  <2> QED BY <2>1 DEF Waiting, HostShape, LoopShape, Fields
<1>7. CASE OthersWork \/ KeepAlive
  BY <1>1, <1>7 DEF OthersWork, KeepAlive
<1> DEFINE Quiet == {"none", "open", "check", "start", "run", "put", "complete"}
<1>8. loop'.phase \notin Quiet
  OBVIOUS
<1>9. ASSUME NEW i \in Items, ClaimItem(i) PROVE loop'.phase \in Quiet
  BY <1>9 DEF ClaimItem, HostShape, LoopShape, Fields
<1>10. CASE OpenSession \/ StartRun \/ FinishRun
  BY <1>10 DEF OpenSession, StartRun, StartsRun, FinishRun, HostShape, LoopShape, Fields
<1>11. CASE CompleteItem \/ CloseSession \/ LoopThrows \/ CompleteFails \/ Crash
  <2>1. \/ loop' = NoLoop
        \/ loop' = [NoLoop EXCEPT !.phase = "open"]
        \/ loop' = [NoLoop EXCEPT !.phase = "check"]
    BY <1>11 DEF CompleteItem, CloseSession, LoopThrows, CompleteFails, Crash
  <2> QED BY <2>1, ResetShape
<1>12. ASSUME NEW c \in CallCosts, NEW next \in Reports \cup {"continue"},
              ModelCall(c, next)
       PROVE  loop'.phase \in Quiet
  BY <1>12 DEF ModelCall, HostShape, LoopShape, Fields
<1>13. ASSUME NEW outcome \in {"failed", "cancelled"}, GiveUp(outcome)
       PROVE  loop'.phase \in Quiet
  BY <1>13 DEF GiveUp, HostShape, LoopShape, Fields
<1>14. CASE HeartbeatFails
  <2>1. loop' = [loop EXCEPT !.aborted = TRUE] /\ loop.phase \in {"run", "put"}
    BY <1>14 DEF HeartbeatFails, Running
  <2> QED BY <2>1 DEF HostShape, LoopShape, Fields
<1>15. CASE ExecutorThrows
  BY <1>15 DEF ExecutorThrows, HostShape, LoopShape, Fields
<1>16. CASE UNCHANGED vars
  BY <1>1, <1>16 DEF vars
<1> QED
  BY <1>3, <1>4, <1>5, <1>6, <1>7, <1>8, <1>9, <1>10, <1>11, <1>12,
     <1>13, <1>14, <1>15, <1>16
  DEF Next, ClockNext, DispatcherNext, LoopNext, Disturbance

LEMMA ServedInvariant == Spec => [](HostShape /\ ServedInv)
<1>1. Init => ServedInv
  BY DEF Init, ServedInv, At, NoLoop
<1>2. HostShape /\ HostShape' /\ ServedInv /\ [Next]_vars => ServedInv'
  BY ServedStep DEF HostShape
<1> QED BY <1>1, <1>2, ShapeInvariant, PTL DEF Spec

(* Who leaves the waiting threads, and how.                                *)
LEMMA WaitEnds ==
  ASSUME HostShape, ServedInv, Next, faults' = faults,
         NEW c \in Threads, c \in Waiting, c \notin Waiting'
  PROVE  c \in looked
<1>0. faults # faults + 1
  BY DEF HostShape
<1>1. ~(LoopThrows \/ CompleteFails \/ Crash \/ ExecutorThrows)
  BY <1>0 DEF LoopThrows, CompleteFails, Crash, ExecutorThrows, Fault
<1>2. thread' # thread
  BY DEF Waiting
<1>3. ASSUME NEW d \in Threads, NEW s \in {"waiting", "handling", "opened", "reclaimed", "idle"},
             thread' = [thread EXCEPT ![d] = s],
             s \in {"waiting", "handling"} \/ d \notin Waiting
      PROVE  FALSE
  BY <1>3 DEF Waiting, HostShape
<1>4. ASSUME NEW i \in Items, OpenForEvent(i) PROVE FALSE
  BY <1>3, <1>4 DEF OpenForEvent, Waiting, Threads
<1>5. CASE WakeForItem \/ WakeForEvent \/ Heartbeat
  BY <1>3, <1>5 DEF WakeForItem, WakeForEvent, Heartbeat, WakeBy, Threads
<1>6. CASE Reclaim \/ NoHeartbeat
  BY <1>3, <1>6 DEF Reclaim, NoHeartbeat, Waiting, Threads
<1>7. CASE CloseSession
  BY <1>2, <1>7 DEF CloseSession, ServedInv
<1> QED
  BY <1>1, <1>2, <1>4, <1>5, <1>6, <1>7
  DEF Next, ClockNext, DispatcherNext, LoopNext, Disturbance, OpenSession,
      CheckBudget, ClaimItem, QueueDrained, StartRun, StartsRun, FinishRun,
      CompleteItem, ModelCall, GiveUp, KeepAlive, HeartbeatFails, OthersWork

(* Coalescing loses no wake: a thread whose wake returns without an error  *)
(* got a pass over the queue that found it drained, or the budget spent,   *)
(* after its call.                                                         *)
THEOREM EveryWakeIsServed == Spec => WakesAreServed
<1>1. HostShape /\ ServedInv /\ [Next]_vars =>
        [\A c \in Threads :
           c \in Waiting /\ c \notin Waiting' /\ faults' = faults => c \in looked]_vars
  BY WaitEnds
<1> QED BY <1>1, ServedInvariant, PTL DEF Spec, WakesAreServed

-----------------------------------------------------------------------------
(* Results come before completions: a done run that is about to complete   *)
(* its item has left its result, and so has every item that is done.       *)
ResultInv ==
  /\ At("complete") /\ loop.outcome = "done" => loop.run \in results
  /\ DoneItemsHaveResults

LEMMA ResultsStay == [Next]_vars => results \subseteq results'
BY DEF Next, ClockNext, DispatcherNext, LoopNext, Disturbance, OpenForEvent,
       WakeForItem, WakeForEvent, Reclaim, Heartbeat, NoHeartbeat, OpenSession,
       CheckBudget, ClaimItem, QueueDrained, StartRun, StartsRun, FinishRun,
       CompleteItem, CloseSession, ModelCall, GiveUp, ExecutorThrows, KeepAlive,
       HeartbeatFails, LoopThrows, CompleteFails, Crash, OthersWork, rows, vars

(* The loop reaches its completion only by FinishRun, which leaves the     *)
(* result of a done run.                                                   *)
LEMMA ReadyToComplete ==
  ASSUME LoopShape, LoopShape', ResultInv, [Next]_vars,
         At("complete")', loop'.outcome = "done"
  PROVE  loop'.run \in results'
<1> USE DEF At, LoopShape, Fields
<1>0. CASE UNCHANGED loop
  BY <1>0, ResultsStay DEF ResultInv
<1>1. CASE FinishRun
  BY <1>1 DEF FinishRun
<1>2. CASE WakeForItem \/ WakeForEvent \/ Heartbeat
  BY <1>0, <1>2 DEF WakeForItem, WakeForEvent, Heartbeat, WakeBy, NoLoop
<1>3. CASE OpenSession \/ StartRun
  BY <1>3 DEF OpenSession, StartRun, StartsRun
<1>4. CASE CheckBudget \/ QueueDrained
  BY <1>4 DEF CheckBudget, QueueDrained
<1>5. ASSUME NEW i \in Items, ClaimItem(i) PROVE FALSE
  BY <1>5 DEF ClaimItem
<1>6. CASE CompleteItem \/ CloseSession \/ LoopThrows \/ CompleteFails \/ Crash
  <2>1. \/ loop' = NoLoop
        \/ loop' = [NoLoop EXCEPT !.phase = "open"]
        \/ loop' = [NoLoop EXCEPT !.phase = "check"]
    BY <1>6 DEF CompleteItem, CloseSession, LoopThrows, CompleteFails, Crash
  <2> QED BY <2>1, ResetShape
<1>7. ASSUME NEW c \in CallCosts, NEW next \in Reports \cup {"continue"},
             ModelCall(c, next)
      PROVE  FALSE
  BY <1>7 DEF ModelCall
<1>8. ASSUME NEW outcome \in {"failed", "cancelled"}, GiveUp(outcome)
      PROVE  FALSE
  BY <1>8 DEF GiveUp
<1>9. CASE HeartbeatFails
  <2>1. loop' = [loop EXCEPT !.aborted = TRUE] /\ loop.phase \in {"run", "put"}
    BY <1>9 DEF HeartbeatFails, Running
  <2> QED BY <2>1
<1>10. CASE ExecutorThrows
  BY <1>10 DEF ExecutorThrows
<1> QED
  BY <1>0, <1>1, <1>2, <1>3, <1>4, <1>5, <1>6, <1>7, <1>8, <1>9, <1>10
  DEF Next, ClockNext, DispatcherNext, LoopNext, Disturbance, OpenForEvent, Reclaim,
      NoHeartbeat, KeepAlive, OthersWork, vars

(* An item becomes done only by the completion of its latest run, and no    *)
(* run of a done item is issued.                                           *)
LEMMA DoneByCompletion ==
  ASSUME QueueShape, LoopShape, [Next]_vars, NEW i \in Items,
         NEW r, r = [item |-> i, holder |-> Agent, run |-> attempt'[i]],
         status'[i] = "done", r \in issued'
  PROVE  /\ r = [item |-> i, holder |-> Agent, run |-> attempt[i]]
         /\ \/ status[i] = "done" /\ r \in issued
            \/ At("complete") /\ loop.outcome = "done" /\ loop.run = r
<1> USE DEF QueueShape
<1>1. ASSUME NEW j \in Items, Queue!Open(j, NoWake)
      PROVE  UNCHANGED <<attempt, issued>> /\ status[i] = "done"
  BY <1>1 DEF Queue!Open, Queue!InitialStatus
<1>2. ASSUME NEW j \in Items, Queue!Claim(Agent, j)
      PROVE  attempt'[i] = attempt[i] /\ r \in issued /\ status[i] = "done"
  BY <1>2 DEF Queue!Claim
<1>3. ASSUME NEW j \in Items, Queue!RevokeLease(j) \/ Queue!Cancel(j)
      PROVE  UNCHANGED <<attempt, issued>> /\ status[i] = "done"
  BY <1>3 DEF Queue!RevokeLease, Queue!Cancel, Queue!Transition
<1>4. ASSUME NEW t \in issued, Queue!Heartbeat(t)
      PROVE  UNCHANGED <<attempt, issued>> /\ status[i] = "done"
  BY <1>4 DEF Queue!Heartbeat
<1>5. CASE Queue!Tick(now, {})
  BY <1>5 DEF Queue!Tick
<1>6. CASE Queue!Advance \/ UNCHANGED queue
  BY <1>6 DEF Queue!Advance, queue
<1>7. CASE Completion
  <2>1. status[i] = "done" \/ (loop.run.item = i /\ loop.outcome = "done")
    BY <1>7, CompletionStep
  <2> QED BY <1>7, <2>1, CompletionOf, CompletionStep
<1> QED
  BY <1>1, <1>2, <1>3, <1>4, <1>5, <1>6, <1>7, HostUsesQueue DEF QueueOps

LEMMA ResultStep ==
  ASSUME QueueShape, LoopShape, LoopShape', ResultInv, [Next]_vars
  PROVE  ResultInv'
<1>1. (At("complete") /\ loop.outcome = "done" => loop.run \in results)'
  BY ReadyToComplete
<1>2. ASSUME NEW i \in Items,
             status'[i] = "done",
             [item |-> i, holder |-> Agent, run |-> attempt'[i]] \in issued'
      PROVE  [item |-> i, holder |-> Agent, run |-> attempt'[i]] \in results'
  <2> DEFINE r == [item |-> i, holder |-> Agent, run |-> attempt'[i]]
  <2>1. /\ r = [item |-> i, holder |-> Agent, run |-> attempt[i]]
        /\ \/ status[i] = "done" /\ r \in issued
           \/ At("complete") /\ loop.outcome = "done" /\ loop.run = r
    BY <1>2, DoneByCompletion
  <2> QED BY <2>1, ResultsStay DEF ResultInv, DoneItemsHaveResults
<1>3. DoneItemsHaveResults'
  BY <1>2 DEF DoneItemsHaveResults
<1> QED BY <1>1, <1>3 DEF ResultInv

(* The result is written before the item is completed: an item that a run  *)
(* of the agent finished has the result of that very attempt, whatever     *)
(* crashed, was reclaimed or was revoked in between.                       *)
THEOREM ResultsPrecedeCompletion == Spec => []DoneItemsHaveResults
<1>1. Init => ResultInv
  BY DEF Init, Queue!Init, ResultInv, DoneItemsHaveResults, At, NoLoop
<1>2. /\ QueueShape /\ HostShape /\ (QueueShape /\ HostShape)'
      /\ ResultInv /\ [Next]_vars
      => ResultInv'
  BY ResultStep DEF HostShape
<1>3. ResultInv => DoneItemsHaveResults
  BY DEF ResultInv
<1> QED BY <1>1, <1>2, <1>3, ShapeInvariant, PTL DEF Spec

(* The agent works the queue only by the operations of its service, with   *)
(* leases it was issued: every behaviour of the host is one of the queue's,*)
(* and what is proved of the queue holds of it.                            *)
THEOREM AgentWorksTheQueue == Spec => Queue!Spec
<1>1. Init => Queue!Init
  BY DEF Init
<1>2. QueueShape /\ HostShape /\ [Next]_vars => [Queue!Next]_(Queue!vars)
  <2> SUFFICES ASSUME QueueShape, HostShape, [Next]_vars
               PROVE  Queue!Next \/ UNCHANGED queue
    BY DEF queue, Queue!vars
  <2>1. CASE QueueOps
    <3>1. now \in 0..now /\ {} \in SUBSET Items
      BY DEF QueueShape
    <3> QED BY <2>1, <3>1 DEF QueueOps, Queue!Next, Queue!WorkerNext, Queue!InvalidatorNext
  <2>2. CASE Completion
    <3>1. loop.outcome \in DOMAIN Queue!OutcomeToStatus
      BY <2>2, CompletionOf DEF HostShape, Outcomes, Queue!OutcomeToStatus
    <3> QED
      BY <2>2, <3>1, CompletionOf DEF HostShape, Queue!Next, Queue!WorkerNext
  <2> QED BY <2>1, <2>2, HostUsesQueue DEF HostShape
<1> QED BY <1>1, <1>2, ShapeInvariant, PTL DEF Spec, Queue!Spec
-----------------------------------------------------------------------------
(* Money.  Rows since day d, and of day d.                                 *)
Since(table, d) == {r \in DOMAIN table : table[r].day >= d}

On(table, d) == {r \in DOMAIN table : table[r].day = d}

Row == [status: Outcomes \cup {"running"}, cost: Nat, day: Nat]

RowsShape ==
  /\ IsFiniteSet(DOMAIN runs)
  /\ \A r \in DOMAIN runs : runs[r] \in Row

SumsHold ==
  /\ \A d \in Nat : CostOf(runs, On(runs, d)) <= UsdPerDay + LargestCall
  /\ \A r \in DOMAIN runs : runs[r].cost <= UsdPerRun + LargestCall

(* A run in flight spends from what its day had left when it began, and    *)
(* its row counts for nothing until it ends.                               *)
InFlight ==
  Running =>
    /\ loop.run \in DOMAIN runs
    /\ loop.budget \in Nat /\ loop.budget <= UsdPerRun /\ loop.cost \in Nat
    /\ CostOf(runs, Since(runs, runs[loop.run].day)) + loop.budget <= UsdPerDay
    /\ At("run") => loop.cost <= loop.budget
    /\ loop.cost <= loop.budget + LargestCall

BudgetLeft == loop.phase \in {"claim", "start"} => CostOf(runs, Since(runs, Today)) < UsdPerDay

LEMMA DayNat == ASSUME NEW n \in Nat PROVE n \div DayLength \in Nat
BY BudgetAssumption

LEMMA DaysGoOn == ASSUME NEW n \in Nat PROVE n \div DayLength <= (n + 1) \div DayLength
BY BudgetAssumption

LEMMA SpentIs == ASSUME NEW d PROVE Spent(d) = CostOf(runs, Since(runs, d))
BY DEF Spent, CostOf, Since

LEMMA LargestIs == LargestCall \in Nat /\ \A c \in CallCosts : c \in Nat /\ c <= LargestCall
<1>1. PICK m \in CallCosts : \A c \in CallCosts : m >= c
  BY BudgetAssumption
<1>2. LargestCall \in CallCosts /\ \A c \in CallCosts : LargestCall >= c
  BY <1>1 DEF LargestCall, Max
<1>3. \A c \in CallCosts : c \in Nat
  BY BudgetAssumption
<1> QED BY <1>2, <1>3

(* The sums over the rows are naturals.                                    *)
LEMMA SumsTyped ==
  ASSUME RowsShape, NEW d
  PROVE  /\ IsFiniteSet(Since(runs, d)) /\ Priced(runs, Since(runs, d))
         /\ IsFiniteSet(On(runs, d)) /\ Priced(runs, On(runs, d))
         /\ CostOf(runs, Since(runs, d)) \in Nat
         /\ CostOf(runs, On(runs, d)) \in Nat
         /\ CostOf(runs, On(runs, d)) <= CostOf(runs, Since(runs, d))
<1>1. Since(runs, d) \in SUBSET DOMAIN runs /\ On(runs, d) \in SUBSET DOMAIN runs
  BY DEF Since, On
<1>2. /\ IsFiniteSet(Since(runs, d)) /\ Priced(runs, Since(runs, d))
      /\ IsFiniteSet(On(runs, d)) /\ Priced(runs, On(runs, d))
  BY <1>1, FS_Subset DEF RowsShape, Row, Priced
<1>3. CostOf(runs, Since(runs, d)) \in Nat /\ CostOf(runs, On(runs, d)) \in Nat
  BY <1>2, CostType
<1>4. d \in Nat => On(runs, d) \in SUBSET Since(runs, d)
  BY DEF On, Since
<1>5. d \notin Nat => On(runs, d) = {}
  BY DEF On, RowsShape, Row
<1>6. CASE d \in Nat
  BY <1>2, <1>3, <1>4, <1>6, CostOfPart
<1>7. CASE d \notin Nat
  BY <1>2, <1>3, <1>5, <1>7, CostOfNone
<1> QED BY <1>2, <1>3, <1>6, <1>7

(* Later, no more is left to count.                                        *)
LEMMA SpentShrinks ==
  ASSUME RowsShape, NEW d \in Nat, NEW e \in Nat, d <= e
  PROVE  CostOf(runs, Since(runs, e)) <= CostOf(runs, Since(runs, d))
<1>1. Since(runs, e) \in SUBSET Since(runs, d)
  BY DEF Since, RowsShape, Row
<1> QED BY <1>1, SumsTyped, CostOfPart

BudgetInv == RowsShape /\ SumsHold /\ InFlight /\ BudgetLeft

LEMMA BudgetInit == Init => BudgetInv
<1> SUFFICES ASSUME Init PROVE BudgetInv
  OBVIOUS
<1>1. DOMAIN runs = {} /\ RowsShape
  BY FS_EmptySet DEF Init, RowsShape
<1>2. \A d : On(runs, d) = {}
  BY <1>1 DEF On
<1>3. SumsHold
  <2>1. \A d : CostOf(runs, On(runs, d)) = 0
    BY <1>2, CostOfNone
  <2>2. 0 <= UsdPerDay + LargestCall
    BY LargestIs, BudgetAssumption
  <2> QED BY <1>1, <2>1, <2>2 DEF SumsHold
<1>4. InFlight /\ BudgetLeft
  BY DEF Init, NoLoop, InFlight, BudgetLeft, Running, At
<1> QED BY <1>1, <1>3, <1>4 DEF BudgetInv

(* Writing one row x moves the sums by at most its new price.              *)
LEMMA RowWritten ==
  ASSUME RowsShape, RowsShape', NEW x \in DOMAIN runs',
         DOMAIN runs' \ {x} = DOMAIN runs \ {x},
         \A r \in DOMAIN runs \ {x} : runs'[r] = runs[r],
         NEW d
  PROVE  /\ runs'[x].day = d =>
              CostOf(runs', On(runs', d)) <= CostOf(runs, On(runs, d)) + runs'[x].cost
         /\ runs'[x].day # d => CostOf(runs', On(runs', d)) <= CostOf(runs, On(runs, d))
         /\ CostOf(runs', Since(runs', d)) <= CostOf(runs, Since(runs, d)) + runs'[x].cost
<1>1. /\ IsFiniteSet(Since(runs', d)) /\ Priced(runs', Since(runs', d))
      /\ IsFiniteSet(On(runs', d)) /\ Priced(runs', On(runs', d))
      /\ CostOf(runs', Since(runs', d)) \in Nat
  <2>1. Since(runs', d) \in SUBSET DOMAIN runs' /\ On(runs', d) \in SUBSET DOMAIN runs'
    BY DEF Since, On
  <2>2. /\ IsFiniteSet(Since(runs', d)) /\ Priced(runs', Since(runs', d))
        /\ IsFiniteSet(On(runs', d)) /\ Priced(runs', On(runs', d))
    BY <2>1, FS_Subset DEF RowsShape, Row, Priced
  <2> QED BY <2>2, CostType
<1>2. /\ On(runs', d) \ {x} = On(runs, d) \ {x}
      /\ Since(runs', d) \ {x} = Since(runs, d) \ {x}
      /\ runs'[x].day = d <=> x \in On(runs', d)
  BY DEF On, Since
<1>3. /\ \A r \in On(runs, d) \ {x} : runs[r].cost = runs'[r].cost
      /\ \A r \in Since(runs, d) \ {x} : runs[r].cost = runs'[r].cost
  BY DEF On, Since
<1>4. /\ x \in On(runs', d) =>
           CostOf(runs', On(runs', d)) <= CostOf(runs, On(runs, d)) + runs'[x].cost
      /\ x \notin On(runs', d) => CostOf(runs', On(runs', d)) <= CostOf(runs, On(runs, d))
  BY <1>1, <1>2, <1>3, SumsTyped, CostOfChange
<1>5. /\ x \in Since(runs', d) =>
           CostOf(runs', Since(runs', d)) <= CostOf(runs, Since(runs, d)) + runs'[x].cost
      /\ x \notin Since(runs', d) =>
           CostOf(runs', Since(runs', d)) <= CostOf(runs, Since(runs, d))
  BY <1>1, <1>2, <1>3, SumsTyped, CostOfChange
<1>6. runs'[x].cost \in Nat /\ CostOf(runs, Since(runs, d)) \in Nat
  BY SumsTyped DEF RowsShape, Row
<1>7. CostOf(runs', Since(runs', d)) <= CostOf(runs, Since(runs, d)) + runs'[x].cost
  BY <1>1, <1>5, <1>6
<1> QED BY <1>2, <1>4, <1>7

LEMMA SumsNat ==
  RowsShape =>
    \A d : CostOf(runs, On(runs, d)) \in Nat /\ CostOf(runs, Since(runs, d)) \in Nat
BY SumsTyped

LEMMA SumsTypedNext ==
  RowsShape' =>
    (\A d : CostOf(runs, On(runs, d)) \in Nat /\ CostOf(runs, Since(runs, d)) \in Nat)'
BY SumsNat, PTL

LEMMA StartBudget ==
  ASSUME BudgetInv, LoopShape, now \in Nat, StartRun
  PROVE  BudgetInv'
<1> DEFINE x == loop.run
           left == UsdPerDay - Spent(Today)
           budget == IF left < UsdPerRun THEN left ELSE UsdPerRun
<1>1. /\ loop.phase = "start" /\ UNCHANGED now
      /\ loop' = [loop EXCEPT !.phase = "run", !.budget = budget, !.cost = 0, !.aborted = FALSE]
      /\ runs' = [r \in DOMAIN runs \cup {x} |->
                    IF r = x THEN [status |-> "running", cost |-> 0, day |-> Today]
                    ELSE runs[r]]
  BY DEF StartRun, StartsRun, At, queue
<1>2. /\ loop'.phase = "run" /\ loop'.run = x /\ loop'.budget = budget /\ loop'.cost = 0
  BY <1>1 DEF LoopShape, Fields
<1>3. Today \in Nat /\ Today' = Today
  BY <1>1, DayNat DEF Today
<1>4. /\ DOMAIN runs' = DOMAIN runs \cup {x}
      /\ runs'[x].cost = 0 /\ runs'[x].day = Today /\ runs'[x].status = "running"
      /\ \A r \in DOMAIN runs \ {x} : runs'[r] = runs[r]
  BY <1>1
<1>5. RowsShape'
  <2>1. IsFiniteSet(DOMAIN runs')
    BY <1>4, FS_AddElement DEF BudgetInv, RowsShape
  <2>2. runs'[x] \in Row
    BY <1>1, <1>3 DEF Row
  <2> QED BY <1>4, <2>1, <2>2 DEF BudgetInv, RowsShape
<1>6. \A d : /\ CostOf(runs', On(runs', d)) <= CostOf(runs, On(runs, d))
             /\ CostOf(runs', Since(runs', d)) <= CostOf(runs, Since(runs, d))
  <2> TAKE d
  <2>1. CostOf(runs, On(runs, d)) \in Nat /\ CostOf(runs, Since(runs, d)) \in Nat
    BY SumsTyped DEF BudgetInv
  <2>2. /\ DOMAIN runs' \ {x} = DOMAIN runs \ {x} /\ x \in DOMAIN runs'
        /\ RowsShape
    BY <1>4 DEF BudgetInv
  <2>3. /\ \/ CostOf(runs', On(runs', d)) <= CostOf(runs, On(runs, d)) + runs'[x].cost
           \/ CostOf(runs', On(runs', d)) <= CostOf(runs, On(runs, d))
        /\ CostOf(runs', Since(runs', d)) <= CostOf(runs, Since(runs, d)) + runs'[x].cost
    BY <1>4, <1>5, <2>2, RowWritten
  <2> QED BY <1>4, <2>1, <2>3
<1>7. \A d : CostOf(runs', On(runs', d)) \in Nat /\ CostOf(runs', Since(runs', d)) \in Nat
  BY <1>5, SumsTypedNext
<1>8. SumsHold'
  <2>1. ASSUME NEW d \in Nat
        PROVE  CostOf(runs', On(runs', d)) <= UsdPerDay + LargestCall
    <3>1. /\ CostOf(runs, On(runs, d)) <= UsdPerDay + LargestCall
          /\ CostOf(runs, On(runs, d)) \in Nat /\ CostOf(runs', On(runs', d)) \in Nat
      BY <1>7, SumsTyped DEF BudgetInv, SumsHold
    <3> QED BY <1>6, <3>1, LargestIs, BudgetAssumption
  <2>2. \A r \in DOMAIN runs' : runs'[r].cost <= UsdPerRun + LargestCall
    BY <1>4, LargestIs, BudgetAssumption DEF BudgetInv, SumsHold
  <2> QED BY <2>1, <2>2 DEF SumsHold
<1>9. /\ budget \in Nat /\ budget <= UsdPerRun
      /\ CostOf(runs, Since(runs, Today)) + budget <= UsdPerDay
  <2>1. /\ CostOf(runs, Since(runs, Today)) \in Nat
        /\ CostOf(runs, Since(runs, Today)) < UsdPerDay
        /\ left = UsdPerDay - CostOf(runs, Since(runs, Today))
    BY <1>1, SumsTyped, SpentIs DEF BudgetInv, BudgetLeft
  <2> HIDE DEF left
  <2> QED BY <2>1, BudgetAssumption
<1>10. InFlight'
  <2>1. CostOf(runs', Since(runs', Today)) + budget <= UsdPerDay
    <3> HIDE DEF budget
    <3> QED BY <1>6, <1>7, <1>9, SumsTyped, BudgetAssumption DEF BudgetInv
  <2> HIDE DEF budget
  <2> QED BY <1>2, <1>4, <1>9, <2>1, LargestIs DEF InFlight, Running, At
<1> QED BY <1>2, <1>5, <1>8, <1>10 DEF BudgetInv, BudgetLeft

LEMMA FinishBudget ==
  ASSUME BudgetInv, LoopShape, FinishRun
  PROVE  BudgetInv'
<1> DEFINE x == loop.run
<1>1. /\ loop.phase = "put" /\ UNCHANGED now
      /\ loop' = [loop EXCEPT !.phase = "complete", !.budget = 0, !.cost = 0]
      /\ runs' = [runs EXCEPT ![x].status = loop.outcome, ![x].cost = loop.cost]
  BY DEF FinishRun, At, queue
<1>2. loop'.phase = "complete"
  BY <1>1 DEF LoopShape, Fields
<1>3. /\ x \in DOMAIN runs /\ runs[x] \in Row
      /\ loop.budget \in Nat /\ loop.budget <= UsdPerRun /\ loop.cost \in Nat
      /\ CostOf(runs, Since(runs, runs[x].day)) + loop.budget <= UsdPerDay
      /\ loop.cost <= loop.budget + LargestCall
  BY <1>1 DEF BudgetInv, RowsShape, InFlight, Running, At
<1>4. /\ DOMAIN runs' = DOMAIN runs
      /\ runs'[x].cost = loop.cost /\ runs'[x].day = runs[x].day
      /\ runs'[x] \in Row
      /\ \A r \in DOMAIN runs \ {x} : runs'[r] = runs[r]
  BY <1>1, <1>3 DEF Row, LoopShape
<1>5. RowsShape'
  BY <1>4 DEF BudgetInv, RowsShape
<1>6. SumsHold'
  <2>1. ASSUME NEW d \in Nat
        PROVE  CostOf(runs', On(runs', d)) <= UsdPerDay + LargestCall
    <3>1. /\ CostOf(runs, On(runs, d)) <= UsdPerDay + LargestCall
          /\ CostOf(runs, On(runs, d)) \in Nat /\ CostOf(runs', On(runs', d)) \in Nat
          /\ CostOf(runs, Since(runs, d)) \in Nat
          /\ CostOf(runs, On(runs, d)) <= CostOf(runs, Since(runs, d))
      BY <1>5, SumsTypedNext, SumsTyped DEF BudgetInv, SumsHold
    <3>2. /\ runs[x].day = d =>
                CostOf(runs', On(runs', d)) <= CostOf(runs, On(runs, d)) + loop.cost
          /\ runs[x].day # d => CostOf(runs', On(runs', d)) <= CostOf(runs, On(runs, d))
      BY <1>3, <1>4, <1>5, RowWritten DEF BudgetInv
    <3>3. CASE runs[x].day = d
      BY <1>3, <3>1, <3>2, <3>3, LargestIs, BudgetAssumption
    <3>4. CASE runs[x].day # d
      BY <3>1, <3>2, <3>4, LargestIs, BudgetAssumption
    <3> QED BY <3>3, <3>4
  <2>2. loop.cost <= UsdPerRun + LargestCall
    BY <1>3, LargestIs, BudgetAssumption
  <2>3. \A r \in DOMAIN runs' : runs'[r].cost <= UsdPerRun + LargestCall
    BY <1>4, <2>2 DEF BudgetInv, SumsHold
  <2> QED BY <2>1, <2>3 DEF SumsHold
<1> QED BY <1>2, <1>5, <1>6 DEF BudgetInv, InFlight, BudgetLeft, Running, At

(* The rows stay, and the loop is not between a claim and a run's end.     *)
LEMMA IdleBudget ==
  ASSUME BudgetInv, UNCHANGED runs, loop'.phase \notin {"claim", "start", "run", "put"}
  PROVE  BudgetInv'
BY DEF BudgetInv, RowsShape, SumsHold, InFlight, BudgetLeft, Running, At

(* The rows and the loop stay; the clock may advance.                      *)
LEMMA LaterBudget ==
  ASSUME BudgetInv, now \in Nat, now' \in {now, now + 1}, UNCHANGED <<runs, loop>>
  PROVE  BudgetInv'
<1>1. Today \in Nat /\ Today' \in Nat /\ Today <= Today'
  BY DayNat, DaysGoOn DEF Today
<1>2. CostOf(runs, Since(runs, Today')) <= CostOf(runs, Since(runs, Today))
  BY <1>1, SpentShrinks DEF BudgetInv
<1>3. /\ CostOf(runs, Since(runs, Today')) \in Nat
      /\ CostOf(runs, Since(runs, Today)) \in Nat
  BY SumsTyped DEF BudgetInv
<1>4. BudgetLeft'
  BY <1>2, <1>3, BudgetAssumption DEF BudgetInv, BudgetLeft
<1>5. RowsShape' /\ SumsHold' /\ InFlight'
  BY DEF BudgetInv, RowsShape, SumsHold, InFlight, Running, At
<1> QED BY <1>4, <1>5 DEF BudgetInv

(* The rows stay, the loop goes on with its run.                           *)
LEMMA RunningBudget ==
  ASSUME BudgetInv, UNCHANGED runs, Running, loop'.phase \in {"run", "put"},
         loop'.run = loop.run, loop'.budget = loop.budget, loop'.cost \in Nat,
         loop'.phase = "run" => loop'.cost <= loop.budget,
         loop'.cost <= loop.budget + LargestCall
  PROVE  BudgetInv'
BY DEF BudgetInv, RowsShape, SumsHold, InFlight, BudgetLeft, Running, At

(* A claim is only made, and a run only begun, with money left.            *)
LEMMA ClaimBudget ==
  ASSUME BudgetInv, UNCHANGED <<runs, now>>, loop'.phase \in {"claim", "start"},
         CostOf(runs, Since(runs, Today)) < UsdPerDay
  PROVE  BudgetInv'
BY DEF BudgetInv, RowsShape, SumsHold, InFlight, BudgetLeft, Running, At, Today

LEMMA ModelCallBudget ==
  ASSUME BudgetInv, LoopShape, NEW c \in CallCosts, NEW next \in Reports \cup {"continue"},
         ModelCall(c, next)
  PROVE  BudgetInv'
<1>1. /\ loop.phase = "run" /\ Running
      /\ loop.budget \in Nat /\ loop.cost \in Nat /\ loop.cost <= loop.budget
  BY DEF ModelCall, At, Running, BudgetInv, InFlight
<1>2. c \in Nat /\ c <= LargestCall /\ LargestCall \in Nat
  BY LargestIs
<1>3. /\ loop'.phase \in {"run", "put"} /\ loop'.run = loop.run
      /\ loop'.budget = loop.budget /\ loop'.cost = loop.cost + c
      /\ loop'.phase = "run" => ~(loop.cost + c > loop.budget)
      /\ UNCHANGED runs
  BY <1>1 DEF ModelCall, LoopShape, Fields, rows
<1>4. /\ loop.cost + c \in Nat
      /\ loop'.phase = "run" => loop.cost + c <= loop.budget
      /\ loop.cost + c <= loop.budget + LargestCall
  BY <1>1, <1>2, <1>3
<1> QED BY <1>1, <1>3, <1>4, RunningBudget

LEMMA BudgetStep ==
  ASSUME BudgetInv, HostShape, QueueShape, HostShape', [Next]_vars
  PROVE  BudgetInv'
<1>0. LoopShape /\ LoopShape' /\ now \in Nat
  BY DEF HostShape, QueueShape
<1>1. ASSUME NEW i \in Items, OpenForEvent(i) PROVE BudgetInv'
  BY <1>0, <1>1, LaterBudget DEF OpenForEvent, Queue!Open, rows
<1>2. CASE WakeForItem \/ WakeForEvent \/ Heartbeat
  <2>1. /\ UNCHANGED <<runs, now>>
        /\ UNCHANGED loop \/ loop' = [NoLoop EXCEPT !.phase = "open"]
    BY <1>2 DEF WakeForItem, WakeForEvent, Heartbeat, WakeBy, rows, queue
  <2>2. CASE UNCHANGED loop
    BY <1>0, <2>1, <2>2, LaterBudget
  <2>3. CASE loop' = [NoLoop EXCEPT !.phase = "open"]
    BY <2>1, <2>3, ResetShape, IdleBudget
  <2> QED BY <2>1, <2>2, <2>3
<1>3. CASE Reclaim \/ NoHeartbeat \/ KeepAlive
  BY <1>0, <1>3, LaterBudget
  DEF Reclaim, NoHeartbeat, KeepAlive, Queue!Tick, Queue!Heartbeat, rows, queue
<1>4. CASE OthersWork
  <2>1. now' \in {now, now + 1}
    BY <1>4
    DEF OthersWork, Queue!Open, Queue!RevokeLease, Queue!Cancel, Queue!Transition,
        Queue!Advance
  <2> QED BY <1>0, <1>4, <2>1, LaterBudget DEF OthersWork, rows
<1>5. CASE OpenSession \/ QueueDrained
  BY <1>0, <1>5, IdleBudget DEF OpenSession, QueueDrained, LoopShape, Fields, rows
<1>6. CASE CheckBudget
  <2>1. /\ UNCHANGED <<runs, now>>
        /\ \/ loop' = [loop EXCEPT !.phase = "close"]
           \/ ~Exhausted /\ loop' = [loop EXCEPT !.phase = "claim"]
    BY <1>6 DEF CheckBudget, rows, queue
  <2>2. CASE loop' = [loop EXCEPT !.phase = "close"]
    BY <1>0, <2>1, <2>2, IdleBudget DEF LoopShape, Fields
  <2>3. CASE ~Exhausted /\ loop' = [loop EXCEPT !.phase = "claim"]
    <3>1. ~(CostOf(runs, Since(runs, Today)) >= UsdPerDay)
      BY <2>3, SpentIs DEF Exhausted
    <3>2. CostOf(runs, Since(runs, Today)) < UsdPerDay
      BY <3>1, SumsTyped, BudgetAssumption DEF BudgetInv
    <3> QED BY <1>0, <2>1, <2>3, <3>2, ClaimBudget DEF LoopShape, Fields
  <2> QED BY <2>1, <2>2, <2>3
<1>7. ASSUME NEW i \in Items, ClaimItem(i) PROVE BudgetInv'
  <2>1. /\ loop.phase = "claim" /\ loop'.phase = "start" /\ UNCHANGED <<runs, now>>
    BY <1>0, <1>7 DEF ClaimItem, Queue!Claim, At, LoopShape, Fields, rows
  <2> QED BY <2>1, ClaimBudget DEF BudgetInv, BudgetLeft
<1>8. CASE StartRun \/ FinishRun
  BY <1>0, <1>8, StartBudget, FinishBudget
<1>9. CASE CompleteItem \/ CloseSession \/ LoopThrows \/ CompleteFails \/ Crash
  <2>1. /\ UNCHANGED runs
        /\ \/ loop' = NoLoop
           \/ loop' = [NoLoop EXCEPT !.phase = "open"]
           \/ loop' = [NoLoop EXCEPT !.phase = "check"]
    BY <1>9 DEF CompleteItem, CloseSession, LoopThrows, CompleteFails, Crash, rows
  <2> QED BY <2>1, ResetShape, IdleBudget
<1>10. ASSUME NEW c \in CallCosts, NEW next \in Reports \cup {"continue"},
              ModelCall(c, next)
       PROVE  BudgetInv'
  BY <1>0, <1>10, ModelCallBudget
<1>11. ASSUME Running, UNCHANGED runs,
              loop'.phase \in {loop.phase, "put"},
              loop'.run = loop.run, loop'.budget = loop.budget,
              loop'.cost \in {loop.cost, 0}
       PROVE  BudgetInv'
  <2>1. /\ loop.budget \in Nat /\ loop.cost \in Nat
        /\ loop.phase = "run" => loop.cost <= loop.budget
        /\ loop.cost <= loop.budget + LargestCall
        /\ loop.phase \in {"run", "put"}
    BY <1>11 DEF BudgetInv, InFlight, Running, At
  <2>2. /\ loop'.cost \in Nat
        /\ loop'.phase = "run" => loop'.cost <= loop.budget
        /\ loop'.cost <= loop.budget + LargestCall
    BY <1>11, <2>1, LargestIs
  <2> QED BY <1>11, <2>1, <2>2, RunningBudget
<1>12. ASSUME NEW outcome \in {"failed", "cancelled"}, GiveUp(outcome)
       PROVE  BudgetInv'
  BY <1>0, <1>11, <1>12 DEF GiveUp, Running, At, LoopShape, Fields, rows
<1>13. CASE ExecutorThrows
  BY <1>0, <1>11, <1>13 DEF ExecutorThrows, LoopShape, Fields, rows
<1>14. CASE HeartbeatFails
  <2>1. Running /\ loop' = [loop EXCEPT !.aborted = TRUE] /\ UNCHANGED runs
    BY <1>14 DEF HeartbeatFails, rows
  <2> QED BY <1>0, <1>11, <2>1 DEF LoopShape, Fields
<1>15. CASE UNCHANGED vars
  BY <1>0, <1>15, LaterBudget DEF vars, queue, rows
<1> QED
  BY <1>1, <1>2, <1>3, <1>4, <1>5, <1>6, <1>7, <1>8, <1>9, <1>10, <1>12,
     <1>13, <1>14, <1>15
  DEF Next, ClockNext, DispatcherNext, LoopNext, Disturbance

LEMMA BudgetInvariant == Spec => []BudgetInv
<1>1. QueueShape /\ HostShape /\ (QueueShape /\ HostShape)' /\ BudgetInv /\ [Next]_vars
      => BudgetInv'
  BY BudgetStep
<1> QED BY <1>1, BudgetInit, ShapeInvariant, PTL DEF Spec

(* A day's runs overrun its budget by at most the call that crossed it,    *)
(* and so does a run its own: whatever crashes, fails to be written or is  *)
(* retried, and however the days turn over a run in flight.                *)
THEOREM BudgetsAreKept == Spec => []BudgetsHold
<1>1. BudgetInv => BudgetsHold
  <2> SUFFICES ASSUME BudgetInv PROVE BudgetsHold
    OBVIOUS
  <2>1. \A d \in Nat : CostOf(runs, On(runs, d)) <= UsdPerDay + LargestCall
    BY DEF BudgetInv, SumsHold
  <2>2. \A d \in Nat :
          MapThenSumSet(LAMBDA r : runs[r].cost, {r \in DOMAIN runs : runs[r].day = d})
            <= UsdPerDay + LargestCall
    BY <2>1 DEF CostOf, On
  <2>3. \A d \in 0..Today : d \in Nat
    OBVIOUS
  <2> QED BY <2>2, <2>3 DEF BudgetsHold, BudgetInv, SumsHold
<1> QED BY <1>1, BudgetInvariant, PTL
=============================================================================
