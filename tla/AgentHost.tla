----------------------------- MODULE AgentHost -----------------------------
(***************************************************************************)
(* A resident agent (apps/server/src/agents) of one orchestrator process,  *)
(* over the work queue: the loop that claims and runs items, the executor  *)
(* that spends money on a run, and the two threads that wake the loop and  *)
(* wait for it.  The dispatcher turns each watched event into an item and  *)
(* wakes the agent (apps/server/src/sentinel/bridge.ts); the clock reclaims*)
(* lapsed leases and then fires the heartbeat.                             *)
(*                                                                         *)
(* One action per await.  The process may die anywhere; the boot that      *)
(* follows makes the agent resident again before it consumes events.       *)
(***************************************************************************)
EXTENDS Integers, Sequences, FiniteSets, FiniteSetsExt, Functions

CONSTANTS
  Items, LeaseTtl, MaxTime, MaxAttempt, NoLease, NoWake,  \* as in WorkQueue
  Agent,       \* the resident's principal
  UsdPerRun,   \* charter.budgets.usdPerRun
  UsdPerDay,   \* charter.budgets.usdPerDay
  CallCosts,   \* what a model call may cost
  Reports,     \* how a model may end a run: done, blocked
  MaxEvents,   \* bound on the watched events
  DayLength,   \* how long a UTC day lasts
  MaxFaults,   \* bound on crashes and failing statements
  NoRun        \* no lease in the loop's hands

ASSUME BudgetAssumption ==
  /\ UsdPerRun \in Nat \ {0} /\ UsdPerDay \in Nat \ {0}
  /\ CallCosts \subseteq Nat \ {0} /\ DayLength \in Nat \ {0}
  /\ \E dearest \in CallCosts : \A c \in CallCosts : dearest >= c
  /\ Reports \subseteq {"done", "blocked"}

ASSUME QueueAssumption ==
  /\ LeaseTtl \in Nat \ {0} /\ MaxTime \in Nat /\ MaxAttempt \in Nat
  /\ NoWake \notin Nat
  /\ NoLease \notin [holder: {Agent}, run: Nat, expires: Nat]

VARIABLES
  status, lease, attempt, wake, now, issued, hops,  \* the work queue
  loop,     \* the loop in flight and the run inside it
  pending,  \* pendingWake is set
  thread,   \* what the dispatcher and the clock are doing
  cursor,   \* watched events handled
  opened,   \* the items each event has produced
  runs,     \* agents.runs: the row of each started run
  results,  \* agents.run_results: the runs with a result
  looked,   \* waiting threads since whose wake the queue was found drained
  faults    \* faults so far

queue    == <<status, lease, attempt, wake, now, issued, hops>>
spine    == <<cursor, opened>>
rows     == <<runs, results>>
vars     == <<queue, loop, pending, thread, looked, spine, rows, faults>>

Queue == INSTANCE WorkQueue WITH
  Principals <- {Agent},
  DependsOn  <- [i \in Items |-> {}],
  WakeTimes  <- {NoWake}

Threads == {"dispatcher", "clock"}

NoLoop == [phase |-> "none", run |-> NoRun, budget |-> 0, cost |-> 0,
           outcome |-> "none", aborted |-> FALSE]

Init ==
  /\ Queue!Init
  /\ loop = NoLoop /\ pending = FALSE
  /\ thread = [c \in Threads |-> "idle"] /\ looked = {}
  /\ cursor = 0 /\ opened = [e \in 1..MaxEvents |-> {}]
  /\ runs = [r \in {} |-> NoRun] /\ results = {}
  /\ faults = 0

At(phase) == loop.phase = phase

Fault == faults < MaxFaults /\ faults' = faults + 1

Waiting == {c \in Threads : thread[c] \in {"waiting", "handling"}}

-----------------------------------------------------------------------------
(* The threads that wake the agent. *)

(* Mutant: a wake during a running loop only waits for it.                  *)
WakeJoins(c, waiting) ==
  /\ loop' = IF At("none") THEN [NoLoop EXCEPT !.phase = "open"] ELSE loop
  /\ thread' = [thread EXCEPT ![c] = waiting]
  /\ looked' = looked \ {c}
  /\ UNCHANGED pending

(* wake: a wake during a running loop asks for one more pass of it. *)
WakeBy(c, waiting) ==
  /\ IF At("none")
     THEN loop' = [NoLoop EXCEPT !.phase = "open"] /\ UNCHANGED pending
     ELSE pending' = TRUE /\ UNCHANGED loop
  /\ thread' = [thread EXCEPT ![c] = waiting]
  /\ looked' = looked \ {c}

(* handleWatched: the event becomes an item of the agent, then a wake. *)
OpenForEvent(i) ==
  /\ thread["dispatcher"] = "idle" /\ cursor < MaxEvents
  /\ Queue!Open(i, NoWake)
  /\ opened' = [opened EXCEPT ![cursor + 1] = @ \cup {i}]
  /\ thread' = [thread EXCEPT !["dispatcher"] = "opened"]
  /\ UNCHANGED <<loop, pending, looked, cursor, rows, faults>>

WakeForItem ==
  /\ thread["dispatcher"] = "opened"
  /\ WakeBy("dispatcher", "handling")
  /\ UNCHANGED <<queue, spine, rows, faults>>

(* The charter's own subscription to the events of others. *)
WakeForEvent ==
  /\ thread["dispatcher"] = "idle"
  /\ WakeBy("dispatcher", "waiting")
  /\ UNCHANGED <<queue, spine, rows, faults>>

(* A tick of the clock: the reclaim source is the first, at the tick's time. *)
Reclaim ==
  /\ thread["clock"] = "idle"
  /\ \/ Queue!Tick(now, {})
     \/ (\A i \in Items : ~Queue!Lapsed(i, now)) /\ UNCHANGED queue
  /\ thread' = [thread EXCEPT !["clock"] = "reclaimed"]
  /\ UNCHANGED <<loop, pending, looked, spine, rows, faults>>

(* Then the heartbeat: the charter's cron matches a minute in which it has  *)
(* not fired, and the tick waits for the loop.                              *)
Heartbeat ==
  /\ thread["clock"] = "reclaimed"
  /\ WakeBy("clock", "waiting")
  /\ UNCHANGED <<queue, spine, rows, faults>>

NoHeartbeat ==
  /\ thread["clock"] = "reclaimed"
  /\ thread' = [thread EXCEPT !["clock"] = "idle"]
  /\ UNCHANGED <<queue, loop, pending, looked, spine, rows, faults>>

-----------------------------------------------------------------------------
(* The loop: a session in which items are claimed one after the other. *)

Today == now \div DayLength

(* The daily budget is a projection over the run rows. *)
Spent(d) ==
  MapThenSumSet(LAMBDA r : runs[r].cost, {r \in DOMAIN runs : runs[r].day >= d})

Exhausted == Spent(Today) >= UsdPerDay

OpenSession ==
  /\ At("open")
  /\ loop' = [loop EXCEPT !.phase = "check"]
  /\ UNCHANGED <<queue, pending, thread, looked, spine, rows, faults>>

CheckBudget ==
  /\ At("check")
  /\ IF Exhausted
     THEN loop' = [loop EXCEPT !.phase = "close"] /\ looked' = Waiting
     ELSE loop' = [loop EXCEPT !.phase = "claim"] /\ UNCHANGED looked
  /\ UNCHANGED <<queue, pending, thread, spine, rows, faults>>

(* The claim is unfiltered: any ready item will do. *)
ClaimItem(i) ==
  /\ At("claim")
  /\ Queue!Claim(Agent, i)
  /\ loop' = [loop EXCEPT !.phase = "start",
                          !.run = [item |-> i, holder |-> Agent, run |-> attempt'[i]]]
  /\ UNCHANGED <<pending, thread, looked, spine, rows, faults>>

QueueDrained ==
  /\ At("claim")
  /\ \A i \in Items : status[i] # "ready" \/ attempt[i] = MaxAttempt
  /\ loop' = [loop EXCEPT !.phase = "close"]
  /\ looked' = Waiting
  /\ UNCHANGED <<queue, pending, thread, spine, rows, faults>>

(* runOne: the row of a new run, whose budget is what the day leaves. *)
StartsRun(budget) ==
  /\ At("start")
  /\ runs' = [r \in DOMAIN runs \cup {loop.run} |->
                IF r = loop.run THEN [status |-> "running", cost |-> 0, day |-> Today]
                ELSE runs[r]]
  /\ loop' = [loop EXCEPT !.phase = "run", !.budget = budget, !.cost = 0, !.aborted = FALSE]
  /\ UNCHANGED <<queue, pending, thread, looked, spine, results, faults>>

(* Mutant: a run gets its full budget whatever is left of the day. *)
StartRunInFull == StartsRun(UsdPerRun)

StartRun ==
  LET left == UsdPerDay - Spent(Today)
  IN StartsRun(IF left < UsdPerRun THEN left ELSE UsdPerRun)

(* Mutant: an item has one result, whichever run was first. *)
FinishRunOnce ==
  /\ At("put")
  /\ runs' = [runs EXCEPT ![loop.run].status = loop.outcome,
                          ![loop.run].cost = loop.cost]
  /\ results' = IF loop.outcome = "done" /\ \A r \in results : r.item # loop.run.item
                THEN results \cup {loop.run} ELSE results
  /\ loop' = [loop EXCEPT !.phase = "complete", !.budget = 0, !.cost = 0]
  /\ UNCHANGED <<queue, pending, thread, looked, spine, faults>>

(* The row goes terminal and a done run leaves a result, lease or no lease. *)
FinishRun ==
  /\ At("put")
  /\ runs' = [runs EXCEPT ![loop.run].status = loop.outcome,
                          ![loop.run].cost = loop.cost]
  /\ results' = IF loop.outcome = "done" THEN results \cup {loop.run} ELSE results
  /\ loop' = [loop EXCEPT !.phase = "complete", !.budget = 0, !.cost = 0]
  /\ UNCHANGED <<queue, pending, thread, looked, spine, faults>>

(* An aborted run leaves its item to the reclaimer; so does a lost lease. *)
CompleteItem ==
  /\ At("complete")
  /\ \/ ~loop.aborted /\ Queue!Complete(loop.run, loop.outcome)
     \/ (loop.aborted \/ ~Queue!Held(loop.run)) /\ UNCHANGED queue
  /\ loop' = [NoLoop EXCEPT !.phase = "check"]
  /\ UNCHANGED <<pending, thread, looked, spine, rows, faults>>

(* Mutant: only the dispatcher is told. *)
ReturnDispatcher(handled) ==
  /\ thread' = [thread EXCEPT !["dispatcher"] = IF "dispatcher" \in Waiting THEN "idle" ELSE @]
  /\ looked' = {}
  /\ cursor' = IF handled /\ thread["dispatcher"] = "handling" THEN cursor + 1 ELSE cursor
  /\ UNCHANGED opened

(* The threads that waited go on; the dispatcher's event is handled. *)
Return(handled) ==
  /\ thread' = [c \in Threads |-> IF c \in Waiting THEN "idle" ELSE thread[c]]
  /\ looked' = {}
  /\ cursor' = IF handled /\ thread["dispatcher"] = "handling" THEN cursor + 1 ELSE cursor
  /\ UNCHANGED opened

(* The session closes; the loop runs again if a wake came in meanwhile. *)
CloseSession ==
  /\ At("close")
  /\ IF pending
     THEN /\ loop' = [NoLoop EXCEPT !.phase = "open"]
          /\ pending' = FALSE
          /\ UNCHANGED <<thread, looked, spine>>
     ELSE /\ loop' = NoLoop
          /\ Return(TRUE)
          /\ UNCHANGED pending
  /\ UNCHANGED <<queue, rows, faults>>

-----------------------------------------------------------------------------
(* The executor, while its lease is kept alive beside it. *)

Running == At("run") \/ At("put")

(* A metered call, the budget check after it, and the tools it asks for:    *)
(* record_result and report_blocker end the run.                            *)
ModelCall(c, next) ==
  /\ At("run") /\ ~loop.aborted
  /\ IF loop.cost + c > loop.budget
     THEN loop' = [loop EXCEPT !.phase = "put", !.cost = @ + c, !.outcome = "cancelled"]
     ELSE IF next = "continue" THEN loop' = [loop EXCEPT !.cost = @ + c]
     ELSE loop' = [loop EXCEPT !.phase = "put", !.cost = @ + c, !.outcome = next]
  /\ UNCHANGED <<queue, pending, thread, looked, spine, rows, faults>>

(* Out of time or turns, a failed model call, or the lease is lost. *)
GiveUp(outcome) ==
  /\ At("run")
  /\ loop.aborted => outcome = "cancelled"
  /\ loop' = [loop EXCEPT !.phase = "put", !.outcome = outcome]
  /\ UNCHANGED <<queue, pending, thread, looked, spine, rows, faults>>

(* A tool event or the transcript cannot be written: what was spent is lost *)
(* with the exception, and the run counts as failed at no cost.             *)
ExecutorThrows ==
  /\ Running
  /\ Fault
  /\ loop' = [loop EXCEPT !.phase = "put", !.outcome = "failed", !.cost = 0]
  /\ UNCHANGED <<queue, pending, thread, looked, spine, rows>>

(* The interval's heartbeat renews the lease; any failure of it aborts. *)
KeepAlive ==
  /\ Running
  /\ Queue!Heartbeat(loop.run)
  /\ UNCHANGED <<loop, pending, thread, looked, spine, rows, faults>>

HeartbeatFails ==
  /\ Running
  /\ \/ ~Queue!Held(loop.run) /\ UNCHANGED faults
     \/ Fault
  /\ loop' = [loop EXCEPT !.aborted = TRUE]
  /\ UNCHANGED <<queue, pending, thread, looked, spine, rows>>

-----------------------------------------------------------------------------
(* Failures. *)

(* A statement of the loop fails: every waiting thread gets the error, the  *)
(* dispatcher will deliver its event again, pendingWake stays set.          *)
LoopThrows ==
  /\ loop.phase \in {"open", "check", "claim", "start", "put", "close"}
  /\ Fault
  /\ loop' = NoLoop
  /\ Return(FALSE)
  /\ UNCHANGED <<queue, pending, rows>>

(* complete's own failure is swallowed. *)
CompleteFails ==
  /\ At("complete")
  /\ Fault
  /\ loop' = [NoLoop EXCEPT !.phase = "check"]
  /\ UNCHANGED <<queue, pending, thread, looked, spine, rows>>

Crash ==
  /\ Fault
  /\ loop' = NoLoop /\ pending' = FALSE
  /\ thread' = [c \in Threads |-> "idle"] /\ looked' = {}
  /\ UNCHANGED <<queue, spine, rows>>

-----------------------------------------------------------------------------
(* Everybody else. *)

OthersWork ==
  /\ \/ \E i \in Items : Queue!Open(i, NoWake)
     \/ \E i \in Items : Queue!RevokeLease(i) \/ Queue!Cancel(i)
     \/ Queue!Advance
  /\ UNCHANGED <<loop, pending, thread, looked, spine, rows, faults>>

-----------------------------------------------------------------------------
ClockNext == Reclaim \/ NoHeartbeat

DispatcherNext == (\E i \in Items : OpenForEvent(i)) \/ WakeForItem

LoopNext ==
  \/ OpenSession \/ CheckBudget \/ (\E i \in Items : ClaimItem(i)) \/ QueueDrained
  \/ StartRun \/ FinishRun \/ CompleteItem \/ CloseSession
  \/ \E c \in CallCosts, next \in Reports \cup {"continue"} : ModelCall(c, next)
  \/ \E outcome \in {"failed", "cancelled"} : GiveUp(outcome)

Disturbance ==
  \/ WakeForEvent \/ KeepAlive \/ HeartbeatFails \/ OthersWork
  \/ ExecutorThrows \/ LoopThrows \/ CompleteFails \/ Crash

Next == ClockNext \/ Heartbeat \/ DispatcherNext \/ LoopNext \/ Disturbance

Spec == Init /\ [][Next]_vars

(* The timers re-arm, every statement and model call ends, the queue is     *)
(* claimed from while it has ready items, and the cron matches now and then.*)
Fairness ==
  /\ WF_vars(ClockNext)
  /\ SF_vars(Heartbeat)
  /\ WF_vars(DispatcherNext)
  /\ WF_vars(LoopNext)

FairSpec == Spec /\ Fairness

-----------------------------------------------------------------------------
RunIds == [item: Items, holder: {Agent}, run: 1..MaxAttempt]

Outcomes == {"done", "blocked", "failed", "cancelled"}

(* The loop, the threads and the rows are well typed; a run's budget is     *)
(* never negative.                                                          *)
TypeOK ==
  /\ Queue!TypeOK
  /\ loop \in [phase: {"none", "open", "check", "claim", "start", "run", "put",
                       "complete", "close"},
               run: RunIds \cup {NoRun}, budget: Nat, cost: Nat,
               outcome: Outcomes \cup {"none"}, aborted: BOOLEAN]
  /\ pending \in BOOLEAN
  /\ thread \in [Threads -> {"idle", "opened", "handling", "waiting", "reclaimed"}]
  /\ DOMAIN runs \subseteq RunIds
  /\ \A r \in DOMAIN runs : runs[r] \in [status: Outcomes \cup {"running"}, cost: Nat, day: Nat]
  /\ results \subseteq DOMAIN runs
  /\ looked \subseteq Threads

(* The result is written before the item is completed: an item that the     *)
(* agent finished has a result of that very attempt, whatever crashed.      *)
DoneItemsHaveResults ==
  \A i \in Items :
    LET r == [item |-> i, holder |-> Agent, run |-> attempt[i]]
    IN status[i] = "done" /\ r \in issued => r \in results

(* A day's runs overrun its budget by at most the call that crossed it, and *)
(* so does a run its own.                                                   *)
LargestCall == Max(CallCosts)

BudgetsHold ==
  /\ \A d \in 0..Today :
       MapThenSumSet(LAMBDA r : runs[r].cost, {r \in DOMAIN runs : runs[r].day = d})
         <= UsdPerDay + LargestCall
  /\ \A r \in DOMAIN runs : runs[r].cost <= UsdPerRun + LargestCall

(* A wake that returns without an error saw the queue drained, or the       *)
(* budget spent, after it was called: coalescing loses no wake.             *)
WakesAreServed ==
  [][\A c \in Threads :
       c \in Waiting /\ c \notin Waiting' /\ faults' = faults => c \in looked]_vars

(* v1 of the bridge is one item per watched event. *)
OneItemPerEvent == \A e \in 1..MaxEvents : Cardinality(opened[e]) <= 1

(* A ready item is taken, or the day's budget is spent; and though the      *)
(* clock waits for the loop inside a tick, lapsed leases return.            *)
WorkGoesOn ==
  \A i \in Items :
    /\ (status[i] = "ready" /\ attempt[i] < MaxAttempt)
         ~> (status[i] # "ready" \/ attempt[i] = MaxAttempt \/ Exhausted)
    /\ (status[i] = "claimed" /\ lease[i].expires <= now) ~> status[i] # "claimed"
=============================================================================
