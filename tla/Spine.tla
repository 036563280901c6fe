------------------------------- MODULE Spine -------------------------------
(***************************************************************************)
(* The event spine of one tenant (apps/server/src/spine): transactions     *)
(* append to the outbox under the tenant's sequence row, and a polling     *)
(* dispatcher delivers the committed events to subscribed consumers from   *)
(* durable cursors.  Tenants share nothing but the dispatcher's turn.      *)
(*                                                                         *)
(* A dispatcher lives in a server process and may die at any point; more   *)
(* than one runs while deployments overlap.                                *)
(***************************************************************************)
EXTENDS Naturals, FiniteSets

CONSTANTS
  Txs,          \* concurrent transactions
  Topics,
  Consumers,
  Selects,      \* the topics each consumer's selector matches
  Dispatchers,  \* processes running the dispatcher
  Batch,        \* SCAN_BATCH
  MaxSeq,       \* bound on the events ever appended
  MaxFaults,    \* bound on crashes and failed cycles
  Reliable,     \* consumers subscribed for good whose handler does not
                \* fail forever
  NoTx,         \* nobody holds the sequence row
  Idle          \* no delivery in progress

ASSUME SpineAssumption ==
  /\ Selects \in [Consumers -> SUBSET Topics]
  /\ Batch \in Nat \ {0}
  /\ MaxSeq \in Nat /\ MaxFaults \in Nat
  /\ NoTx \notin Txs
  /\ Reliable \subseteq Consumers

VARIABLES
  events,      \* committed rows of spine.events
  lastSeq,     \* committed spine.tenant_seq.last_seq
  holder,      \* the transaction holding that row's lock
  ownSeq,      \* last_seq as the holder sees it
  pending,     \* per transaction: rows it inserted and has not committed
  cursor,      \* spine.consumer_cursors.after_seq
  subscribed,  \* per process: the subscriptions map
  todo,        \* per process: consumers the running cycle has yet to visit
  current,     \* per process: the deliverForTenant in progress, or Idle
  backoff,     \* per process: consumers waiting out a failure
  faults,      \* crashes and failed cycles so far
  handled,     \* history: seqs each consumer's handler completed
  repeated     \* history: consumers whose handler completed a seq twice

log     == <<events, lastSeq, holder, ownSeq, pending>>
memory  == <<subscribed, todo, current, backoff>>
history == <<handled, repeated>>
vars    == <<log, cursor, memory, faults, history>>

Event == [seq: Nat, topic: Topics]

Delivery == [consumer: Consumers, start: Nat, after: Nat, rows: SUBSET Event,
             phase: {"scan", "deliver"}]

ASSUME IdleAssumption == Idle \notin Delivery

Init ==
  /\ events = {} /\ lastSeq = 0 /\ holder = NoTx /\ ownSeq = 0
  /\ pending = [t \in Txs |-> {}]
  /\ cursor = [c \in Consumers |-> 0]
  /\ subscribed = [p \in Dispatchers |-> Consumers]
  /\ todo = [p \in Dispatchers |-> {}]
  /\ current = [p \in Dispatchers |-> Idle]
  /\ backoff = [p \in Dispatchers |-> {}]
  /\ faults = 0
  /\ handled = [c \in Consumers |-> {}]
  /\ repeated = {}

-----------------------------------------------------------------------------
(* The outbox.  append upserts the tenant_seq row: the first append of a   *)
(* transaction waits for the row's holder to end.                          *)

(* Mutant: the number comes from a counter nobody holds until commit. *)
AppendUnlocked(t, topic) ==
  /\ ownSeq < MaxSeq
  /\ ownSeq' = ownSeq + 1
  /\ pending' = [pending EXCEPT ![t] = @ \cup {[seq |-> ownSeq + 1, topic |-> topic]}]
  /\ UNCHANGED <<events, lastSeq, holder, cursor, memory, faults, history>>

AppendEvent(t, topic) ==
  /\ holder \in {NoTx, t}
  /\ ownSeq < MaxSeq
  /\ holder' = t
  /\ ownSeq' = ownSeq + 1
  /\ pending' = [pending EXCEPT ![t] = @ \cup {[seq |-> ownSeq + 1, topic |-> topic]}]
  /\ UNCHANGED <<events, lastSeq, cursor, memory, faults, history>>

Commit(t) ==
  /\ pending[t] # {}
  /\ events' = events \cup pending[t]
  /\ lastSeq' = ownSeq
  /\ holder' = NoTx
  /\ pending' = [pending EXCEPT ![t] = {}]
  /\ UNCHANGED <<ownSeq, cursor, memory, faults, history>>

Rollback(t) ==
  /\ pending[t] # {}
  /\ ownSeq' = lastSeq
  /\ holder' = NoTx
  /\ pending' = [pending EXCEPT ![t] = {}]
  /\ UNCHANGED <<events, lastSeq, cursor, memory, faults, history>>

-----------------------------------------------------------------------------
(* The dispatcher.  One cycle at a time per process; a cycle visits the    *)
(* subscriptions one after another.                                        *)

Subscribe(p, c) ==
  /\ c \notin subscribed[p]
  /\ subscribed' = [subscribed EXCEPT ![p] = @ \cup {c}]
  /\ UNCHANGED <<log, cursor, todo, current, backoff, faults, history>>

Close(p, c) ==
  /\ c \in subscribed[p] \ Reliable
  /\ subscribed' = [subscribed EXCEPT ![p] = @ \ {c}]
  /\ UNCHANGED <<log, cursor, todo, current, backoff, faults, history>>

StartCycle(p) ==
  /\ current[p] = Idle /\ todo[p] = {} /\ subscribed[p] # {}
  /\ todo' = [todo EXCEPT ![p] = subscribed[p]]
  /\ UNCHANGED <<log, cursor, subscribed, current, backoff, faults, history>>

(* Mutant: one consumer's backoff holds up the whole cycle.                *)
VisitBlocksAll(p) ==
  /\ current[p] = Idle
  /\ \E c \in todo[p] :
       /\ todo' = [todo EXCEPT ![p] = @ \ {c}]
       /\ current' = [current EXCEPT ![p] =
            IF c \in subscribed[p] /\ backoff[p] = {}
              THEN [consumer |-> c, start |-> cursor[c], after |-> cursor[c],
                    rows |-> {}, phase |-> "scan"]
              ELSE Idle]
  /\ UNCHANGED <<log, cursor, subscribed, backoff, faults, history>>

(* Visit the next subscription: a closed or backed-off one is passed over. *)
Visit(p) ==
  /\ current[p] = Idle
  /\ \E c \in todo[p] :
       /\ todo' = [todo EXCEPT ![p] = @ \ {c}]
       /\ current' = [current EXCEPT ![p] =
            IF c \in subscribed[p] \ backoff[p]
              THEN [consumer |-> c, start |-> cursor[c], after |-> cursor[c],
                    rows |-> {}, phase |-> "scan"]
              ELSE Idle]
  /\ UNCHANGED <<log, cursor, subscribed, backoff, faults, history>>

(* The first Batch committed rows past the cursor. *)
Scan(p) ==
  /\ current[p] # Idle /\ current[p].phase = "scan"
  /\ LET past == {e \in events : e.seq > current[p].after}
     IN \E upto \in current[p].after..MaxSeq :
          LET rows == {e \in past : e.seq <= upto}
          IN /\ Cardinality(rows) <= Batch
             /\ rows = past \/ Cardinality(rows) = Batch
             /\ current' = [current EXCEPT ![p].rows = rows, ![p].phase = "deliver"]
  /\ UNCHANGED <<log, cursor, subscribed, todo, backoff, faults, history>>

(* The lowest undelivered row of the batch. *)
IsNext(p, e) ==
  /\ current[p] # Idle /\ current[p].phase = "deliver"
  /\ e \in current[p].rows
  /\ \A f \in current[p].rows : e.seq <= f.seq

Matches(p, e) == e.topic \in Selects[current[p].consumer]

Advanced(p, e) ==
  [current EXCEPT ![p].after = e.seq, ![p].rows = @ \ {e}]

Skip(p) ==
  /\ current[p] # Idle
  /\ \E e \in current[p].rows :
       IsNext(p, e) /\ ~Matches(p, e) /\ current' = Advanced(p, e)
  /\ UNCHANGED <<log, cursor, subscribed, todo, backoff, faults, history>>

HandleOk(p) ==
  /\ current[p] # Idle
  /\ LET c == current[p].consumer
     IN \E e \in current[p].rows :
          /\ IsNext(p, e) /\ Matches(p, e)
          /\ current' = Advanced(p, e)
          /\ handled' = [handled EXCEPT ![c] = @ \cup {e.seq}]
          /\ repeated' = IF e.seq \in handled[c] THEN repeated \cup {c} ELSE repeated
          /\ backoff' = [backoff EXCEPT ![p] = @ \ {c}]
  /\ UNCHANGED <<log, cursor, subscribed, todo, faults>>

(* Mutant: a failed event is passed over with its batch. *)
HandleFailAdvances(p) ==
  /\ current[p] # Idle
  /\ \E e \in current[p].rows :
       IsNext(p, e) /\ Matches(p, e) /\ current' = Advanced(p, e)
  /\ backoff' = [backoff EXCEPT ![p] = @ \cup {current[p].consumer}]
  /\ UNCHANGED <<log, cursor, subscribed, todo, faults, history>>

(* The handler threw: back off and drop the rest of the batch. *)
HandleFail(p) ==
  /\ current[p] # Idle
  /\ \E e \in current[p].rows : IsNext(p, e) /\ Matches(p, e)
  /\ current' = [current EXCEPT ![p].rows = {}]
  /\ backoff' = [backoff EXCEPT ![p] = @ \cup {current[p].consumer}]
  /\ UNCHANGED <<log, cursor, subscribed, todo, faults, history>>

(* Mutant: progress is saved only by a batch that did not fail. *)
FinishForgets(p) ==
  /\ current[p] # Idle /\ current[p].phase = "deliver" /\ current[p].rows = {}
  /\ LET d == current[p]
     IN cursor' = IF d.consumer \in backoff[p] THEN cursor
                  ELSE [cursor EXCEPT ![d.consumer] = d.after]
  /\ current' = [current EXCEPT ![p] = Idle]
  /\ UNCHANGED <<log, subscribed, todo, backoff, faults, history>>

(* The batch is over, failed or not: persist how far it came. *)
Finish(p) ==
  /\ current[p] # Idle /\ current[p].phase = "deliver" /\ current[p].rows = {}
  /\ LET d == current[p]
     IN cursor' = IF d.after > d.start
                    THEN [cursor EXCEPT ![d.consumer] = d.after] ELSE cursor
  /\ current' = [current EXCEPT ![p] = Idle]
  /\ UNCHANGED <<log, subscribed, todo, backoff, faults, history>>

BackoffElapses(p, c) ==
  /\ c \in backoff[p]
  /\ backoff' = [backoff EXCEPT ![p] = @ \ {c}]
  /\ UNCHANGED <<log, cursor, subscribed, todo, current, faults, history>>

(* The process dies and restarts: its memory is rebuilt, nothing else. *)
Crash(p) ==
  /\ faults < MaxFaults
  /\ faults' = faults + 1
  /\ subscribed' = [subscribed EXCEPT ![p] = Consumers]
  /\ todo' = [todo EXCEPT ![p] = {}]
  /\ current' = [current EXCEPT ![p] = Idle]
  /\ backoff' = [backoff EXCEPT ![p] = {}]
  /\ UNCHANGED <<log, cursor, history>>

(* A database statement of the cycle fails outside any handler (finding    *)
(* tenants, reading or writing the cursor, the scan): the cycle ends there. *)
CycleFails(p) ==
  /\ faults < MaxFaults
  /\ current[p] # Idle \/ todo[p] # {}
  /\ current[p] # Idle => current[p].phase = "scan" \/ current[p].rows = {}
  /\ faults' = faults + 1
  /\ todo' = [todo EXCEPT ![p] = {}]
  /\ current' = [current EXCEPT ![p] = Idle]
  /\ UNCHANGED <<log, cursor, subscribed, backoff, history>>

-----------------------------------------------------------------------------
Next ==
  \/ \E t \in Txs, topic \in Topics : AppendEvent(t, topic)
  \/ \E t \in Txs : Commit(t)
  \/ \E t \in Txs : Rollback(t)
  \/ \E p \in Dispatchers, c \in Consumers : Subscribe(p, c)
  \/ \E p \in Dispatchers, c \in Consumers : Close(p, c)
  \/ \E p \in Dispatchers : StartCycle(p)
  \/ \E p \in Dispatchers : Visit(p)
  \/ \E p \in Dispatchers : Scan(p)
  \/ \E p \in Dispatchers : Skip(p)
  \/ \E p \in Dispatchers : HandleOk(p)
  \/ \E p \in Dispatchers : HandleFail(p)
  \/ \E p \in Dispatchers : Finish(p)
  \/ \E p \in Dispatchers, c \in Consumers : BackoffElapses(p, c)
  \/ \E p \in Dispatchers : Crash(p)
  \/ \E p \in Dispatchers : CycleFails(p)

Spec == Init /\ [][Next]_vars

(* The poll timer keeps starting cycles and a cycle runs to its end; every *)
(* handler returns or throws; a reliable one does not throw forever.       *)
Delivering(p, c) == current[p] # Idle /\ current[p].consumer = c

Fairness ==
  /\ \A p \in Dispatchers :
       /\ WF_vars(StartCycle(p)) /\ WF_vars(Visit(p)) /\ WF_vars(Scan(p))
       /\ WF_vars(Skip(p)) /\ WF_vars(HandleOk(p) \/ HandleFail(p))
       /\ WF_vars(Finish(p))
       /\ \A c \in Consumers : WF_vars(BackoffElapses(p, c))
       /\ \A c \in Reliable : SF_vars(Delivering(p, c) /\ HandleOk(p))

FairSpec == Spec /\ Fairness

-----------------------------------------------------------------------------
TypeOK ==
  /\ events \subseteq Event /\ lastSeq \in Nat /\ ownSeq \in Nat
  /\ holder \in Txs \cup {NoTx}
  /\ pending \in [Txs -> SUBSET Event]
  /\ cursor \in [Consumers -> Nat]
  /\ subscribed \in [Dispatchers -> SUBSET Consumers]
  /\ todo \in [Dispatchers -> SUBSET Consumers]
  /\ current \in [Dispatchers -> Delivery \cup {Idle}]
  /\ backoff \in [Dispatchers -> SUBSET Consumers]
  /\ faults \in Nat
  /\ handled \in [Consumers -> SUBSET Nat]
  /\ repeated \subseteq Consumers

(* The outbox has no gaps and no duplicates, and nothing commits behind    *)
(* what readers have already seen: commit order is seq order.              *)
Gapless ==
  /\ {e.seq : e \in events} = 1..lastSeq
  /\ \A e, f \in events : e.seq = f.seq => e = f
  /\ \A t \in Txs : \A e \in pending[t] : e.seq > lastSeq

(* A cursor never passes a matching event its consumer has not handled,    *)
(* whoever crashed, failed or ran beside whom.                             *)
NoEventSkipped ==
  \A c \in Consumers : \A e \in events :
    e.topic \in Selects[c] /\ e.seq <= cursor[c] => e.seq \in handled[c]

(* Ordered delivery: what a consumer has handled is a prefix of the        *)
(* events it selects.                                                      *)
HandledIsPrefix ==
  \A c \in Consumers : \A e \in events :
    e.topic \in Selects[c] /\ (\E n \in handled[c] : e.seq < n) => e.seq \in handled[c]

(* A single dispatcher that neither crashes nor loses the database         *)
(* delivers exactly once, failing handlers and closed subscriptions        *)
(* notwithstanding.                                                        *)
OnlyFaultsRepeat == faults = 0 => repeated = {}

(* A failing handler blocks its own cursor, never other consumers: every   *)
(* committed event reaches every reliable consumer that selects it.        *)
EveryEventDelivered ==
  \A c \in Reliable : \A n \in 1..MaxSeq :
    (\E e \in events : e.seq = n /\ e.topic \in Selects[c]) ~> n \in handled[c]

(* The spine implements the ordered log it promises. *)
TopicAt(n) ==
  IF \E e \in events : e.seq = n THEN (CHOOSE e \in events : e.seq = n).topic ELSE Idle

LastHandled(c) ==
  IF handled[c] = {} THEN 0 ELSE CHOOSE n \in handled[c] : \A m \in handled[c] : m <= n

Promise == INSTANCE OrderedLog WITH
  entries <- [n \in 1..Cardinality(events) |-> TopicAt(n)],
  delivered <- [c \in Consumers |-> LastHandled(c)]

ImplementsOrderedLog == Promise!Spec
=============================================================================
