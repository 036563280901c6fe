---------------------------- MODULE SpineProofs ----------------------------
(***************************************************************************)
(* Proofs about the spine, for any transactions, consumers, selectors,     *)
(* dispatchers and batch size, with any number of crashes.                *)
(***************************************************************************)
EXTENDS Spine, SequenceTheorems, FiniteSetTheorems, TLAPS

(* The sequence row: its holder alone has uncommitted rows, and they carry *)
(* exactly the numbers after the last committed one.                       *)
SeqRowInv ==
  /\ lastSeq <= ownSeq
  /\ \A e \in events : e.seq \in 1..lastSeq
  /\ \A n \in 1..lastSeq : \E e \in events : e.seq = n
  /\ \A e, f \in events : e.seq = f.seq => e = f
  /\ \A t \in Txs : pending[t] # {} => holder = t
  /\ \A t \in Txs : \A e \in pending[t] : e.seq \in (lastSeq + 1)..ownSeq
  /\ \A t \in Txs : \A e, f \in pending[t] : e.seq = f.seq => e = f
  /\ holder = NoTx => ownSeq = lastSeq
  /\ holder # NoTx =>
       \A n \in (lastSeq + 1)..ownSeq : \E e \in pending[holder] : e.seq = n

(* A delivery in progress: everything up to after is handled, and rows is  *)
(* an initial piece of what is committed past it.                          *)
DeliveryOk(d) ==
  /\ d.after <= lastSeq
  /\ \A e \in events :
       e.topic \in Selects[d.consumer] /\ e.seq <= d.after
         => e.seq \in handled[d.consumer]
  /\ \A f \in d.rows : f \in events /\ d.after < f.seq
  /\ \A f \in d.rows : \A e \in events :
       d.after < e.seq /\ e.seq <= f.seq => e \in d.rows

DeliveryInv == \A p \in Dispatchers : current[p] # Idle => DeliveryOk(current[p])

Bounded ==
  /\ \A c \in Consumers : cursor[c] <= lastSeq
  /\ \A c \in Consumers : \A n \in handled[c] : n <= lastSeq

SpineInv ==
  TypeOK /\ SeqRowInv /\ DeliveryInv /\ Bounded /\ NoEventSkipped /\ HandledIsPrefix

-----------------------------------------------------------------------------
LEMMA NextRow ==
  ASSUME TypeOK, NEW p \in Dispatchers, current[p] # Idle, NEW e \in current[p].rows
  PROVE  /\ current[p] \in Delivery /\ current[p].consumer \in Consumers
         /\ e \in Event /\ e.seq \in Nat /\ current[p].rows \subseteq Event
         /\ [current[p] EXCEPT !.after = e.seq, !.rows = @ \ {e}] \in Delivery
BY DEF TypeOK, Delivery, Event

LEMMA AdvancedIs ==
  ASSUME TypeOK, NEW p \in Dispatchers, NEW e, current' = Advanced(p, e)
  PROVE  current' = [current EXCEPT ![p] =
                       [current[p] EXCEPT !.after = e.seq, !.rows = @ \ {e}]]
BY DEF Advanced, TypeOK

LEMMA TypeStep == TypeOK /\ [Next]_vars => TypeOK'
<1> SUFFICES ASSUME TypeOK, [Next]_vars PROVE TypeOK'
  OBVIOUS
<1> USE SpineAssumption DEF log, memory, history
<1>1. ASSUME NEW t \in Txs, NEW topic \in Topics, AppendEvent(t, topic) PROVE TypeOK'
  BY <1>1 DEF AppendEvent, TypeOK, Event
<1>2. ASSUME NEW t \in Txs, Commit(t) \/ Rollback(t) PROVE TypeOK'
  BY <1>2 DEF Commit, Rollback, TypeOK
<1>3. ASSUME NEW p \in Dispatchers, NEW c \in Consumers,
             Subscribe(p, c) \/ Close(p, c) \/ BackoffElapses(p, c)
      PROVE TypeOK'
  BY <1>3 DEF Subscribe, Close, BackoffElapses, TypeOK
<1>4. ASSUME NEW p \in Dispatchers, StartCycle(p) \/ Crash(p) \/ CycleFails(p)
      PROVE TypeOK'
  BY <1>4 DEF StartCycle, Crash, CycleFails, TypeOK
<1>5. ASSUME NEW p \in Dispatchers, Visit(p) PROVE TypeOK'
  <2>1. PICK c \in todo[p] :
          /\ todo' = [todo EXCEPT ![p] = @ \ {c}]
          /\ current' = [current EXCEPT ![p] =
               IF c \in subscribed[p] \ backoff[p]
                 THEN [consumer |-> c, start |-> cursor[c], after |-> cursor[c],
                       rows |-> {}, phase |-> "scan"]
                 ELSE Idle]
    BY <1>5 DEF Visit
  <2>2. c \in Consumers
    BY DEF TypeOK
  <2>3. [consumer |-> c, start |-> cursor[c], after |-> cursor[c],
         rows |-> {}, phase |-> "scan"] \in Delivery
    BY <2>2 DEF TypeOK, Delivery
  <2> QED BY <1>5, <2>1, <2>3 DEF Visit, TypeOK
<1>6. ASSUME NEW p \in Dispatchers, Scan(p) PROVE TypeOK'
  <2>1. PICK rows \in SUBSET events :
          current' = [current EXCEPT ![p].rows = rows, ![p].phase = "deliver"]
    BY <1>6 DEF Scan
  <2>2. [current[p] EXCEPT !.rows = rows, !.phase = "deliver"] \in Delivery
    BY <1>6 DEF Scan, TypeOK, Delivery
  <2>3. current' = [current EXCEPT ![p] =
                      [current[p] EXCEPT !.rows = rows, !.phase = "deliver"]]
    BY <2>1 DEF TypeOK
  <2> QED BY <1>6, <2>2, <2>3 DEF Scan, TypeOK
<1>7. ASSUME NEW p \in Dispatchers, Skip(p) PROVE TypeOK'
  <2>1. PICK e \in current[p].rows : current' = Advanced(p, e)
    BY <1>7 DEF Skip
  <2>2. current' \in [Dispatchers -> Delivery \cup {Idle}]
    <3>1. [current[p] EXCEPT !.after = e.seq, !.rows = @ \ {e}] \in Delivery
      BY <1>7, NextRow DEF Skip
    <3>2. current' = [current EXCEPT ![p] =
                        [current[p] EXCEPT !.after = e.seq, !.rows = @ \ {e}]]
      BY <2>1, AdvancedIs
    <3> QED BY <3>1, <3>2 DEF TypeOK
  <2> QED BY <1>7, <2>2 DEF Skip, TypeOK
<1>8. ASSUME NEW p \in Dispatchers, HandleOk(p) PROVE TypeOK'
  <2> DEFINE c == current[p].consumer
  <2>1. PICK e \in current[p].rows :
          /\ current' = Advanced(p, e)
          /\ handled' = [handled EXCEPT ![c] = @ \cup {e.seq}]
          /\ repeated' = IF e.seq \in handled[c] THEN repeated \cup {c} ELSE repeated
          /\ backoff' = [backoff EXCEPT ![p] = @ \ {c}]
    BY <1>8 DEF HandleOk
  <2>2. c \in Consumers /\ e.seq \in Nat
    BY <1>8, NextRow DEF HandleOk
  <2>3. current' \in [Dispatchers -> Delivery \cup {Idle}]
    <3>1. [current[p] EXCEPT !.after = e.seq, !.rows = @ \ {e}] \in Delivery
      BY <1>8, NextRow DEF HandleOk
    <3>2. current' = [current EXCEPT ![p] =
                        [current[p] EXCEPT !.after = e.seq, !.rows = @ \ {e}]]
      BY <2>1, AdvancedIs
    <3> QED BY <3>1, <3>2 DEF TypeOK
  <2> HIDE DEF c
  <2>4. handled' \in [Consumers -> SUBSET Nat]
    BY <2>1, <2>2 DEF TypeOK
  <2>5. repeated' \subseteq Consumers
    BY <2>1, <2>2 DEF TypeOK
  <2>6. backoff' \in [Dispatchers -> SUBSET Consumers]
    BY <2>1 DEF TypeOK
  <2>7. UNCHANGED <<log, cursor, subscribed, todo, faults>>
    BY <1>8 DEF HandleOk
  <2> QED BY <2>3, <2>4, <2>5, <2>6, <2>7 DEF TypeOK
<1>9. ASSUME NEW p \in Dispatchers, HandleFail(p) PROVE TypeOK'
  <2>1. current[p].consumer \in Consumers
    BY <1>9, NextRow DEF HandleFail
  <2>2. [current[p] EXCEPT !.rows = {}] \in Delivery
    BY <1>9 DEF HandleFail, TypeOK, Delivery
  <2>3. current' = [current EXCEPT ![p] = [current[p] EXCEPT !.rows = {}]]
    BY <1>9 DEF HandleFail, TypeOK
  <2> QED BY <1>9, <2>1, <2>2, <2>3 DEF HandleFail, TypeOK
<1>10. ASSUME NEW p \in Dispatchers, Finish(p) PROVE TypeOK'
  BY <1>10 DEF Finish, TypeOK, Delivery
<1>11. CASE UNCHANGED vars
  BY <1>11 DEF vars, TypeOK
<1> QED
  BY <1>1, <1>2, <1>3, <1>4, <1>5, <1>6, <1>7, <1>8, <1>9, <1>10, <1>11 DEF Next

(* Type correctness of the outbox, the cursors and the dispatchers' memory. *)
THEOREM TypeCorrect == Spec => []TypeOK
<1>1. Init => TypeOK
  BY SpineAssumption DEF Init, TypeOK
<1> QED BY <1>1, TypeStep, PTL DEF Spec
-----------------------------------------------------------------------------
(* The outbox alone. *)
LEMMA SeqRowStep ==
  ASSUME TypeOK, SeqRowInv, [Next]_vars
  PROVE  /\ SeqRowInv'
         /\ lastSeq <= lastSeq'
         /\ events \subseteq events'
         /\ \A e \in events' : e \in events \/ e.seq > lastSeq
<1> USE SpineAssumption DEF log, memory, history
<1> DEFINE Goal == /\ SeqRowInv'
                   /\ lastSeq <= lastSeq'
                   /\ events \subseteq events'
                   /\ \A e \in events' : e \in events \/ e.seq > lastSeq
<1>1. ASSUME NEW t \in Txs, NEW topic \in Topics, AppendEvent(t, topic) PROVE Goal
  <2> DEFINE row == [seq |-> ownSeq + 1, topic |-> topic]
  <2>1. /\ holder' = t /\ ownSeq' = ownSeq + 1 /\ UNCHANGED <<events, lastSeq>>
        /\ pending' = [pending EXCEPT ![t] = @ \cup {row}]
        /\ holder \in {NoTx, t}
    BY <1>1 DEF AppendEvent
  <2>2. \A u \in Txs : u # t => pending'[u] = {}
    BY <2>1 DEF TypeOK, SeqRowInv
  <2>3. pending'[t] = pending[t] \cup {row}
    BY <2>1 DEF TypeOK
  <2>4. row.seq = ownSeq + 1
    OBVIOUS
  <2>5. ownSeq \in Nat /\ lastSeq \in Nat /\ \A e \in pending[t] : e.seq \in Nat
    BY DEF TypeOK, Event
  <2>6. \A e \in pending[t] : e.seq \in (lastSeq + 1)..ownSeq
    BY DEF SeqRowInv
  <2>7. \A n \in (lastSeq + 1)..ownSeq : \E e \in pending[t] : e.seq = n
    BY <2>1, <2>5 DEF SeqRowInv
  <2>8. \A e, f \in pending[t] : e.seq = f.seq => e = f
    BY DEF SeqRowInv
  <2> HIDE DEF row
  <2>9. \A n \in (lastSeq + 1)..(ownSeq + 1) : \E e \in pending'[t] : e.seq = n
    BY <2>3, <2>4, <2>5, <2>7
  <2>10. \A e \in pending'[t] : e.seq \in (lastSeq + 1)..(ownSeq + 1)
    BY <2>3, <2>4, <2>5, <2>6 DEF SeqRowInv
  <2>11. \A e, f \in pending'[t] : e.seq = f.seq => e = f
    BY <2>3, <2>4, <2>5, <2>6, <2>8
  <2>12. SeqRowInv'
    BY <2>1, <2>2, <2>5, <2>9, <2>10, <2>11 DEF SeqRowInv
  <2> QED BY <2>1, <2>5, <2>12
<1>2. ASSUME NEW t \in Txs, Commit(t) PROVE Goal
  <2>1. /\ pending[t] # {} /\ events' = events \cup pending[t] /\ lastSeq' = ownSeq
        /\ holder' = NoTx /\ pending' = [pending EXCEPT ![t] = {}] /\ ownSeq' = ownSeq
    BY <1>2 DEF Commit
  <2>2. holder = t /\ holder # NoTx
    BY <2>1 DEF SeqRowInv
  <2>3. \A u \in Txs : pending'[u] = {}
    BY <2>1, <2>2 DEF SeqRowInv, TypeOK
  <2>4. ownSeq \in Nat /\ lastSeq \in Nat /\ lastSeq <= ownSeq
    BY DEF TypeOK, SeqRowInv
  <2>5. \A e \in pending[t] : e.seq \in (lastSeq + 1)..ownSeq
    BY DEF SeqRowInv
  <2>6. \A e \in events : e.seq \in 1..lastSeq
    BY DEF SeqRowInv
  <2>7. \A e \in events' : e.seq \in 1..ownSeq
    BY <2>1, <2>4, <2>5, <2>6
  <2>8. \A n \in 1..ownSeq : \E e \in events' : e.seq = n
    <3> SUFFICES ASSUME NEW n \in 1..ownSeq PROVE \E e \in events' : e.seq = n
      OBVIOUS
    <3>1. CASE n <= lastSeq
      BY <2>1, <2>4, <3>1 DEF SeqRowInv
    <3>2. CASE n > lastSeq
      BY <2>1, <2>2, <2>4, <3>2 DEF SeqRowInv
    <3> QED BY <2>4, <3>1, <3>2
  <2>9. \A e, f \in events' : e.seq = f.seq => e = f
    <3>1. \A e, f \in events : e.seq = f.seq => e = f
      BY DEF SeqRowInv
    <3>2. \A e, f \in pending[t] : e.seq = f.seq => e = f
      BY DEF SeqRowInv
    <3>3. \A e \in events, f \in pending[t] : e.seq # f.seq
      BY <2>4, <2>5, <2>6
    <3> QED BY <2>1, <3>1, <3>2, <3>3
  <2>10. SeqRowInv'
    BY <2>1, <2>3, <2>4, <2>7, <2>8, <2>9 DEF SeqRowInv
  <2> QED BY <2>1, <2>4, <2>5, <2>10
<1>3. ASSUME NEW t \in Txs, Rollback(t) PROVE Goal
  <2>1. /\ pending[t] # {} /\ UNCHANGED <<events, lastSeq>> /\ ownSeq' = lastSeq
        /\ holder' = NoTx /\ pending' = [pending EXCEPT ![t] = {}]
    BY <1>3 DEF Rollback
  <2>2. \A u \in Txs : pending'[u] = {}
    BY <2>1 DEF SeqRowInv, TypeOK
  <2>3. SeqRowInv'
    BY <2>1, <2>2 DEF SeqRowInv, TypeOK
  <2> QED BY <2>1, <2>3 DEF TypeOK
<1>4. ASSUME UNCHANGED log PROVE Goal
  BY <1>4 DEF SeqRowInv, TypeOK
<1> QED
  BY <1>1, <1>2, <1>3, <1>4
  DEF Next, Subscribe, Close, StartCycle, Visit, Scan, Skip, HandleOk, HandleFail,
      Finish, BackoffElapses, Crash, CycleFails, vars

LEMMA SeqRowInvariant == Spec => [](TypeOK /\ SeqRowInv)
<1>1. Init => TypeOK /\ SeqRowInv
  BY SpineAssumption DEF Init, TypeOK, SeqRowInv
<1>2. TypeOK /\ SeqRowInv /\ [Next]_vars => (TypeOK /\ SeqRowInv)'
  BY TypeStep, SeqRowStep
<1> QED BY <1>1, <1>2, PTL DEF Spec

(* The outbox is gapless and commit order is seq order: the tenant_seq row *)
(* is locked from a transaction's first append to its end.                 *)
THEOREM OutboxIsGapless == Spec => []Gapless
<1>1. TypeOK /\ SeqRowInv => Gapless
  BY DEF SeqRowInv, Gapless, TypeOK, Event
<1> QED BY <1>1, SeqRowInvariant, PTL
-----------------------------------------------------------------------------
(* Delivery.  First, what the growing log leaves alone: newly committed    *)
(* events lie past every cursor and every delivery.                        *)
LEMMA QuietStep ==
  ASSUME SpineInv, [Next]_vars, UNCHANGED <<cursor, handled>>,
         \A p \in Dispatchers : current'[p] \in {current[p], Idle}
  PROVE  DeliveryInv' /\ Bounded' /\ NoEventSkipped' /\ HandledIsPrefix'
<1>1. /\ lastSeq <= lastSeq' /\ events \subseteq events'
      /\ \A e \in events' : e \in events \/ e.seq > lastSeq
      /\ lastSeq \in Nat /\ lastSeq' \in Nat
      /\ \A e \in events' : e.seq \in Nat
  BY SeqRowStep, TypeStep DEF SpineInv, TypeOK, Event
<1>2. \A c \in Consumers : cursor[c] \in Nat /\ handled[c] \subseteq Nat
  BY DEF SpineInv, TypeOK
<1>3. ASSUME NEW p \in Dispatchers, current'[p] # Idle PROVE DeliveryOk(current[p])'
  <2>1. /\ current'[p] = current[p] /\ current[p] \in Delivery
        /\ DeliveryOk(current[p])
    BY <1>3 DEF SpineInv, DeliveryInv, TypeOK
  <2> DEFINE d == current[p]
  <2>2. d.after \in Nat /\ d.rows \subseteq Event
    BY <2>1 DEF Delivery
  <2>3. \A f \in d.rows : f.seq \in Nat /\ f.seq <= lastSeq
    BY <2>1, <1>1 DEF DeliveryOk, SpineInv, SeqRowInv
  <2> QED BY <2>1, <2>2, <2>3, <1>1 DEF DeliveryOk
<1>4. DeliveryInv'
  BY <1>3 DEF DeliveryInv
<1>5. Bounded'
  BY <1>1, <1>2 DEF SpineInv, Bounded
<1>6. NoEventSkipped'
  BY <1>1, <1>2 DEF SpineInv, Bounded, NoEventSkipped
<1>7. HandledIsPrefix'
  BY <1>1, <1>2 DEF SpineInv, Bounded, HandledIsPrefix
<1> QED BY <1>4, <1>5, <1>6, <1>7

(* A dispatcher step that only replaces p's delivery with a sound one. *)
LEMMA RowStep ==
  ASSUME SpineInv, UNCHANGED <<log, cursor, handled>>,
         NEW p \in Dispatchers, NEW d, DeliveryOk(d),
         current' = [current EXCEPT ![p] = d]
  PROVE  DeliveryInv' /\ Bounded' /\ NoEventSkipped' /\ HandledIsPrefix'
<1>1. \A q \in Dispatchers : current'[q] = IF q = p THEN d ELSE current[q]
  BY DEF SpineInv, TypeOK
<1>2. UNCHANGED <<events, lastSeq, handled, cursor>>
  BY DEF log
<1>3. \A q \in Dispatchers : current'[q] # Idle => DeliveryOk(current'[q])
  BY <1>1 DEF SpineInv, DeliveryInv
<1>4. DeliveryInv'
  BY <1>2, <1>3 DEF DeliveryInv, DeliveryOk
<1> QED
  BY <1>2, <1>4 DEF SpineInv, Bounded, NoEventSkipped, HandledIsPrefix

(* Advancing past the lowest row of a batch. *)
LEMMA AdvanceRow ==
  ASSUME SpineInv, NEW p \in Dispatchers, current[p] # Idle,
         NEW e \in current[p].rows, IsNext(p, e)
  PROVE  /\ e \in events /\ e.seq \in Nat /\ e.seq <= lastSeq
         /\ \A f \in events : f.seq < e.seq => f.seq <= current[p].after
<1>1. current[p] \in Delivery /\ DeliveryOk(current[p]) /\ current[p].after \in Nat
  BY DEF SpineInv, DeliveryInv, TypeOK, Delivery
<1>2. e \in events /\ e \in Event
  BY <1>1 DEF DeliveryOk, SpineInv, TypeOK
<1>3. e.seq \in Nat /\ e.seq <= lastSeq
  BY <1>2 DEF Event, SpineInv, SeqRowInv, TypeOK
<1>4. ASSUME NEW f \in events, f.seq < e.seq, ~(f.seq <= current[p].after) PROVE FALSE
  <2>1. f.seq \in Nat
    BY DEF SpineInv, TypeOK, Event
  <2>2. f \in current[p].rows
    BY <1>1, <1>3, <1>4, <2>1 DEF DeliveryOk
  <2> QED BY <1>3, <1>4, <2>1, <2>2 DEF IsNext
<1> QED BY <1>2, <1>3, <1>4

LEMMA AdvancedRows ==
  ASSUME SpineInv, NEW p \in Dispatchers, current[p] # Idle,
         NEW e \in current[p].rows, IsNext(p, e)
  PROVE  LET d == [current[p] EXCEPT !.after = e.seq, !.rows = @ \ {e}]
         IN /\ d.consumer = current[p].consumer /\ d.after = e.seq
            /\ \A f \in d.rows : f \in events /\ d.after < f.seq
            /\ \A f \in d.rows : \A g \in events :
                 d.after < g.seq /\ g.seq <= f.seq => g \in d.rows
<1> DEFINE d == [current[p] EXCEPT !.after = e.seq, !.rows = @ \ {e}]
<1>1. current[p] \in Delivery /\ DeliveryOk(current[p]) /\ current[p].after \in Nat
  BY DEF SpineInv, DeliveryInv, TypeOK, Delivery
<1>2. /\ d.consumer = current[p].consumer /\ d.after = e.seq
      /\ d.rows = current[p].rows \ {e}
  BY <1>1 DEF Delivery
<1>3. \A f \in events : f \in Event /\ f.seq \in Nat /\ (f.seq = e.seq => f = e)
  BY AdvanceRow DEF SpineInv, TypeOK, SeqRowInv, Event
<1>4. e.seq \in Nat /\ current[p].after < e.seq
  BY <1>1, AdvanceRow DEF DeliveryOk
<1>5. \A f \in current[p].rows : f \in events /\ e.seq <= f.seq
  BY <1>1 DEF DeliveryOk, IsNext
<1> HIDE DEF d
<1>6. \A f \in d.rows : f \in events /\ d.after < f.seq
  BY <1>2, <1>3, <1>4, <1>5
<1>7. ASSUME NEW f \in d.rows, NEW g \in events, d.after < g.seq, g.seq <= f.seq
      PROVE  g \in d.rows
  <2>1. f \in current[p].rows /\ current[p].after < g.seq /\ g # e
    BY <1>1, <1>2, <1>3, <1>4, <1>7
  <2>2. g \in current[p].rows
    BY <1>1, <1>7, <2>1 DEF DeliveryOk
  <2> QED BY <1>2, <2>1, <2>2
<1> QED BY <1>2, <1>6, <1>7 DEF d

LEMMA DeliveryStep ==
  SpineInv /\ [Next]_vars => DeliveryInv' /\ Bounded' /\ NoEventSkipped' /\ HandledIsPrefix'
<1> SUFFICES ASSUME SpineInv, [Next]_vars
             PROVE  DeliveryInv' /\ Bounded' /\ NoEventSkipped' /\ HandledIsPrefix'
  OBVIOUS
<1> DEFINE Goal == DeliveryInv' /\ Bounded' /\ NoEventSkipped' /\ HandledIsPrefix'
<1> USE SpineAssumption DEF memory, history
<1>0. TypeOK
  BY DEF SpineInv
<1>1. ASSUME UNCHANGED <<cursor, handled>>, UNCHANGED current PROVE Goal
  BY <1>1, QuietStep
<1>2. ASSUME NEW p \in Dispatchers, Crash(p) \/ CycleFails(p) PROVE Goal
  <2>1. UNCHANGED <<cursor, handled>>
        /\ \A q \in Dispatchers : current'[q] \in {current[q], Idle}
    BY <1>0, <1>2 DEF Crash, CycleFails, TypeOK
  <2> QED BY <2>1, QuietStep
<1>3. ASSUME NEW p \in Dispatchers, Visit(p) PROVE Goal
  <2>1. PICK c \in todo[p] : current' = [current EXCEPT ![p] =
            IF c \in subscribed[p] \ backoff[p]
              THEN [consumer |-> c, start |-> cursor[c], after |-> cursor[c],
                    rows |-> {}, phase |-> "scan"]
              ELSE Idle]
    BY <1>3 DEF Visit
  <2> DEFINE d == [consumer |-> c, start |-> cursor[c], after |-> cursor[c],
                   rows |-> {}, phase |-> "scan"]
  <2>2. UNCHANGED <<log, cursor, handled>>
    BY <1>3 DEF Visit
  <2>3. CASE c \in subscribed[p] \ backoff[p]
    <3>1. c \in Consumers
      BY <1>0 DEF TypeOK
    <3>2. DeliveryOk(d)
      BY <3>1 DEF SpineInv, Bounded, NoEventSkipped, DeliveryOk
    <3>3. current' = [current EXCEPT ![p] = d]
      BY <2>1, <2>3
    <3> HIDE DEF d
    <3> QED BY <2>2, <3>2, <3>3, RowStep
  <2>4. CASE c \notin subscribed[p] \ backoff[p]
    <3>1. \A q \in Dispatchers : current'[q] \in {current[q], Idle}
      BY <1>0, <2>1, <2>4 DEF TypeOK
    <3> QED BY <2>2, <3>1, QuietStep
  <2> QED BY <2>3, <2>4
<1>4. ASSUME NEW p \in Dispatchers, Scan(p) PROVE Goal
  <2>1. PICK upto \in current[p].after..MaxSeq :
          current' = [current EXCEPT
            ![p].rows = {e \in {e \in events : e.seq > current[p].after} : e.seq <= upto},
            ![p].phase = "deliver"]
    BY <1>4 DEF Scan
  <2> DEFINE rows == {e \in {e \in events : e.seq > current[p].after} : e.seq <= upto}
             d == [current[p] EXCEPT !.rows = rows, !.phase = "deliver"]
  <2>2. current[p] \in Delivery /\ DeliveryOk(current[p])
    BY <1>0, <1>4 DEF Scan, SpineInv, DeliveryInv, TypeOK
  <2>3. d.consumer = current[p].consumer /\ d.after = current[p].after /\ d.rows = rows
    BY <2>2 DEF Delivery
  <2>4. current' = [current EXCEPT ![p] = d]
    BY <1>0, <2>1 DEF TypeOK
  <2>5. current[p].after \in Nat /\ upto \in Nat /\ \A e \in events : e.seq \in Nat
    BY <1>0, <2>2 DEF Delivery, TypeOK, Event
  <2>6. \A f \in rows : \A e \in events :
          current[p].after < e.seq /\ e.seq <= f.seq => e \in rows
    BY <2>5
  <2> HIDE DEF d
  <2>7. DeliveryOk(d)
    BY <2>2, <2>3, <2>5, <2>6 DEF DeliveryOk
  <2>8. UNCHANGED <<log, cursor, handled>>
    BY <1>4 DEF Scan
  <2> QED BY <2>4, <2>7, <2>8, RowStep
<1>5. ASSUME NEW p \in Dispatchers, Skip(p) PROVE Goal
  <2>1. PICK e \in current[p].rows :
          IsNext(p, e) /\ ~Matches(p, e) /\ current' = Advanced(p, e)
    BY <1>5 DEF Skip
  <2>2. current[p] # Idle /\ UNCHANGED <<log, cursor, handled>>
    BY <1>5 DEF Skip
  <2> DEFINE d == [current[p] EXCEPT !.after = e.seq, !.rows = @ \ {e}]
  <2>3. /\ d.consumer = current[p].consumer /\ d.after = e.seq
        /\ \A f \in d.rows : f \in events /\ d.after < f.seq
        /\ \A f \in d.rows : \A g \in events :
             d.after < g.seq /\ g.seq <= f.seq => g \in d.rows
    BY <2>1, <2>2, AdvancedRows
  <2>4. current' = [current EXCEPT ![p] = d]
    BY <1>0, <2>1, AdvancedIs
  <2>5. /\ e \in events /\ e.seq \in Nat /\ e.seq <= lastSeq
        /\ \A f \in events : f.seq < e.seq => f.seq <= current[p].after
        /\ \A f \in events : f.seq \in Nat /\ (f.seq = e.seq => f = e)
    BY <1>0, <2>1, <2>2, AdvanceRow DEF SpineInv, SeqRowInv, TypeOK, Event
  <2>6. DeliveryOk(current[p])
    BY <2>2 DEF SpineInv, DeliveryInv
  <2> HIDE DEF d
  <2>7. \A f \in events : f.topic \in Selects[d.consumer] /\ f.seq <= d.after
          => f.seq \in handled[d.consumer]
    BY <2>1, <2>3, <2>5, <2>6 DEF DeliveryOk, Matches
  <2>8. DeliveryOk(d)
    BY <2>3, <2>5, <2>7 DEF DeliveryOk
  <2> QED BY <2>2, <2>4, <2>8, RowStep
<1>6. ASSUME NEW p \in Dispatchers, HandleOk(p) PROVE Goal
  <2> DEFINE c == current[p].consumer
  <2>1. PICK e \in current[p].rows :
          /\ IsNext(p, e) /\ Matches(p, e)
          /\ current' = Advanced(p, e)
          /\ handled' = [handled EXCEPT ![c] = @ \cup {e.seq}]
    BY <1>6 DEF HandleOk
  <2>2. current[p] # Idle /\ UNCHANGED <<events, lastSeq, cursor>>
    BY <1>6 DEF HandleOk, log
  <2> DEFINE d == [current[p] EXCEPT !.after = e.seq, !.rows = @ \ {e}]
  <2>3. /\ d.consumer = c /\ d.after = e.seq
        /\ \A f \in d.rows : f \in events /\ d.after < f.seq
        /\ \A f \in d.rows : \A g \in events :
             d.after < g.seq /\ g.seq <= f.seq => g \in d.rows
    BY <2>1, <2>2, AdvancedRows
  <2>4. current' = [current EXCEPT ![p] = d]
    BY <1>0, <2>1, AdvancedIs
  <2>5. /\ e \in events /\ e.seq \in Nat /\ e.seq <= lastSeq
        /\ \A f \in events : f.seq < e.seq => f.seq <= current[p].after
        /\ \A f \in events : f.seq \in Nat /\ (f.seq = e.seq => f = e)
    BY <1>0, <2>1, <2>2, AdvanceRow DEF SpineInv, SeqRowInv, TypeOK, Event
  <2>6. c \in Consumers /\ DeliveryOk(current[p])
    BY <1>0, <2>2 DEF SpineInv, DeliveryInv, TypeOK, Delivery
  <2>7. \A b \in Consumers :
          handled'[b] = IF b = c THEN handled[b] \cup {e.seq} ELSE handled[b]
    BY <1>0, <2>1 DEF TypeOK
  <2> HIDE DEF d, c
  <2>8. \A f \in events : f.topic \in Selects[c] /\ f.seq <= e.seq
          => f.seq \in handled'[c]
    <3> SUFFICES ASSUME NEW f \in events, f.topic \in Selects[c], f.seq <= e.seq
                 PROVE  f.seq \in handled'[c]
      OBVIOUS
    <3>1. CASE f.seq = e.seq
      BY <2>6, <2>7, <3>1
    <3>2. CASE f.seq < e.seq
      BY <2>5, <2>6, <2>7, <3>2 DEF DeliveryOk, c
    <3> QED BY <2>5, <3>1, <3>2
  <2>9. ASSUME NEW q \in Dispatchers, current'[q] # Idle PROVE DeliveryOk(current[q])'
    <3>1. CASE q = p
      <4>1. current'[q] = d
        BY <1>0, <2>4, <3>1 DEF TypeOK
      <4> QED BY <2>2, <2>3, <2>5, <2>8, <4>1 DEF DeliveryOk
    <3>2. CASE q # p
      <4>1. current'[q] = current[q]
        BY <1>0, <2>4, <3>2 DEF TypeOK
      <4>2. current[q].consumer \in Consumers /\ DeliveryOk(current[q])
        BY <1>0, <2>9, <4>1 DEF SpineInv, DeliveryInv, TypeOK, Delivery
      <4> QED BY <2>2, <2>7, <4>1, <4>2 DEF DeliveryOk
    <3> QED BY <3>1, <3>2
  <2>10. DeliveryInv'
    BY <2>9 DEF DeliveryInv
  <2>11. Bounded'
    BY <2>2, <2>5, <2>7 DEF SpineInv, Bounded
  <2>12. NoEventSkipped'
    BY <2>2, <2>7 DEF SpineInv, NoEventSkipped
  <2>13. HandledIsPrefix'
    <3> SUFFICES ASSUME NEW b \in Consumers, NEW f \in events,
                        f.topic \in Selects[b], NEW n \in handled'[b], f.seq < n
                 PROVE  f.seq \in handled'[b]
      BY <2>2 DEF HandledIsPrefix
    <3>1. CASE n \in handled[b]
      BY <2>7, <3>1 DEF SpineInv, HandledIsPrefix
    <3>2. CASE b = c /\ n = e.seq
      BY <2>5, <2>8, <3>2
    <3> QED BY <2>7, <3>1, <3>2
  <2> QED BY <2>10, <2>11, <2>12, <2>13
<1>7. ASSUME NEW p \in Dispatchers, HandleFail(p) PROVE Goal
  <2> DEFINE d == [current[p] EXCEPT !.rows = {}]
  <2>1. current' = [current EXCEPT ![p] = d] /\ UNCHANGED <<log, cursor, handled>>
    BY <1>0, <1>7 DEF HandleFail, TypeOK
  <2>2. current[p] \in Delivery /\ DeliveryOk(current[p])
    BY <1>0, <1>7 DEF HandleFail, SpineInv, DeliveryInv, TypeOK
  <2>3. d.consumer = current[p].consumer /\ d.after = current[p].after /\ d.rows = {}
    BY <2>2 DEF Delivery
  <2> HIDE DEF d
  <2>4. DeliveryOk(d)
    BY <2>2, <2>3 DEF DeliveryOk
  <2> QED BY <2>1, <2>4, RowStep
<1>8. ASSUME NEW p \in Dispatchers, Finish(p) PROVE Goal
  <2> DEFINE d == current[p]
  <2>1. d \in Delivery /\ DeliveryOk(d)
    BY <1>0, <1>8 DEF Finish, SpineInv, DeliveryInv, TypeOK
  <2>2. /\ cursor' \in {cursor, [cursor EXCEPT ![d.consumer] = d.after]}
        /\ \A q \in Dispatchers : current'[q] \in {current[q], Idle}
        /\ UNCHANGED <<events, lastSeq, handled>>
    BY <1>0, <1>8 DEF Finish, TypeOK, log
  <2>3. \A c \in Consumers :
          cursor'[c] = cursor[c] \/ (c = d.consumer /\ cursor'[c] = d.after)
    BY <1>0, <2>2 DEF TypeOK
  <2> HIDE DEF d
  <2>4. DeliveryInv'
    BY <2>2 DEF SpineInv, DeliveryInv, DeliveryOk
  <2>5. Bounded'
    BY <2>1, <2>2, <2>3 DEF SpineInv, Bounded, DeliveryOk
  <2>6. NoEventSkipped'
    BY <2>1, <2>2, <2>3 DEF SpineInv, NoEventSkipped, DeliveryOk
  <2>7. HandledIsPrefix'
    BY <2>2 DEF SpineInv, HandledIsPrefix
  <2> QED BY <2>4, <2>5, <2>6, <2>7
<1> QED
  BY <1>1, <1>2, <1>3, <1>4, <1>5, <1>6, <1>7, <1>8
  DEF Next, AppendEvent, Commit, Rollback, Subscribe, Close, StartCycle,
      BackoffElapses, vars

LEMMA SpineInvariant == Spec => []SpineInv
<1>1. Init => SpineInv
  BY SpineAssumption
  DEF Init, SpineInv, TypeOK, SeqRowInv, DeliveryInv, Bounded, NoEventSkipped,
      HandledIsPrefix
<1>2. SpineInv /\ [Next]_vars => SpineInv'
  BY TypeStep, SeqRowStep, DeliveryStep DEF SpineInv
<1> QED BY <1>1, <1>2, PTL DEF Spec

(* No event is lost: a durable cursor never passes a matching event that   *)
(* its consumer has not handled, with any number of dispatchers, crashes  *)
(* and failing handlers.                                                   *)
THEOREM NoEventIsSkipped == Spec => []NoEventSkipped
<1>1. SpineInv => NoEventSkipped
  BY DEF SpineInv
<1> QED BY <1>1, SpineInvariant, PTL

(* Delivery is ordered: the events a consumer has handled are a prefix of  *)
(* those it selects.                                                       *)
THEOREM DeliveryIsOrdered == Spec => []HandledIsPrefix
<1>1. SpineInv => HandledIsPrefix
  BY DEF SpineInv
<1> QED BY <1>1, SpineInvariant, PTL
-----------------------------------------------------------------------------
(* Steady operation: with one dispatcher and no fault so far, nothing past *)
(* the cursor is handled but by the delivery in progress, which started at *)
(* the cursor.                                                             *)
SteadyOk(p) ==
  IF current[p] = Idle
    THEN \A c \in Consumers : \A n \in handled[c] : n <= cursor[c]
    ELSE LET d == current[p]
         IN /\ d.start = cursor[d.consumer]
            /\ \A n \in handled[d.consumer] : n <= d.after
            /\ \A c \in Consumers \ {d.consumer} : \A n \in handled[c] : n <= cursor[c]

SteadyInv == faults = 0 => repeated = {} /\ \A p \in Dispatchers : SteadyOk(p)

OneDispatcher == \A p, q \in Dispatchers : p = q

LEMMA SteadyStep ==
  ASSUME OneDispatcher, SpineInv, SteadyInv, [Next]_vars
  PROVE  SteadyInv'
<1> USE SpineAssumption DEF memory, history, OneDispatcher
<1>0. TypeOK
  BY DEF SpineInv
<1>1. ASSUME UNCHANGED <<cursor, current, faults, history>> PROVE SteadyInv'
  BY <1>1 DEF SteadyInv, SteadyOk
<1>2. ASSUME NEW p \in Dispatchers, Crash(p) \/ CycleFails(p) PROVE SteadyInv'
  BY <1>0, <1>2 DEF Crash, CycleFails, SteadyInv, TypeOK
<1> SUFFICES ASSUME faults' = 0, faults = 0,
                    NEW p \in Dispatchers,
                    Visit(p) \/ Scan(p) \/ Skip(p) \/ HandleOk(p) \/ HandleFail(p)
                      \/ Finish(p)
             PROVE  repeated' = {} /\ SteadyOk(p)'
  <2>1. ASSUME NEW q \in Dispatchers, Visit(q) \/ Scan(q) \/ Skip(q) \/ HandleOk(q)
                 \/ HandleFail(q) \/ Finish(q)
        PROVE  faults' = faults
    BY <2>1 DEF Visit, Scan, Skip, HandleOk, HandleFail, Finish
  <2> QED
    BY <1>1, <1>2, <2>1
    DEF SteadyInv, Next, AppendEvent, Commit, Rollback, Subscribe, Close, StartCycle,
        BackoffElapses, vars
<1>3. repeated = {} /\ SteadyOk(p)
  BY DEF SteadyInv
<1>4. CASE Visit(p)
  <2>1. /\ current[p] = Idle /\ UNCHANGED <<cursor, history>>
        /\ \E c \in Consumers : current'[p] \in
             {Idle, [consumer |-> c, start |-> cursor[c], after |-> cursor[c],
                     rows |-> {}, phase |-> "scan"]}
    BY <1>0, <1>4 DEF Visit, TypeOK
  <2> QED BY <1>3, <2>1 DEF SteadyOk
<1>5. CASE Scan(p) \/ HandleFail(p)
  <2>1. /\ current[p] # Idle /\ current[p] \in Delivery /\ current'[p] # Idle
        /\ current'[p].consumer = current[p].consumer
        /\ current'[p].start = current[p].start /\ current'[p].after = current[p].after
        /\ UNCHANGED <<cursor, history>>
    <3>1. current[p] # Idle /\ current[p] \in Delivery /\ UNCHANGED <<cursor, history>>
      BY <1>0, <1>5 DEF Scan, HandleFail, TypeOK
    <3>2. CASE Scan(p)
      <4>1. PICK rows \in SUBSET events :
              current' = [current EXCEPT ![p].rows = rows, ![p].phase = "deliver"]
        BY <3>2 DEF Scan
      <4> DEFINE d == [current[p] EXCEPT !.rows = rows, !.phase = "deliver"]
      <4>2. /\ d \in Delivery /\ d.consumer = current[p].consumer
            /\ d.start = current[p].start /\ d.after = current[p].after
        BY <1>0, <3>1 DEF TypeOK, Delivery
      <4>3. current' = [current EXCEPT ![p] = d]
        BY <1>0, <4>1 DEF TypeOK
      <4> HIDE DEF d
      <4> QED BY <1>0, <3>1, <4>2, <4>3, IdleAssumption DEF TypeOK
    <3>3. CASE HandleFail(p)
      <4> DEFINE d == [current[p] EXCEPT !.rows = {}]
      <4>2. /\ d \in Delivery /\ d.consumer = current[p].consumer
            /\ d.start = current[p].start /\ d.after = current[p].after
        BY <1>0, <3>1 DEF TypeOK, Delivery
      <4>3. current' = [current EXCEPT ![p] = d]
        BY <1>0, <3>3 DEF HandleFail, TypeOK
      <4> HIDE DEF d
      <4> QED BY <1>0, <3>1, <4>2, <4>3, IdleAssumption DEF TypeOK
    <3> QED BY <1>5, <3>2, <3>3
  <2> QED BY <1>3, <2>1 DEF SteadyOk
<1>6. CASE Skip(p) \/ HandleOk(p)
  <2>1. PICK e \in current[p].rows : IsNext(p, e) /\ current' = Advanced(p, e)
          /\ \/ UNCHANGED <<handled, repeated>>
             \/ /\ handled' = [handled EXCEPT ![current[p].consumer] = @ \cup {e.seq}]
                /\ repeated' = IF e.seq \in handled[current[p].consumer]
                                 THEN repeated \cup {current[p].consumer} ELSE repeated
    BY <1>6 DEF Skip, HandleOk
  <2>2. current[p] # Idle /\ UNCHANGED cursor
    BY <1>6 DEF Skip, HandleOk
  <2> DEFINE c == current[p].consumer
             d == [current[p] EXCEPT !.after = e.seq, !.rows = @ \ {e}]
  <2>3. c \in Consumers /\ d \in Delivery /\ current[p] \in Delivery
    BY <1>0, <2>2, NextRow
  <2>4. d.consumer = c /\ d.start = current[p].start /\ d.after = e.seq
    BY <2>3 DEF Delivery
  <2>5. current' = [current EXCEPT ![p] = d]
    BY <1>0, <2>1, AdvancedIs
  <2>6. e.seq \in Nat /\ current[p].after \in Nat /\ current[p].after < e.seq
    BY <2>1, <2>2, <2>3, AdvanceRow DEF SpineInv, DeliveryInv, DeliveryOk, Delivery
  <2>7. \A n \in handled[c] : n \in Nat /\ n <= current[p].after
    BY <1>0, <1>3, <2>2, <2>3 DEF SteadyOk, TypeOK
  <2> HIDE DEF d, c
  <2>8. e.seq \notin handled[c]
    BY <2>6, <2>7
  <2>9. repeated' = {}
    BY <1>3, <2>1, <2>8 DEF c
  <2>10. \A n \in handled'[c] : n <= e.seq
    BY <1>0, <2>1, <2>3, <2>6, <2>7 DEF c, TypeOK
  <2>11. \A b \in Consumers \ {c} : handled'[b] = handled[b]
    BY <1>0, <2>1, <2>3 DEF c, TypeOK
  <2>12. \A b \in Consumers \ {c} : \A n \in handled[b] : n <= cursor[b]
    BY <1>3, <2>2 DEF SteadyOk, c
  <2>13. d.start = cursor[c] /\ d # Idle /\ current'[p] = d
    BY <1>0, <1>3, <2>2, <2>3, <2>4, <2>5, IdleAssumption DEF SteadyOk, c, TypeOK
  <2> QED BY <2>2, <2>4, <2>5, <2>9, <2>10, <2>11, <2>12, <2>13 DEF SteadyOk
<1>7. CASE Finish(p)
  <2> DEFINE d == current[p]
  <2>1. /\ d # Idle /\ d \in Delivery /\ current'[p] = Idle /\ UNCHANGED history
        /\ cursor' = IF d.after > d.start
                       THEN [cursor EXCEPT ![d.consumer] = d.after] ELSE cursor
    BY <1>0, <1>7 DEF Finish, TypeOK
  <2>2. /\ d.start \in Nat /\ d.after \in Nat /\ d.consumer \in Consumers
        /\ \A c \in Consumers : handled[c] \subseteq Nat /\ cursor[c] \in Nat
    BY <1>0, <2>1 DEF TypeOK, Delivery
  <2>3. /\ d.start = cursor[d.consumer]
        /\ \A n \in handled[d.consumer] : n <= d.after
        /\ \A c \in Consumers \ {d.consumer} : \A n \in handled[c] : n <= cursor[c]
    BY <1>3, <2>1 DEF SteadyOk
  <2> HIDE DEF d
  <2>4. \A c \in Consumers : \A n \in handled[c] : n <= cursor'[c]
    BY <1>0, <2>1, <2>2, <2>3 DEF TypeOK
  <2> QED BY <1>3, <2>1, <2>4 DEF SteadyOk
<1> QED BY <1>4, <1>5, <1>6, <1>7

(* Nothing is handled twice while a single dispatcher neither crashes nor  *)
(* loses the database: retries after a failing handler start past what     *)
(* the batch already handled, because Finish persists it.                  *)
THEOREM OnlyFaultsRedeliver == OneDispatcher => (Spec => []OnlyFaultsRepeat)
<1> SUFFICES ASSUME OneDispatcher PROVE Spec => []OnlyFaultsRepeat
  OBVIOUS
<1>1. Init => SteadyInv
  BY DEF Init, SteadyInv, SteadyOk
<1>2. SpineInv /\ SteadyInv /\ [Next]_vars => SteadyInv'
  BY SteadyStep
<1>3. SteadyInv => OnlyFaultsRepeat
  BY DEF SteadyInv, OnlyFaultsRepeat
<1> QED BY <1>1, <1>2, <1>3, SpineInvariant, PTL DEF Spec
-----------------------------------------------------------------------------
(* The ordered log.  The history variables carry the abstract state: the   *)
(* committed topics in seq order, and each consumer's furthest event.      *)
Published == [n \in 1..Cardinality(events) |-> TopicAt(n)]
Furthest == [c \in Consumers |-> LastHandled(c)]

LogFacts ==
  /\ Cardinality(events) = lastSeq
  /\ Published \in Seq(Topics) /\ Len(Published) = lastSeq
  /\ \A e \in events : Published[e.seq] = e.topic

FurthestFacts ==
  \A c \in Consumers :
    /\ Furthest[c] \in Nat
    /\ Furthest[c] # 0 => Furthest[c] \in handled[c]
    /\ \A n \in handled[c] : n <= Furthest[c]

(* What a consumer has handled has a last element. *)
LastExists ==
  \A c \in Consumers : handled[c] # {} =>
    \E n \in handled[c] : \A m \in handled[c] : m <= n

LEMMA LastStep == TypeOK /\ LastExists /\ [Next]_vars => LastExists'
<1> SUFFICES ASSUME TypeOK, LastExists, [Next]_vars PROVE LastExists'
  OBVIOUS
<1>1. CASE UNCHANGED handled
  BY <1>1 DEF LastExists
<1>2. ASSUME NEW p \in Dispatchers, HandleOk(p) PROVE LastExists'
  <2> DEFINE c == current[p].consumer
  <2>1. PICK e \in current[p].rows : handled' = [handled EXCEPT ![c] = @ \cup {e.seq}]
    BY <1>2 DEF HandleOk
  <2>2. c \in Consumers /\ e.seq \in Nat
    BY <1>2, NextRow DEF HandleOk
  <2> HIDE DEF c
  <2>3. \A b \in Consumers : handled[b] \subseteq Nat
          /\ handled'[b] = IF b = c THEN handled[b] \cup {e.seq} ELSE handled[b]
    BY <2>1 DEF TypeOK
  <2>5. handled'[c] = handled[c] \cup {e.seq}
    BY <2>2, <2>3
  <2>4. \E n \in handled'[c] : \A m \in handled'[c] : m <= n
    <3>1. CASE \A n \in handled[c] : n <= e.seq
      <4>1. e.seq \in handled'[c] /\ \A m \in handled'[c] : m <= e.seq
        BY <2>2, <2>5, <3>1
      <4> QED BY <4>1
    <3>2. CASE ~(\A n \in handled[c] : n <= e.seq)
      <4>1. PICK n \in handled[c] : \A m \in handled[c] : m <= n
        BY <2>2, <3>2 DEF LastExists
      <4>2. n \in Nat /\ handled[c] \subseteq Nat
        BY <2>2, <2>3
      <4>3. e.seq <= n
        BY <2>2, <3>2, <4>1, <4>2
      <4>4. n \in handled'[c] /\ \A m \in handled'[c] : m <= n
        BY <2>2, <2>3, <4>1, <4>2, <4>3
      <4> QED BY <4>4
    <3> QED BY <3>1, <3>2
  <2> QED BY <2>3, <2>4 DEF LastExists
<1> QED
  BY <1>1, <1>2
  DEF Next, AppendEvent, Commit, Rollback, Subscribe, Close, StartCycle, Visit, Scan,
      Skip, HandleFail, Finish, BackoffElapses, Crash, CycleFails, vars, history

LEMMA EventsCounted == TypeOK /\ SeqRowInv => Cardinality(events) = lastSeq
<1> SUFFICES ASSUME TypeOK, SeqRowInv PROVE Cardinality(events) = lastSeq
  OBVIOUS
<1> DEFINE row == [n \in 1..lastSeq |-> CHOOSE e \in events : e.seq = n]
<1>1. lastSeq \in Nat
  BY DEF TypeOK
<1>2. \A n \in 1..lastSeq : row[n] \in events /\ row[n].seq = n
  BY DEF SeqRowInv
<1>3. \A e \in events : e.seq \in 1..lastSeq /\ row[e.seq] = e
  BY <1>2 DEF SeqRowInv
<1>4. row \in [1..lastSeq -> events]
  BY <1>2
<1> HIDE DEF row
<1>5. row \in Bijection(1..lastSeq, events)
  BY <1>2, <1>3, <1>4 DEF Bijection, Injection, Surjection, IsInjective
<1> QED BY <1>1, <1>5, FS_CountingElements DEF ExistsBijection

LEMMA LogRead == TypeOK /\ SeqRowInv => LogFacts
<1> SUFFICES ASSUME TypeOK, SeqRowInv PROVE LogFacts
  OBVIOUS
<1>1. Cardinality(events) = lastSeq /\ lastSeq \in Nat
  BY EventsCounted DEF TypeOK
<1>2. \A e \in events : e.seq \in 1..lastSeq /\ e.topic \in Topics /\ TopicAt(e.seq) = e.topic
  BY DEF TypeOK, SeqRowInv, TopicAt, Event
<1>3. \A n \in 1..lastSeq : TopicAt(n) \in Topics
  BY <1>2 DEF SeqRowInv
<1>4. Published \in [1..lastSeq -> Topics]
  BY <1>1, <1>3 DEF Published
<1>5. Published \in Seq(Topics)
  BY <1>1, <1>4, SeqDef
<1>6. Len(Published) = lastSeq
  BY <1>1, <1>4, <1>5, LenProperties
<1>7. \A e \in events : Published[e.seq] = e.topic
  BY <1>1, <1>2 DEF Published
<1> QED BY <1>1, <1>5, <1>6, <1>7 DEF LogFacts

LEMMA FurthestRead == SpineInv /\ LastExists => FurthestFacts
<1> SUFFICES ASSUME SpineInv, LastExists, NEW c \in Consumers
             PROVE  /\ Furthest[c] \in Nat
                    /\ Furthest[c] # 0 => Furthest[c] \in handled[c]
                    /\ \A n \in handled[c] : n <= Furthest[c]
  BY DEF FurthestFacts
<1>1. Furthest[c] = LastHandled(c) /\ handled[c] \subseteq Nat
  BY DEF Furthest, SpineInv, TypeOK
<1>2. CASE handled[c] = {}
  BY <1>1, <1>2 DEF LastHandled
<1>3. CASE handled[c] # {}
  <2>1. \E n \in handled[c] : \A m \in handled[c] : m <= n
    BY <1>3 DEF LastExists
  <2>2. LastHandled(c) \in handled[c] /\ \A m \in handled[c] : m <= LastHandled(c)
    BY <1>3, <2>1 DEF LastHandled
  <2> QED BY <1>1, <2>2
<1> QED BY <1>2, <1>3

RefineInv == SpineInv /\ LastExists

LEMMA RefineInvariant == Spec => []RefineInv
<1>1. Init => LastExists
  BY DEF Init, LastExists
<1>2. SpineInv /\ LastExists /\ [Next]_vars => LastExists'
  BY LastStep DEF SpineInv
<1> QED BY <1>1, <1>2, SpineInvariant, PTL DEF Spec, RefineInv

LEMMA ReadFacts == RefineInv => LogFacts /\ FurthestFacts
BY LogRead, FurthestRead DEF RefineInv, SpineInv

LEMMA ReadFactsNext == RefineInv' => LogFacts' /\ FurthestFacts'
BY ReadFacts, PTL

(* A commit publishes its rows at the end of the log. *)
LEMMA CommitPublishes ==
  ASSUME RefineInv, RefineInv', NEW t \in Txs, Commit(t)
  PROVE  /\ Len(Published') > Len(Published)
         /\ SubSeq(Published', 1, Len(Published)) = Published
         /\ Furthest' = Furthest
<1>1. LogFacts /\ LogFacts'
  BY ReadFacts, ReadFactsNext
<1>2. /\ pending[t] # {} /\ events \subseteq events' /\ lastSeq' = ownSeq
      /\ UNCHANGED handled
  BY DEF Commit, history
<1>3. lastSeq \in Nat /\ lastSeq' \in Nat /\ lastSeq' > lastSeq
  <2>1. PICK e \in pending[t] : TRUE
    BY <1>2
  <2>2. e.seq \in (lastSeq + 1)..ownSeq
    BY <2>1 DEF RefineInv, SpineInv, SeqRowInv
  <2> QED BY <1>2, <2>2 DEF RefineInv, SpineInv, TypeOK
<1>4. \A n \in 1..lastSeq : Published'[n] = Published[n] /\ Published'[n] \in Topics
  <2> SUFFICES ASSUME NEW n \in 1..lastSeq
               PROVE  Published'[n] = Published[n] /\ Published'[n] \in Topics
    OBVIOUS
  <2>1. PICK e \in events : e.seq = n
    BY DEF RefineInv, SpineInv, SeqRowInv
  <2>2. e \in events' /\ e.topic \in Topics
    BY <1>2, <2>1 DEF RefineInv, SpineInv, TypeOK, Event
  <2> QED BY <1>1, <2>1, <2>2 DEF LogFacts
<1>5. SubSeq(Published', 1, lastSeq) = Published
  <2>1. /\ SubSeq(Published', 1, lastSeq) \in Seq(Topics)
        /\ Len(SubSeq(Published', 1, lastSeq)) = lastSeq
        /\ \A i \in 1..lastSeq : SubSeq(Published', 1, lastSeq)[i] = Published'[i]
    <3> HIDE DEF Published
    <3>1. \A i \in 1..lastSeq : Published'[i] \in Topics
      BY <1>4
    <3>2. /\ SubSeq(Published', 1, lastSeq) \in Seq(Topics)
          /\ Len(SubSeq(Published', 1, lastSeq)) = IF 1 <= lastSeq THEN lastSeq - 1 + 1 ELSE 0
          /\ \A i \in 1..(lastSeq - 1 + 1) :
               SubSeq(Published', 1, lastSeq)[i] = Published'[1 + i - 1]
      BY <1>3, <3>1, SubSeqProperties
    <3> QED BY <1>3, <3>2
  <2> QED BY <1>1, <1>4, <2>1, SeqEqual DEF LogFacts
<1>6. Furthest' = Furthest
  BY <1>2 DEF Furthest, LastHandled
<1> QED BY <1>1, <1>3, <1>5, <1>6 DEF LogFacts

(* A completed handler is the first delivery of the consumer's next event, *)
(* or a redelivery, which the abstract log does not see.                   *)
LEMMA HandlingDelivers ==
  ASSUME RefineInv, RefineInv', NEW p \in Dispatchers, HandleOk(p)
  PROVE  /\ Published' = Published
         /\ \/ Furthest' = Furthest
            \/ \E c \in Consumers : \E n \in (Furthest[c] + 1)..Len(Published) :
                 /\ Published[n] \in Selects[c]
                 /\ \A m \in (Furthest[c] + 1)..(n - 1) : Published[m] \notin Selects[c]
                 /\ Furthest' = [Furthest EXCEPT ![c] = n]
<1> DEFINE c == current[p].consumer
<1>1. PICK e \in current[p].rows :
        /\ IsNext(p, e) /\ Matches(p, e)
        /\ handled' = [handled EXCEPT ![c] = @ \cup {e.seq}]
  BY DEF HandleOk
<1>2. current[p] # Idle /\ UNCHANGED <<events, lastSeq>>
  BY DEF HandleOk, log
<1>3. SpineInv /\ TypeOK
  BY DEF RefineInv, SpineInv
<1>4. /\ c \in Consumers /\ e \in events /\ e.seq \in Nat /\ e.seq \in 1..lastSeq
      /\ e.topic \in Selects[c]
      /\ \A f \in events : f.seq < e.seq => f.seq <= current[p].after
      /\ DeliveryOk(current[p])
  BY <1>1, <1>2, <1>3, NextRow, AdvanceRow
  DEF Matches, SpineInv, SeqRowInv, DeliveryInv
<1>5. LogFacts /\ FurthestFacts /\ FurthestFacts'
  BY ReadFacts, ReadFactsNext
<1>6. Published' = Published
  BY <1>2 DEF Published, TopicAt
<1>7. \A f \in events : f.topic \in Selects[c] /\ f.seq < e.seq => f.seq \in handled[c]
  BY <1>4 DEF DeliveryOk
<1> HIDE DEF c
<1>8. /\ \A b \in Consumers : b # c => handled'[b] = handled[b]
      /\ handled'[c] = handled[c] \cup {e.seq}
  BY <1>1, <1>3, <1>4 DEF TypeOK
<1>9. /\ Furthest = [b \in Consumers |-> Furthest[b]]
      /\ Furthest' = [b \in Consumers |-> Furthest'[b]]
      /\ \A b \in Consumers : handled'[b] = handled[b] => Furthest'[b] = Furthest[b]
  <2>1. /\ Furthest = [b \in Consumers |-> Furthest[b]]
        /\ Furthest' = [b \in Consumers |-> Furthest'[b]]
    BY DEF Furthest
  <2>2. ASSUME NEW b \in Consumers, handled'[b] = handled[b]
        PROVE  Furthest'[b] = Furthest[b]
    <3>1. Furthest[b] \in Nat /\ Furthest'[b] \in Nat
      BY <1>5 DEF FurthestFacts
    <3>2. /\ Furthest[b] # 0 => Furthest[b] \in handled[b]
          /\ \A n \in handled[b] : n <= Furthest[b]
          /\ Furthest'[b] # 0 => Furthest'[b] \in handled[b]
          /\ \A n \in handled[b] : n <= Furthest'[b]
      BY <1>5, <2>2 DEF FurthestFacts
    <3> QED BY <3>1, <3>2
  <2> QED BY <2>1, <2>2
<1>10. CASE e.seq <= Furthest[c]
  <2>1. e.seq \in handled[c]
    <3>1. Furthest[c] \in handled[c] /\ Furthest[c] \in Nat
      BY <1>4, <1>5, <1>10 DEF FurthestFacts
    <3> QED BY <1>3, <1>4, <1>10, <3>1 DEF SpineInv, HandledIsPrefix
  <2>2. handled'[c] = handled[c]
    BY <1>8, <2>1
  <2>3. \A b \in Consumers : Furthest'[b] = Furthest[b]
    BY <1>8, <1>9, <2>2
  <2> QED BY <1>6, <1>9, <2>3
<1>11. CASE Furthest[c] < e.seq
  <2>1. Furthest[c] \in Nat /\ Furthest'[c] \in Nat /\ \A n \in handled[c] : n <= Furthest[c]
    BY <1>4, <1>5 DEF FurthestFacts
  <2>2. Furthest'[c] = e.seq
    <3>1. e.seq <= Furthest'[c] /\ Furthest'[c] \in handled'[c]
      BY <1>4, <1>5, <1>8, <2>1 DEF FurthestFacts
    <3> QED BY <1>4, <1>8, <1>11, <2>1, <3>1
  <2>3. Published[e.seq] \in Selects[c] /\ e.seq \in (Furthest[c] + 1)..Len(Published)
    BY <1>4, <1>5, <1>11, <2>1 DEF LogFacts
  <2>4. ASSUME NEW m \in (Furthest[c] + 1)..(e.seq - 1), Published[m] \in Selects[c]
        PROVE  FALSE
    <3>1. m \in 1..lastSeq /\ m < e.seq /\ Furthest[c] < m
      BY <1>3, <1>4, <2>1 DEF TypeOK
    <3>2. PICK f \in events : f.seq = m
      BY <1>3, <3>1 DEF SpineInv, SeqRowInv
    <3>3. f.topic \in Selects[c]
      BY <1>5, <2>4, <3>2 DEF LogFacts
    <3>4. m \in handled[c]
      BY <1>7, <3>1, <3>2, <3>3
    <3> QED BY <2>1, <3>1, <3>4
  <2>5. Furthest' = [Furthest EXCEPT ![c] = e.seq]
    BY <1>4, <1>8, <1>9, <2>2
  <2> QED BY <1>4, <1>6, <2>3, <2>4, <2>5
<1> QED BY <1>4, <1>5, <1>10, <1>11 DEF FurthestFacts

(* The spine implements the ordered, at-least-once log it promises, with   *)
(* any number of dispatchers: transactions publish whole and at the end,   *)
(* and a consumer's first deliveries come in order with none left out.     *)
THEOREM SpineIsAnOrderedLog == Spec => ImplementsOrderedLog
<1>1. Init => Promise!Init
  <2> SUFFICES ASSUME Init PROVE Promise!Init
    OBVIOUS
  <2>1. TypeOK /\ SeqRowInv /\ lastSeq = 0
    BY SpineAssumption DEF Init, TypeOK, SeqRowInv
  <2>2. Published = <<>>
    BY <2>1, LogRead, EmptySeq DEF LogFacts
  <2>3. Furthest = [c \in Consumers |-> 0]
    BY DEF Init, Furthest, LastHandled
  <2> QED BY <2>2, <2>3 DEF Promise!Init, Published, Furthest
<1>2. RefineInv /\ RefineInv' /\ [Next]_vars => [Promise!Next]_(Promise!vars)
  <2> SUFFICES ASSUME RefineInv, RefineInv', [Next]_vars
               PROVE  [Promise!Next]_(Promise!vars)
    OBVIOUS
  <2>1. CASE UNCHANGED <<events, handled>>
    BY <2>1 DEF Promise!vars, TopicAt, LastHandled
  <2>2. ASSUME NEW t \in Txs, Commit(t) PROVE [Promise!Next]_(Promise!vars)
    BY <2>2, CommitPublishes
    DEF Promise!Next, Promise!Publish, Published, Furthest
  <2>3. ASSUME NEW p \in Dispatchers, HandleOk(p) PROVE [Promise!Next]_(Promise!vars)
    BY <2>3, HandlingDelivers
    DEF Promise!Next, Promise!Deliver, Promise!vars, Published, Furthest
  <2> QED
    BY <2>1, <2>2, <2>3
    DEF Next, AppendEvent, Rollback, Subscribe, Close, StartCycle, Visit, Scan,
        Skip, HandleFail, Finish, BackoffElapses, Crash, CycleFails, vars, log, history
<1> QED
  BY <1>1, <1>2, RefineInvariant, PTL DEF Spec, ImplementsOrderedLog, Promise!Spec
=============================================================================
