---------------------------- MODULE ServicesProofs ----------------------------
(***************************************************************************)
(* Proofs about the services.  A behaviour is one of one service, so what  *)
(* holds of it is an invariant of that service's Next.                     *)
(***************************************************************************)
EXTENDS RegistryProofs

-----------------------------------------------------------------------------
(* Expectations: x1 is seen, x2 missed, x3 ticking, x4 flagged, x5 clock.  *)

LEMMA MaxOfTwo ==
  ASSUME NEW a \in Nat, NEW b \in Nat
  PROVE  Watch!Max({a, b}) \in Nat
<1>1. CASE a >= b
  <2> QED BY <1>1 DEF Watch!Max
<1>2. CASE b >= a
  <2> QED BY <1>2 DEF Watch!Max
<1> QED BY <1>1, <1>2

(* The instance's Cardinality is that of the library.                      *)
LEMMA SameCardinality ==
  ASSUME NEW S
  PROVE  Watch!Cardinality(S) = Cardinality(S)
BY DEF Watch!Cardinality, Cardinality

(* A count of due misses is a number. *)
LEMMA DueIsANumber ==
  ASSUME NEW e, NEW base \in Nat, NEW t \in Nat
  PROVE  Watch!CountDueMisses(e, base, t) \in Nat
<1> DEFINE floor == Watch!Max({base, IF t > MaxScan THEN t - MaxScan ELSE 0})
           hits == {f \in (floor + 1)..t : Watch!CronMatches(e, f) /\ f + Grace[e] <= t}
<1>1. MaxScan \in Nat
  BY ServicesAssumption DEF Watch!FeedWatchAssumption
<1>2. floor \in Nat
  BY <1>1, MaxOfTwo
<1>3. IsFiniteSet((floor + 1)..t)
  <2> HIDE DEF floor
  <2> QED BY <1>2, FS_Interval
<1>4. IsFiniteSet(hits)
  BY <1>3, FS_Subset
<1>5. Watch!CountDueMisses(e, base, t) = Cardinality(hits)
  BY SameCardinality DEF Watch!CountDueMisses
<1> HIDE DEF hits
<1> QED BY <1>4, <1>5, FS_CardinalityType

(* What a tick selected is typed, and the count of a feed is the last one  *)
(* announced; Due is larger than the count it is compared with.            *)
WatchInv == Watch!TypeOK /\ Watch!MissesGrow

WatchTick == [now: Nat, todo: SUBSET Expectations, seen: [Expectations -> Nat],
              missed: [Expectations -> Nat]]

LEMMA WatchBegins == Watch!Init => WatchInv
  BY DEF Watch!Init, WatchInv, Watch!TypeOK, Watch!MissesGrow

LEMMA FlagKeepsWatch ==
  ASSUME WatchInv, NEW s \in Actors, NEW e \in Expectations, Watch!Flag(s, e)
  PROVE  WatchInv'
<1> DEFINE due == Watch!Due(s, e)
<1>1. x3[s] \in WatchTick /\ x1 \in [Expectations -> Nat] /\ x2 \in [Expectations -> Nat]
      /\ x4 \in [Expectations -> Seq(Nat)] /\ x5 \in Nat /\ x3 \in [Actors -> WatchTick \cup {Idle}]
  BY DEF WatchInv, Watch!TypeOK, WatchTick, Watch!Flag
<1>2. due \in Nat
  BY <1>1, DueIsANumber DEF Watch!Due, WatchTick
<1>3. x3' \in [Actors -> WatchTick \cup {Idle}]
  <2> DEFINE left == IF x3[s].todo = {e} THEN Idle ELSE [x3[s] EXCEPT !.todo = @ \ {e}]
  <2>1. left \in WatchTick \cup {Idle}
    BY <1>1 DEF WatchTick
  <2>2. x3' = [x3 EXCEPT ![s] = left]
    BY DEF Watch!Flag, Watch!Handled
  <2> HIDE DEF left
  <2> QED BY <1>1, <2>1, <2>2
<1>4. UNCHANGED <<x1, x5>>
  BY DEF Watch!Flag
<1> HIDE DEF due
<1>5. CASE UNCHANGED <<x2, x4>>
  BY <1>1, <1>3, <1>4, <1>5 DEF WatchInv, Watch!TypeOK, Watch!MissesGrow, WatchTick
<1>6. CASE /\ due > x2[e]
           /\ x2' = [x2 EXCEPT ![e] = due] /\ x4' = [x4 EXCEPT ![e] = Append(@, due)]
  <2>1. Watch!TypeOK'
    BY <1>1, <1>2, <1>3, <1>4, <1>6 DEF Watch!TypeOK, WatchTick
  <2>2. ASSUME NEW a \in Expectations
        PROVE  /\ \A i, j \in DOMAIN x4'[a] : i < j => x4'[a][i] < x4'[a][j]
               /\ x2'[a] = IF x4'[a] = <<>> THEN 0 ELSE x4'[a][Len(x4'[a])]
    <3>1. CASE a # e
      BY <1>1, <1>6, <3>1 DEF WatchInv, Watch!MissesGrow
    <3>2. CASE a = e
      <4> DEFINE q == x4[e]
      <4>1. q \in Seq(Nat) /\ x4'[e] = Append(q, due) /\ x2'[e] = due
        BY <1>1, <1>6
      <4>2. /\ \A i, j \in DOMAIN q : i < j => q[i] < q[j]
            /\ q # <<>> => q[Len(q)] < due
        BY <1>1, <1>6 DEF WatchInv, Watch!MissesGrow
      <4> HIDE DEF q
      <4>3. \A i \in DOMAIN q : q[i] < due
        <5>1. SUFFICES ASSUME NEW i \in DOMAIN q PROVE q[i] < due
          OBVIOUS
        <5>2. i \in 1..Len(q) /\ Len(q) \in 1..Len(q) /\ q # <<>>
          BY <4>1
        <5>3. q[i] \in Nat /\ q[Len(q)] \in Nat /\ DOMAIN q = 1..Len(q)
          BY <4>1, <5>2
        <5> QED BY <1>2, <4>2, <5>2, <5>3
      <4> QED BY <1>2, <3>2, <4>1, <4>2, <4>3
    <3> QED BY <3>1, <3>2
  <2> QED BY <2>1, <2>2 DEF WatchInv, Watch!MissesGrow
<1> QED BY <1>5, <1>6 DEF Watch!Flag, due

LEMMA WatchStep == WatchInv /\ [Watch!Next]_(Watch!vars) => WatchInv'
<1> SUFFICES ASSUME WatchInv, [Watch!Next]_(Watch!vars) PROVE WatchInv'
  OBVIOUS
<1>0. /\ x1 \in [Expectations -> Nat] /\ x2 \in [Expectations -> Nat] /\ x5 \in Nat
      /\ x4 \in [Expectations -> Seq(Nat)] /\ x3 \in [Actors -> WatchTick \cup {Idle}]
  BY DEF WatchInv, Watch!TypeOK, WatchTick
<1>1. ASSUME NEW s \in Actors, Watch!StartTick(s)
      PROVE  WatchInv'
  <2>1. [now |-> x5, todo |-> Expectations, seen |-> x1, missed |-> x2] \in WatchTick
    BY <1>0 DEF WatchTick
  <2>2. x3' \in [Actors -> WatchTick \cup {Idle}] /\ UNCHANGED <<x1, x2, x4, x5>>
    BY <1>0, <1>1, <2>1 DEF Watch!StartTick
  <2> QED BY <1>0, <2>2 DEF WatchInv, Watch!TypeOK, Watch!MissesGrow, WatchTick
<1>2. ASSUME NEW s \in Actors, Watch!TickEnds(s)
      PROVE  WatchInv'
  <2>1. x3' \in [Actors -> WatchTick \cup {Idle}] /\ UNCHANGED <<x1, x2, x4, x5>>
    BY <1>0, <1>2 DEF Watch!TickEnds
  <2> QED BY <1>0, <2>1 DEF WatchInv, Watch!TypeOK, Watch!MissesGrow, WatchTick
<1>3. ASSUME NEW e \in Expectations, NEW at \in 0..MaxClock, Watch!RecordFeedSeen(e, at)
      PROVE  WatchInv'
  <2>1. Watch!TypeOK'
    BY <1>0, <1>3, ServicesAssumption
    DEF Watch!FeedWatchAssumption, Watch!RecordFeedSeen, Watch!TypeOK, WatchTick
  <2>2. Watch!MissesGrow'
    BY <1>0, <1>3 DEF Watch!RecordFeedSeen, WatchInv, Watch!MissesGrow
  <2> QED BY <2>1, <2>2 DEF WatchInv
<1>4. CASE Watch!Advance
  BY <1>0, <1>4 DEF Watch!Advance, WatchInv, Watch!TypeOK, Watch!MissesGrow, WatchTick
<1>5. CASE UNCHANGED Watch!vars
  BY <1>5 DEF Watch!vars, WatchInv, Watch!TypeOK, Watch!MissesGrow
<1> QED BY <1>1, <1>2, <1>3, <1>4, <1>5, FlagKeepsWatch DEF Watch!Next

LEMMA WatchInvariant == Spec => [](service = "watch" => WatchInv)
<1> DEFINE Inv == service = "watch" => WatchInv
<1>1. Init => Inv
  BY WatchBegins DEF Init
<1>2. Inv /\ [Next]_vars => Inv'
  BY WatchStep DEF Next, vars, Watch!vars
<1> QED BY <1>1, <1>2, PTL DEF Spec

(* However the ticks of several orchestrators overlap                      *)
(* (connections/expectations.ts), the counts of misses that are announced  *)
(* between two arrivals grow, and the stored count is the last of them.    *)
THEOREM MissesAreAnnouncedOnce == Spec => []MissesGrow
<1>1. (service = "watch" => WatchInv) => MissesGrow
  BY DEF WatchInv, MissesGrow
<1> QED BY <1>1, WatchInvariant, PTL

-----------------------------------------------------------------------------
(* Human gate: x1 is state, x2 subject, x3 count, x4 wake, x5 assignee,    *)
(* x6 now, x7 sweep, x8 begun.                                             *)

(* The ladder of one request: no follow-up is scheduled before its rung is *)
(* due, and the next one lies a full SLA behind the one before.            *)
Scheduled(r) ==
  x4[r] # None =>
    /\ x8[r] \in Nat
    /\ x3[r] = 0 => x4[r] = x8[r]
    /\ x3[r] > 0 => SlaHours[r] # None /\ x8[r] + x3[r] * SlaHours[r] <= x4[r]

Climbed(r) ==
  /\ SlaHours[r] # None /\ x3[r] > 0 => x8[r] \in Nat /\ x8[r] + (x3[r] - 1) * SlaHours[r] <= x6
  /\ x3[r] <= Len(Path[r]) + 1
  /\ x1[r] = "expired" => x3[r] = Len(Path[r]) + 1
  /\ x5[r] = IF x3[r] <= 1 THEN Owner[r] ELSE Path[r][x3[r] - 1]
  /\ SlaHours[r] = None => x3[r] <= 1 /\ x1[r] # "expired"
  /\ x1[r] = "absent" => x3[r] = 0 /\ x4[r] = None

Remembered(r) ==
  x1[r] = "pending" /\ SlaHours[r] # None
    => x4[r] # None /\ (x4[r] = x8[r] \/ x4[r] <= x6 + SlaHours[r])

GateInv ==
  /\ Gate!TypeOK
  /\ \A p \in Actors : x7[p] # Idle => x7[p].at <= x6
  /\ \A r \in Requests : Scheduled(r) /\ Climbed(r) /\ Remembered(r)

LEMMA GateConstants ==
  /\ None \notin Nat
  /\ SlaHours \in [Requests -> (Nat \ {0}) \cup {None}]
  /\ Path \in [Requests -> Seq(Assignees)] /\ Owner \in [Requests -> Assignees]
  /\ MaxTime \in Nat /\ MaxLag \in Nat
BY ServicesAssumption DEF Gate!GateAssumption

LEMMA GateBegins == Gate!Init => GateInv
<1> SUFFICES ASSUME Gate!Init PROVE GateInv
  OBVIOUS
<1>1. Gate!TypeOK
  BY GateConstants DEF Gate!Init, Gate!TypeOK
<1>2. ASSUME NEW r \in Requests PROVE Scheduled(r) /\ Climbed(r) /\ Remembered(r)
  BY GateConstants DEF Gate!Init, Scheduled, Climbed, Remembered
<1> QED BY <1>1, <1>2 DEF GateInv, Gate!Init

(* One SLA more. *)
LEMMA NextRung ==
  ASSUME NEW b \in Nat, NEW c \in Nat, NEW sla \in Nat, NEW t \in Nat, b + c * sla <= t
  PROVE  b + (c + 1) * sla <= t + sla
<1>1. (c + 1) * sla = c * sla + sla
  OBVIOUS
<1>2. c * sla \in Nat
  OBVIOUS
<1> QED BY <1>1, <1>2

LEMMA SweepKeepsGate ==
  ASSUME GateInv, NEW p \in Actors, NEW r \in Requests, Gate!SweepOne(p, r)
  PROVE  GateInv'
<1> DEFINE t == x7[p].at
           d == Gate!DecideSla(r, t)
           next == Gate!NextFollowUpAt(r, t)
<1>0. Gate!TypeOK /\ GateInv
  BY DEF GateInv
<1>1. x7[p] \in [at: Nat, due: SUBSET Requests] /\ t \in Nat /\ t <= x6 /\ x6 \in Nat
  BY <1>0 DEF Gate!SweepOne, Gate!TypeOK, GateInv
<1>2. /\ x7' \in [Actors -> [at: Nat, due: SUBSET Requests] \cup {Idle}]
      /\ \A q \in Actors : x7'[q] # Idle => x7'[q].at <= x6
  <2> DEFINE left == IF x7[p].due = {r} THEN Idle ELSE [at |-> t, due |-> x7[p].due \ {r}]
  <2>1. left \in [at: Nat, due: SUBSET Requests] \cup {Idle} /\ (left # Idle => left.at <= x6)
    BY <1>1
  <2>2. x7' = [x7 EXCEPT ![p] = left]
    BY DEF Gate!SweepOne, Gate!Swept
  <2> HIDE DEF left
  <2>3. x7 \in [Actors -> [at: Nat, due: SUBSET Requests] \cup {Idle}]
    BY <1>0 DEF Gate!TypeOK
  <2> QED BY <1>0, <2>1, <2>2, <2>3 DEF GateInv
<1>3. UNCHANGED <<x2, x6, x8>>
  BY DEF Gate!SweepOne
<1>4. CASE UNCHANGED <<x1, x3, x4, x5>>
  <2>1. Gate!TypeOK'
    BY <1>0, <1>2, <1>3, <1>4 DEF Gate!TypeOK
  <2> QED BY <1>0, <1>2, <1>3, <1>4, <2>1 DEF GateInv, Scheduled, Climbed, Remembered
<1>5. CASE /\ x1[r] = "pending" /\ Gate!IsDue(r, t)
           /\ x1' = [x1 EXCEPT ![r] = d.to] /\ x3' = [x3 EXCEPT ![r] = d.count]
           /\ x5' = [x5 EXCEPT ![r] = d.assignee] /\ x4' = [x4 EXCEPT ![r] = d.wake]
  <2>1. /\ x3 \in [Requests -> Nat] /\ x4 \in [Requests -> Nat \cup {None}]
        /\ x1 \in [Requests -> Gate!RequestStates \cup {"absent"}]
        /\ x5 \in [Requests -> Assignees] /\ x8 \in [Requests -> Nat \cup {None}]
    BY <1>0 DEF Gate!TypeOK
  <2>2. x4[r] # None /\ x4[r] \in Nat /\ x4[r] <= t /\ x8[r] \in Nat
    BY <1>0, <1>5, <2>1 DEF Gate!IsDue, GateInv, Scheduled
  <2>3. next = IF SlaHours[r] = None THEN None ELSE t + SlaHours[r]
    BY DEF Gate!NextFollowUpAt
  <2>4. next \in Nat \cup {None}
    BY <1>1, <2>3, GateConstants
  <2>5. CASE x3[r] = 0
    <3>1. d = [to |-> "pending", count |-> 1, assignee |-> x5[r], wake |-> next]
      BY <2>5 DEF Gate!DecideSla
    <3> HIDE DEF d, next, t
    <3>2. /\ x1' = [x1 EXCEPT ![r] = "pending"] /\ x3' = [x3 EXCEPT ![r] = 1]
          /\ x5' = x5 /\ x4' = [x4 EXCEPT ![r] = next]
      BY <1>5, <2>1, <3>1
    <3>3. Gate!TypeOK'
      BY <1>0, <1>2, <1>3, <2>4, <3>2 DEF Gate!TypeOK, Gate!RequestStates
    <3>4. Scheduled(r)' /\ Climbed(r)' /\ Remembered(r)'
      <4>1. x3'[r] = 1 /\ x4'[r] = next /\ x5'[r] = x5[r] /\ x1'[r] = "pending"
        BY <2>1, <3>2
      <4>2. SlaHours[r] # None =>
              /\ SlaHours[r] \in Nat /\ x3'[r] * SlaHours[r] = SlaHours[r]
              /\ (x3'[r] - 1) * SlaHours[r] = 0
        BY <4>1, GateConstants
      <4> x8[r] <= t
        BY <1>0, <2>2, <2>5 DEF GateInv, Scheduled
      <4>3. Scheduled(r)'
        <5> DEFINE product == x3'[r] * SlaHours[r]
        <5>1. SlaHours[r] # None => SlaHours[r] \in Nat /\ product = SlaHours[r] /\ next = t + SlaHours[r]
          BY <2>3, <4>2
        <5>2. x8' = x8 /\ x3'[r] # 0 /\ x4'[r] = next /\ (SlaHours[r] = None => next = None)
          BY <1>3, <2>3, <4>1
        <5> HIDE DEF product
        <5>3. SlaHours[r] # None => x8[r] + product <= next
          BY <1>1, <2>2, <5>1
        <5> QED BY <2>2, <5>2, <5>3 DEF Scheduled, product
      <4>4. Climbed(r)'
        <5> DEFINE product == (x3'[r] - 1) * SlaHours[r]
        <5>1. x5[r] = Owner[r] /\ Len(Path[r]) \in Nat /\ x8' = x8 /\ x6' = x6
          BY <1>0, <1>3, <2>5, GateConstants DEF GateInv, Climbed
        <5>2. SlaHours[r] # None => product = 0
          BY <4>2
        <5> HIDE DEF product
        <5>3. SlaHours[r] # None => x8[r] + product <= x6
          BY <1>1, <2>2, <5>2
        <5> QED BY <2>2, <4>1, <5>1, <5>3 DEF Climbed, product
      <4>5. Remembered(r)'
        BY <1>1, <1>3, <2>3, <4>1, <4>2, GateConstants DEF Remembered
      <4> QED BY <4>3, <4>4, <4>5
    <3>5. \A q \in Requests \ {r} : Scheduled(q)' /\ Climbed(q)' /\ Remembered(q)'
      BY <1>0, <1>3, <2>1, <3>2 DEF GateInv, Scheduled, Climbed, Remembered
    <3> QED BY <1>2, <1>3, <3>3, <3>4, <3>5 DEF GateInv
  <2>6. CASE x3[r] \in 1..Len(Path[r])
    <3> DEFINE c == x3[r]
               sla == SlaHours[r]
    <3>1. d = [to |-> "pending", count |-> c + 1, assignee |-> Path[r][c], wake |-> next]
      BY <2>6 DEF Gate!DecideSla
    <3>2. c \in Nat /\ c > 0 /\ sla \in Nat /\ sla # None /\ x8[r] + c * sla <= t
      <4>1. c \in Nat /\ c > 0 /\ sla # None /\ x8[r] + c * sla <= x4[r]
        BY <1>0, <2>1, <2>2, <2>6 DEF GateInv, Scheduled
      <4>2. sla \in Nat
        BY <4>1, GateConstants
      <4>3. c * sla \in Nat
        BY <4>1, <4>2
      <4> HIDE DEF c, sla
      <4> QED BY <1>1, <2>2, <4>1, <4>2, <4>3
    <3>3. next = t + sla
      BY <2>3, <3>2
    <3>4. x8[r] + (c + 1) * sla <= next
      BY <1>1, <2>2, <3>2, <3>3, NextRung
    <3>5. Path[r][c] \in Assignees /\ Len(Path[r]) \in Nat
      BY <2>6, GateConstants
    <3> HIDE DEF d, next, t
    <3>6. /\ x1' = [x1 EXCEPT ![r] = "pending"] /\ x3' = [x3 EXCEPT ![r] = c + 1]
          /\ x5' = [x5 EXCEPT ![r] = Path[r][c]] /\ x4' = [x4 EXCEPT ![r] = next]
      BY <1>5, <3>1
    <3>7. Gate!TypeOK'
      BY <1>0, <1>2, <1>3, <2>4, <3>2, <3>5, <3>6 DEF Gate!TypeOK, Gate!RequestStates
    <3>8. x3'[r] = c + 1 /\ x4'[r] = next /\ x5'[r] = Path[r][c] /\ x1'[r] = "pending"
      BY <2>1, <3>6
    <3>9. x8[r] + c * sla <= x6 /\ c + 1 <= Len(Path[r]) + 1
      <4>1. c * sla \in Nat
        BY <3>2
      <4> HIDE DEF c, sla
      <4>2. x8[r] + c * sla <= x6
        BY <1>1, <2>2, <3>2, <4>1
      <4> QED BY <2>6, <3>5, <4>2 DEF c
    <3>10. Scheduled(r)'
      BY <1>3, <2>2, <3>2, <3>4, <3>8 DEF Scheduled
    <3>11. Climbed(r)'
      <4>1. (c + 1) - 1 = c /\ c + 1 > 1 /\ ~(c + 1 <= 1)
        BY <3>2
      <4> HIDE DEF c
      <4> QED BY <1>3, <2>2, <3>2, <3>8, <3>9, <4>1 DEF Climbed
    <3>12. Remembered(r)'
      BY <1>1, <1>3, <3>2, <3>3, <3>8, GateConstants DEF Remembered
    <3>13. \A q \in Requests \ {r} : Scheduled(q)' /\ Climbed(q)' /\ Remembered(q)'
      BY <1>0, <1>3, <2>1, <3>6 DEF GateInv, Scheduled, Climbed, Remembered
    <3> QED BY <1>2, <1>3, <3>7, <3>10, <3>11, <3>12, <3>13 DEF GateInv
  <2>7. CASE x3[r] # 0 /\ x3[r] \notin 1..Len(Path[r])
    <3>1. d = [to |-> "expired", count |-> x3[r], assignee |-> x5[r], wake |-> None]
      BY <2>7 DEF Gate!DecideSla
    <3>2. x3[r] = Len(Path[r]) + 1 /\ x3[r] > 0 /\ SlaHours[r] # None
      <4>1. Len(Path[r]) \in Nat /\ x3[r] \in Nat /\ x3[r] <= Len(Path[r]) + 1
        BY <1>0, <2>1, GateConstants DEF GateInv, Climbed
      <4>2. x3[r] > 0
        BY <2>7, <4>1
      <4> QED BY <1>0, <2>2, <2>7, <4>1, <4>2 DEF GateInv, Scheduled
    <3> HIDE DEF d, next, t
    <3>3. /\ x1' = [x1 EXCEPT ![r] = "expired"] /\ x3' = x3
          /\ x5' = x5 /\ x4' = [x4 EXCEPT ![r] = None]
      BY <1>5, <2>1, <3>1
    <3>4. Gate!TypeOK'
      BY <1>0, <1>2, <1>3, <3>3 DEF Gate!TypeOK, Gate!RequestStates
    <3>5. Scheduled(r)' /\ Climbed(r)' /\ Remembered(r)'
      BY <1>0, <1>3, <2>1, <3>2, <3>3 DEF GateInv, Scheduled, Climbed, Remembered
    <3>6. \A q \in Requests \ {r} : Scheduled(q)' /\ Climbed(q)' /\ Remembered(q)'
      BY <1>0, <1>3, <2>1, <3>3 DEF GateInv, Scheduled, Climbed, Remembered
    <3> QED BY <1>2, <1>3, <3>4, <3>5, <3>6 DEF GateInv
  <2> QED BY <2>5, <2>6, <2>7
<1> HIDE DEF d
<1> QED BY <1>4, <1>5 DEF Gate!SweepOne, d

LEMMA GateStep == GateInv /\ [Gate!Next]_(Gate!vars) => GateInv'
<1> SUFFICES ASSUME GateInv, [Gate!Next]_(Gate!vars) PROVE GateInv'
  OBVIOUS
<1>0. Gate!TypeOK /\ x6 \in Nat /\ x3 \in [Requests -> Nat] /\ x4 \in [Requests -> Nat \cup {None}]
      /\ x1 \in [Requests -> Gate!RequestStates \cup {"absent"}]
      /\ x8 \in [Requests -> Nat \cup {None}]
      /\ x7 \in [Actors -> [at: Nat, due: SUBSET Requests] \cup {Idle}]
  BY DEF GateInv, Gate!TypeOK
<1>1. ASSUME NEW r \in Requests, NEW pinned \in (0..MaxTime) \cup {None}, Gate!Request(r, pinned)
      PROVE  GateInv'
  <2> DEFINE first == IF pinned # None THEN pinned ELSE Gate!NextFollowUpAt(r, x6)
  <2>1. first \in Nat \cup {None} /\ (SlaHours[r] # None => first # None)
    BY <1>0, GateConstants DEF Gate!NextFollowUpAt
  <2>2. /\ x1[r] = "absent" /\ x4' = [x4 EXCEPT ![r] = first] /\ x8' = [x8 EXCEPT ![r] = first]
        /\ x1' = [x1 EXCEPT ![r] = "pending"] /\ UNCHANGED <<x2, x3, x5, x6, x7>>
    BY <1>1 DEF Gate!Request
  <2> HIDE DEF first
  <2>3. Gate!TypeOK'
    BY <1>0, <2>1, <2>2 DEF Gate!TypeOK, Gate!RequestStates
  <2>4. Scheduled(r)' /\ Climbed(r)' /\ Remembered(r)'
    BY <1>0, <2>1, <2>2 DEF GateInv, Scheduled, Climbed, Remembered
  <2>5. \A q \in Requests \ {r} : Scheduled(q)' /\ Climbed(q)' /\ Remembered(q)'
    BY <1>0, <2>2 DEF GateInv, Scheduled, Climbed, Remembered
  <2> QED BY <2>2, <2>3, <2>4, <2>5 DEF GateInv
<1>2. ASSUME NEW r \in Requests, NEW v \in Gate!Verdicts, Gate!Resolve(r, v)
      PROVE  GateInv'
  <2>1. /\ v \in Gate!RequestStates \ {"pending", "expired", "absent"} /\ x1[r] # "absent"
        /\ x1' = [x1 EXCEPT ![r] = v] /\ UNCHANGED <<x2, x3, x4, x5, x6, x7, x8>>
    BY <1>2 DEF Gate!Resolve, Gate!Verdicts, Gate!RequestStates
  <2>2. Gate!TypeOK'
    BY <1>0, <2>1 DEF Gate!TypeOK
  <2> QED BY <1>0, <2>1, <2>2 DEF GateInv, Scheduled, Climbed, Remembered
<1>3. ASSUME NEW s \in Subjects, Gate!SupersedeForSubject(s)
      PROVE  GateInv'
  <2>1. /\ x1' \in [Requests -> Gate!RequestStates \cup {"absent"}]
        /\ \A r \in Requests : x1'[r] = x1[r] \/ (x1'[r] = "superseded" /\ x1[r] # "absent")
        /\ UNCHANGED <<x2, x3, x4, x5, x6, x7, x8>>
    BY <1>0, <1>3 DEF Gate!SupersedeForSubject, Gate!RequestStates, Gate!Supersedable
  <2>2. Gate!TypeOK'
    BY <1>0, <2>1 DEF Gate!TypeOK
  <2> QED BY <1>0, <2>1, <2>2 DEF GateInv, Scheduled, Climbed, Remembered
<1>4. ASSUME NEW p \in Actors, NEW t \in 0..x6, Gate!ScanDue(p, t)
      PROVE  GateInv'
  <2> DEFINE job == [at |-> t, due |-> {r \in Requests : x1[r] = "pending" /\ Gate!IsDue(r, t)}]
  <2>1. job \in [at: Nat, due: SUBSET Requests] /\ job.at <= x6
    BY <1>0
  <2>2. x7' = [x7 EXCEPT ![p] = job] /\ UNCHANGED <<x1, x2, x3, x4, x5, x6, x8>>
    BY <1>4 DEF Gate!ScanDue, Gate!row
  <2> HIDE DEF job
  <2>3. Gate!TypeOK'
    BY <1>0, <2>1, <2>2 DEF Gate!TypeOK
  <2> QED BY <1>0, <2>1, <2>2, <2>3 DEF GateInv, Scheduled, Climbed, Remembered
<1>5. ASSUME NEW p \in Actors, Gate!AbandonSweep(p)
      PROVE  GateInv'
  <2>1. x7' = [x7 EXCEPT ![p] = Idle] /\ UNCHANGED <<x1, x2, x3, x4, x5, x6, x8>>
    BY <1>5 DEF Gate!AbandonSweep, Gate!row
  <2>2. Gate!TypeOK'
    BY <1>0, <2>1 DEF Gate!TypeOK
  <2> QED BY <1>0, <2>1, <2>2 DEF GateInv, Scheduled, Climbed, Remembered
<1>6. CASE Gate!Advance
  <2>1. x6' = x6 + 1 /\ UNCHANGED <<x1, x2, x3, x4, x5, x7, x8>>
    BY <1>6 DEF Gate!Advance, Gate!row
  <2>2. Gate!TypeOK'
    BY <1>0, <2>1 DEF Gate!TypeOK
  <2>3. \A p \in Actors : x7'[p] # Idle => x7'[p].at <= x6'
    BY <1>0, <2>1 DEF GateInv
  <2>4. ASSUME NEW r \in Requests PROVE Scheduled(r)' /\ Climbed(r)' /\ Remembered(r)'
    <3>1. Scheduled(r)'
      BY <2>1 DEF GateInv, Scheduled
    <3>2. Climbed(r)'
      <4> DEFINE passed == (x3[r] - 1) * SlaHours[r]
      <4>1. SlaHours[r] # None /\ x3[r] > 0 => passed \in Nat
        BY <1>0, GateConstants
      <4>2. SlaHours[r] # None /\ x3[r] > 0 => x8[r] \in Nat /\ x8[r] + passed <= x6
        BY DEF GateInv, Climbed
      <4> HIDE DEF passed
      <4>3. SlaHours[r] # None /\ x3[r] > 0 => x8[r] \in Nat /\ x8[r] + passed <= x6 + 1
        BY <1>0, <4>1, <4>2
      <4> QED BY <2>1, <4>3 DEF GateInv, Climbed, passed
    <3>3. Remembered(r)'
      <4>1. SlaHours[r] # None => SlaHours[r] \in Nat
        BY GateConstants
      <4>2. x4[r] \in Nat \cup {None}
        BY <1>0
      <4> QED BY <1>0, <2>1, <4>1, <4>2 DEF GateInv, Remembered
    <3> QED BY <3>1, <3>2, <3>3
  <2> QED BY <2>2, <2>3, <2>4 DEF GateInv
<1>7. CASE UNCHANGED Gate!vars
  BY <1>7 DEF Gate!vars, Gate!row, GateInv, Gate!TypeOK, Scheduled, Climbed, Remembered
<1> QED BY <1>1, <1>2, <1>3, <1>4, <1>5, <1>6, <1>7, SweepKeepsGate DEF Gate!Next

LEMMA GateInvariant == Spec => [](service = "gate" => GateInv)
<1> DEFINE Inv == service = "gate" => GateInv
<1>1. Init => Inv
  BY GateBegins DEF Init
<1>2. Inv /\ [Next]_vars => Inv'
  BY GateStep DEF Next, vars, Gate!vars, Gate!row
<1> QED BY <1>1, <1>2, PTL DEF Spec

(* However many sweepers scanned the same overdue request                  *)
(* (humangate/sla.ts), its ladder is climbed rung by rung, each a full SLA *)
(* after the one before, it expires at the end only, and a pending request *)
(* with an SLA always has its next follow-up.                              *)
THEOREM LaddersAreClimbed == Spec => []LadderClimbed
<1>1. GateInv => Gate!EveryRungTakesAnSla /\ Gate!LadderClimbed /\ Gate!NoRequestForgotten
  BY DEF GateInv, Scheduled, Climbed, Remembered, Gate!EveryRungTakesAnSla,
         Gate!LadderClimbed, Gate!NoRequestForgotten
<1>2. (service = "gate" => GateInv) => LadderClimbed
  BY <1>1 DEF LadderClimbed
<1> QED BY <1>2, GateInvariant, PTL

(* A request that was answered, superseded or has expired is not chased by *)
(* a sweep that scanned it before: the row is looked at again under its    *)
(* lock (humangate/sla.ts).                                                *)
THEOREM SettledRequestsRest == Spec => SettledIsNotChased
<1>1. ASSUME GateInv, [Gate!Next]_(Gate!vars), NEW r \in Requests, x1[r] \notin {"absent", "pending"}
      PROVE  UNCHANGED <<x3[r], x4[r], x5[r]>>
  <2>1. x3 \in [Requests -> Nat] /\ x4 \in [Requests -> Nat \cup {None}]
        /\ x5 \in [Requests -> Assignees]
    BY <1>1 DEF GateInv, Gate!TypeOK
  <2>2. ASSUME NEW q \in Requests, NEW pinned \in (0..MaxTime) \cup {None}, Gate!Request(q, pinned)
        PROVE  UNCHANGED <<x3[r], x4[r], x5[r]>>
    BY <1>1, <2>1, <2>2 DEF Gate!Request
  <2>3. ASSUME NEW p \in Actors, NEW q \in Requests, Gate!SweepOne(p, q)
        PROVE  UNCHANGED <<x3[r], x4[r], x5[r]>>
    <3>1. CASE q = r
      BY <1>1, <2>3, <3>1 DEF Gate!SweepOne
    <3>2. CASE q # r
      BY <2>1, <2>3, <3>2 DEF Gate!SweepOne
    <3> QED BY <3>1, <3>2
  <2>4. CASE UNCHANGED <<x3, x4, x5>>
    BY <2>4
  <2> QED BY <1>1, <2>2, <2>3, <2>4 DEF Gate!Next, Gate!Resolve, Gate!SupersedeForSubject,
          Gate!ScanDue, Gate!AbandonSweep, Gate!Advance, Gate!row, Gate!vars
<1>2. (service = "gate" => GateInv) /\ [Next]_vars => [service = "gate" => Gate!NotChased]_vars
  <2> SUFFICES ASSUME service = "gate", GateInv, [Next]_vars PROVE Gate!NotChased
    OBVIOUS
  <2>1. [Gate!Next]_(Gate!vars)
    BY DEF Next, vars, Gate!vars, Gate!row
  <2> QED BY <1>1, <2>1 DEF Gate!NotChased
<1> QED BY <1>2, GateInvariant, PTL DEF Spec, SettledIsNotChased

-----------------------------------------------------------------------------
(* Follow-ups: x1 is open, x2 nextAt, x3 contact, x4 notice, x5 sweep,     *)
(* x6 clock, x7 nudges, x8 faults.                                         *)

Follow == [at: Nat, todo: SUBSET (1..N), step: {"draft", "notify", "send", "record"}]

(* The sweeps of `jobs' that are about to open a notification for item i.  *)
Notifying(jobs, i) ==
  {p \in Actors : jobs[p] # Idle /\ jobs[p].step = "notify" /\ FollowUp!Min(jobs[p].todo) = i}

(* A sweep in progress has an item, and records a contact it made; the     *)
(* notifications of an item and those about to be opened are as many as    *)
(* sweeps at most.                                                         *)
FollowUpInv ==
  /\ FollowUp!TypeOK
  /\ \A p \in Actors : x5[p] # Idle =>
       /\ x5[p].todo # {}
       /\ x5[p].step = "record" => x5[p].at \in x7[FollowUp!Item(p)]
  /\ FollowUp!ContactsWereMade
  /\ \A i \in 1..N : x4[i] + Cardinality(Notifying(x5, i)) <= Cardinality(Actors)

LEMMA FollowUpConstants ==
  /\ IsFiniteSet(Actors) /\ N \in Nat /\ MaxNow \in Nat /\ MaxCuts \in Nat /\ None \notin Nat
  /\ Cadence \in [1..N -> (Nat \ {0}) \cup {None}]
  /\ EscalateAfter \in [1..N -> Nat \cup {None}] /\ FirstDue \in [1..N -> Nat]
<1>1. FollowUp!IsFiniteSet(Actors) = IsFiniteSet(Actors)
  BY DEF FollowUp!IsFiniteSet, IsFiniteSet
<1> QED BY <1>1, ServicesAssumption DEF FollowUp!FollowUpsAssumption, FollowUp!Items

LEMMA ItemIsToDo ==
  ASSUME NEW todo, todo \subseteq 1..N, todo # {}
  PROVE  FollowUp!Min(todo) \in todo
<1>1. todo \subseteq Nat
  BY FollowUpConstants
<1>2. \E x \in todo : \A y \in todo : x <= y
  BY <1>1, LeastNat
<1> QED BY <1>2 DEF FollowUp!Min

LEMMA FollowUpBegins == FollowUp!Init => FollowUpInv
<1> SUFFICES ASSUME FollowUp!Init PROVE FollowUpInv
  OBVIOUS
<1>1. FollowUp!TypeOK
  BY FollowUpConstants DEF FollowUp!Init, FollowUp!TypeOK, FollowUp!Items
<1>2. FollowUp!ContactsWereMade
  BY DEF FollowUp!Init, FollowUp!ContactsWereMade, FollowUp!Items
<1>3. ASSUME NEW i \in 1..N PROVE x4[i] + Cardinality(Notifying(x5, i)) <= Cardinality(Actors)
  <2>1. Notifying(x5, i) = {} /\ x4[i] = 0
    BY DEF FollowUp!Init, Notifying, FollowUp!Items
  <2> QED BY <2>1, FS_EmptySet, FS_CardinalityType, FollowUpConstants
<1> QED BY <1>1, <1>2, <1>3 DEF FollowUpInv, FollowUp!Init

(* The sweep of p goes on as `job' and nobody is about to notify because   *)
(* of that.                                                                *)
LEMMA NotNotifying ==
  ASSUME NEW p \in Actors, NEW job, x5 \in [Actors -> Follow \cup {Idle}],
         x5' = [x5 EXCEPT ![p] = job], job = Idle \/ job.step # "notify", NEW i \in 1..N
  PROVE  /\ Notifying(x5', i) = Notifying(x5, i) \ {p}
         /\ Cardinality(Notifying(x5', i)) <= Cardinality(Notifying(x5, i))
         /\ Cardinality(Notifying(x5', i)) \in Nat /\ Cardinality(Notifying(x5, i)) \in Nat
<1>1. Notifying(x5', i) = Notifying(x5, i) \ {p}
  BY DEF Notifying
<1>2. IsFiniteSet(Notifying(x5, i))
  BY FollowUpConstants, FS_Subset DEF Notifying
<1>3. Notifying(x5', i) \subseteq Notifying(x5, i)
  BY <1>1
<1> HIDE DEF Notifying
<1> QED BY <1>1, <1>2, <1>3, FS_Subset, FS_CardinalityType

(* A step of p that leaves the rows alone.                                 *)
LEMMA SweepGoesOn ==
  ASSUME FollowUpInv, NEW p \in Actors, NEW job \in Follow \cup {Idle}, x5' = [x5 EXCEPT ![p] = job],
         UNCHANGED <<x1, x2, x3, x4, x6>>, x8' \in Nat,
         x7' \in [1..N -> SUBSET Nat], \A i \in 1..N : x7[i] \subseteq x7'[i],
         job # Idle =>
           /\ job.step # "notify" /\ job.todo # {}
           /\ job.step = "record" => job.at \in x7'[FollowUp!Min(job.todo)]
  PROVE  FollowUpInv'
<1>0. x5 \in [Actors -> Follow \cup {Idle}] /\ FollowUp!TypeOK /\ x4 \in [1..N -> Nat]
  BY DEF FollowUpInv, FollowUp!TypeOK, Follow, FollowUp!Items
<1>1. x5' \in [Actors -> Follow \cup {Idle}]
  BY <1>0
<1>2. FollowUp!TypeOK'
  BY <1>0, <1>1 DEF FollowUp!TypeOK, Follow, FollowUp!Items
<1>3. ASSUME NEW q \in Actors, x5'[q] # Idle
      PROVE  /\ x5'[q].todo # {}
             /\ x5'[q].step = "record" => x5'[q].at \in x7'[FollowUp!Min(x5'[q].todo)]
  <2>1. CASE q = p
    BY <1>0, <1>3, <2>1
  <2>2. CASE q # p
    <3>1. x5'[q] = x5[q] /\ x5[q] \in Follow /\ x5[q].todo # {}
      BY <1>0, <1>3, <2>2 DEF FollowUpInv
    <3>2. FollowUp!Min(x5[q].todo) \in 1..N
      BY <3>1, ItemIsToDo DEF Follow
    <3> QED BY <1>3, <3>1, <3>2 DEF FollowUpInv, FollowUp!Item
  <2> QED BY <2>1, <2>2
<1>4. FollowUp!ContactsWereMade'
  BY DEF FollowUpInv, FollowUp!ContactsWereMade, FollowUp!Items
<1>5. ASSUME NEW i \in 1..N PROVE x4'[i] + Cardinality(Notifying(x5', i)) <= Cardinality(Actors)
  <2>1. /\ Cardinality(Notifying(x5', i)) <= Cardinality(Notifying(x5, i))
        /\ Cardinality(Notifying(x5', i)) \in Nat /\ Cardinality(Notifying(x5, i)) \in Nat
    BY <1>0, NotNotifying
  <2>2. x4'[i] = x4[i] /\ x4[i] \in Nat /\ Cardinality(Actors) \in Nat
        /\ x4[i] + Cardinality(Notifying(x5, i)) <= Cardinality(Actors)
    BY <1>0, FollowUpConstants, FS_CardinalityType DEF FollowUpInv
  <2> QED BY <2>1, <2>2
<1> QED BY <1>2, <1>3, <1>4, <1>5 DEF FollowUpInv, FollowUp!Item

(* A sweep begins, with some items to do. *)
LEMMA SweepBegins ==
  ASSUME FollowUpInv, NEW p \in Actors, NEW due \in SUBSET (1..N), FollowUp!Begin(p, x6, due)
  PROVE  FollowUpInv'
<1> DEFINE job == [at |-> x6, todo |-> due, step |-> "draft"]
<1>1. job \in Follow /\ due # {}
  BY DEF FollowUpInv, FollowUp!TypeOK, FollowUp!Begin, Follow
<1>2. x5' = [x5 EXCEPT ![p] = job] /\ UNCHANGED <<x1, x2, x3, x4, x6, x7, x8>>
  BY DEF FollowUp!Begin, FollowUp!rows
<1>3. x7 \in [1..N -> SUBSET Nat] /\ x8 \in Nat
  BY DEF FollowUpInv, FollowUp!TypeOK, FollowUp!Items
<1>4. job.step = "draft" /\ job.todo = due
  OBVIOUS
<1> HIDE DEF job
<1> QED BY <1>1, <1>2, <1>3, <1>4, SweepGoesOn

(* The item of a sweep in progress, and what its sweep does next.          *)
LEMMA AtWork ==
  ASSUME FollowUpInv, NEW p \in Actors, x5[p] # Idle
  PROVE  /\ x5[p] \in Follow /\ x5[p].todo # {} /\ FollowUp!Item(p) \in x5[p].todo
         /\ FollowUp!Item(p) \in 1..N
         /\ \A step \in {"draft", "notify", "send", "record"} :
              /\ [x5[p] EXCEPT !.step = step] \in Follow
              /\ [x5[p] EXCEPT !.step = step].todo = x5[p].todo
              /\ [x5[p] EXCEPT !.step = step].at = x5[p].at
              /\ [x5[p] EXCEPT !.step = step].step = step
<1>1. x5[p] \in Follow /\ x5[p].todo # {}
  BY DEF FollowUpInv, FollowUp!TypeOK, Follow, FollowUp!Items
<1>2. FollowUp!Item(p) \in x5[p].todo
  BY <1>1, ItemIsToDo DEF Follow, FollowUp!Item
<1> QED BY <1>1, <1>2 DEF Follow

(* Done with an item. *)
LEMMA DoneGoesOn ==
  ASSUME FollowUpInv, NEW p \in Actors, x5[p] # Idle, FollowUp!Done(p)
  PROVE  \E job \in Follow \cup {Idle} :
           /\ x5' = [x5 EXCEPT ![p] = job]
           /\ job # Idle => job.step = "draft" /\ job.todo # {}
<1> DEFINE left == x5[p].todo \ {FollowUp!Item(p)}
           job == IF x5[p].todo = {FollowUp!Item(p)} THEN Idle
                  ELSE [x5[p] EXCEPT !.todo = left, !.step = "draft"]
<1>0. x5[p] \in Follow /\ FollowUp!Item(p) \in x5[p].todo
  BY AtWork
<1> HIDE DEF left
<1>1. job \in Follow \cup {Idle} /\ (job # Idle => job.step = "draft" /\ job.todo = left)
  BY <1>0 DEF Follow, left
<1>3. job # Idle => left # {}
  BY <1>0 DEF left
<1>2. x5' = [x5 EXCEPT ![p] = job]
  BY DEF FollowUp!Done, left
<1> HIDE DEF job
<1> QED BY <1>1, <1>2, <1>3

LEMMA NotifyStep ==
  ASSUME FollowUpInv, NEW p \in Actors, FollowUp!Notify(p)
  PROVE  FollowUpInv'
<1> DEFINE i == FollowUp!Item(p)
           job == [x5[p] EXCEPT !.step = "send"]
<1>0. /\ x5 \in [Actors -> Follow \cup {Idle}] /\ FollowUp!TypeOK /\ x4 \in [1..N -> Nat]
      /\ x5[p] # Idle /\ x5[p].step = "notify"
  BY DEF FollowUpInv, FollowUp!TypeOK, Follow, FollowUp!Items, FollowUp!Notify, FollowUp!At
<1>1. /\ x4' = [x4 EXCEPT ![i] = x4[i] + 1] /\ x5' = [x5 EXCEPT ![p] = job]
      /\ UNCHANGED <<x1, x2, x3, x6, x7, x8>>
  BY DEF FollowUp!Notify, FollowUp!Step
<1>2. job \in Follow /\ job.todo = x5[p].todo /\ job.step = "send" /\ job.todo # {} /\ i \in 1..N
  BY <1>0, AtWork
<1>3. p \in Notifying(x5, i)
  BY <1>0 DEF Notifying, FollowUp!Item
<1> HIDE DEF i, job
<1>4. FollowUp!TypeOK'
  BY <1>0, <1>1, <1>2 DEF FollowUp!TypeOK, Follow, FollowUp!Items
<1>5. ASSUME NEW q \in Actors, x5'[q] # Idle
      PROVE  /\ x5'[q].todo # {}
             /\ x5'[q].step = "record" => x5'[q].at \in x7'[FollowUp!Min(x5'[q].todo)]
  BY <1>0, <1>1, <1>2, <1>5 DEF FollowUpInv, FollowUp!Item
<1>6. FollowUp!ContactsWereMade'
  BY <1>1 DEF FollowUpInv, FollowUp!ContactsWereMade, FollowUp!Items
<1>7. ASSUME NEW j \in 1..N PROVE x4'[j] + Cardinality(Notifying(x5', j)) <= Cardinality(Actors)
  <2>1. /\ Notifying(x5', j) = Notifying(x5, j) \ {p}
        /\ Cardinality(Notifying(x5', j)) <= Cardinality(Notifying(x5, j))
        /\ Cardinality(Notifying(x5', j)) \in Nat /\ Cardinality(Notifying(x5, j)) \in Nat
    BY <1>0, <1>1, <1>2, NotNotifying
  <2>2. x4[j] \in Nat /\ Cardinality(Actors) \in Nat
        /\ x4[j] + Cardinality(Notifying(x5, j)) <= Cardinality(Actors)
    BY <1>0, FollowUpConstants, FS_CardinalityType DEF FollowUpInv
  <2>3. CASE j # i
    BY <1>0, <1>1, <2>1, <2>2, <2>3
  <2>4. CASE j = i
    <3>1. IsFiniteSet(Notifying(x5, i))
      BY FollowUpConstants, FS_Subset DEF Notifying
    <3>2. Cardinality(Notifying(x5', i)) = Cardinality(Notifying(x5, i)) - 1
      BY <1>3, <2>1, <2>4, <3>1, FS_RemoveElement
    <3> QED BY <1>0, <1>1, <1>2, <2>1, <2>2, <2>4, <3>2
  <2> QED BY <2>3, <2>4
<1> QED BY <1>4, <1>5, <1>6, <1>7 DEF FollowUpInv, FollowUp!Item

LEMMA CheckStep ==
  ASSUME FollowUpInv, NEW p \in Actors, FollowUp!CheckEscalation(p)
  PROVE  FollowUpInv'
<1> DEFINE i == FollowUp!Item(p)
           step == IF EscalateAfter[i] # None /\ x5[p].at >= EscalateAfter[i] /\ x4[i] = 0
                     THEN "notify" ELSE "send"
           job == [x5[p] EXCEPT !.step = step]
<1>0. /\ x5 \in [Actors -> Follow \cup {Idle}] /\ FollowUp!TypeOK /\ x4 \in [1..N -> Nat]
      /\ x5[p] # Idle /\ x7 \in [1..N -> SUBSET Nat] /\ x8 \in Nat
  BY DEF FollowUpInv, FollowUp!TypeOK, Follow, FollowUp!Items, FollowUp!CheckEscalation, FollowUp!At
<1>1. x5' = [x5 EXCEPT ![p] = job] /\ UNCHANGED <<x1, x2, x3, x4, x6, x7, x8>>
  BY DEF FollowUp!CheckEscalation, FollowUp!Step, FollowUp!rows
<1>2. /\ job \in Follow /\ job.todo = x5[p].todo /\ job.step = step /\ job.todo # {} /\ i \in 1..N
      /\ step # "record"
  BY <1>0, AtWork
<1>3. CASE step # "notify"
  <2> HIDE DEF job, step
  <2> QED BY <1>0, <1>1, <1>2, <1>3, SweepGoesOn
<1>4. CASE step = "notify"
  <2>0. x4[i] = 0
    BY <1>4
  <2> HIDE DEF job, step
  <2>1. FollowUp!TypeOK'
    BY <1>0, <1>1, <1>2 DEF FollowUp!TypeOK, Follow, FollowUp!Items
  <2>2. ASSUME NEW q \in Actors, x5'[q] # Idle
        PROVE  /\ x5'[q].todo # {}
               /\ x5'[q].step = "record" => x5'[q].at \in x7'[FollowUp!Min(x5'[q].todo)]
    BY <1>0, <1>1, <1>2, <2>2 DEF FollowUpInv, FollowUp!Item
  <2>3. FollowUp!ContactsWereMade'
    BY <1>1 DEF FollowUpInv, FollowUp!ContactsWereMade, FollowUp!Items
  <2>4. ASSUME NEW j \in 1..N PROVE x4'[j] + Cardinality(Notifying(x5', j)) <= Cardinality(Actors)
    <3>1. IsFiniteSet(Notifying(x5, j)) /\ IsFiniteSet(Notifying(x5', j))
          /\ Notifying(x5', j) \subseteq Actors
      BY FollowUpConstants, FS_Subset DEF Notifying
    <3>2. Cardinality(Notifying(x5, j)) \in Nat /\ Cardinality(Notifying(x5', j)) \in Nat
          /\ Cardinality(Actors) \in Nat /\ x4[j] \in Nat /\ x4'[j] = x4[j]
      BY <1>0, <1>1, <3>1, FollowUpConstants, FS_CardinalityType
    <3>3. CASE j = i
      <4>1. Cardinality(Notifying(x5', j)) <= Cardinality(Actors)
        BY <3>1, FollowUpConstants, FS_Subset
      <4> QED BY <2>0, <3>2, <3>3, <4>1
    <3>4. CASE j # i
      <4>1. Notifying(x5', j) \subseteq Notifying(x5, j)
        BY <1>0, <1>1, <1>2, <3>4 DEF Notifying, FollowUp!Item, i
      <4>2. Cardinality(Notifying(x5', j)) <= Cardinality(Notifying(x5, j))
        BY <3>1, <4>1, FS_Subset
      <4> QED BY <3>2, <4>2 DEF FollowUpInv
    <3> QED BY <3>3, <3>4
  <2> QED BY <2>1, <2>2, <2>3, <2>4 DEF FollowUpInv, FollowUp!Item
<1> QED BY <1>3, <1>4

LEMMA RecordStep ==
  ASSUME FollowUpInv, NEW p \in Actors, FollowUp!Record(p)
  PROVE  FollowUpInv'
<1> DEFINE i == FollowUp!Item(p)
           at == x5[p].at
           next == FollowUp!CronNext(i, at)
<1>0. /\ x5 \in [Actors -> Follow \cup {Idle}] /\ FollowUp!TypeOK /\ x4 \in [1..N -> Nat]
      /\ x5[p] # Idle /\ x5[p].step = "record" /\ x7 \in [1..N -> SUBSET Nat] /\ x8 \in Nat
      /\ x2 \in [1..N -> Nat] /\ x3 \in [1..N -> Nat \cup {None}]
  BY DEF FollowUpInv, FollowUp!TypeOK, Follow, FollowUp!Items, FollowUp!Record, FollowUp!At
<1>1. i \in 1..N /\ x5[p] \in Follow /\ at \in Nat /\ at \in x7[i]
  BY <1>0, AtWork DEF Follow, FollowUpInv
<1>2. next = None \/ (next \in Nat /\ next > at)
  BY <1>1, FollowUpConstants DEF FollowUp!CronNext
<1>3. CASE next = None
  <2>1. x5' = [x5 EXCEPT ![p] = Idle] /\ UNCHANGED <<x1, x2, x3, x4, x6, x7, x8>>
    BY <1>3 DEF FollowUp!Record
  <2> QED BY <1>0, <2>1, SweepGoesOn
<1>4. CASE next # None
  <2>1. /\ x3' = [x3 EXCEPT ![i] = at] /\ x2' = [x2 EXCEPT ![i] = next]
        /\ FollowUp!Done(p) /\ UNCHANGED <<x1, x4, x6, x7, x8>>
    BY <1>4 DEF FollowUp!Record
  <2>2. PICK job \in Follow \cup {Idle} :
           /\ x5' = [x5 EXCEPT ![p] = job]
           /\ job # Idle => job.step = "draft" /\ job.todo # {}
    BY <1>0, <2>1, DoneGoesOn
  <2> HIDE DEF next, i, at
  <2>3. FollowUp!TypeOK'
    BY <1>0, <1>1, <1>2, <1>4, <2>1, <2>2 DEF FollowUp!TypeOK, Follow, FollowUp!Items
  <2>4. ASSUME NEW q \in Actors, x5'[q] # Idle
        PROVE  /\ x5'[q].todo # {}
               /\ x5'[q].step = "record" => x5'[q].at \in x7'[FollowUp!Min(x5'[q].todo)]
    BY <1>0, <2>1, <2>2, <2>4 DEF FollowUpInv, FollowUp!Item
  <2>5. FollowUp!ContactsWereMade'
    BY <1>0, <1>1, <1>2, <1>4, <2>1 DEF FollowUpInv, FollowUp!ContactsWereMade, FollowUp!Items
  <2>6. ASSUME NEW j \in 1..N PROVE x4'[j] + Cardinality(Notifying(x5', j)) <= Cardinality(Actors)
    <3>1. /\ Cardinality(Notifying(x5', j)) <= Cardinality(Notifying(x5, j))
          /\ Cardinality(Notifying(x5', j)) \in Nat /\ Cardinality(Notifying(x5, j)) \in Nat
      BY <1>0, <2>2, NotNotifying
    <3>2. x4'[j] = x4[j] /\ x4[j] \in Nat /\ Cardinality(Actors) \in Nat
          /\ x4[j] + Cardinality(Notifying(x5, j)) <= Cardinality(Actors)
      BY <1>0, <2>1, FollowUpConstants, FS_CardinalityType DEF FollowUpInv
    <3> QED BY <3>1, <3>2
  <2> QED BY <2>3, <2>4, <2>5, <2>6 DEF FollowUpInv, FollowUp!Item
<1> QED BY <1>3, <1>4

LEMMA FollowUpStep == FollowUpInv /\ [FollowUp!Next]_(FollowUp!vars) => FollowUpInv'
<1> SUFFICES ASSUME FollowUpInv, [FollowUp!Next]_(FollowUp!vars) PROVE FollowUpInv'
  OBVIOUS
<1>0. /\ x5 \in [Actors -> Follow \cup {Idle}] /\ FollowUp!TypeOK /\ x4 \in [1..N -> Nat]
      /\ x7 \in [1..N -> SUBSET Nat] /\ x8 \in Nat /\ x1 \in [1..N -> BOOLEAN] /\ x6 \in Nat
  BY DEF FollowUpInv, FollowUp!TypeOK, Follow, FollowUp!Items
<1>1. ASSUME NEW p \in Actors, FollowUp!Sweep(p)
      PROVE  FollowUpInv'
  <2>1. FollowUp!DueFollowUps(x6) \in SUBSET (1..N)
    BY DEF FollowUp!DueFollowUps, FollowUp!Items
  <2> QED BY <1>1, <2>1, SweepBegins DEF FollowUp!Sweep
<1>2. ASSUME NEW p \in Actors, NEW i \in 1..N, FollowUp!SweepItem(p, i)
      PROVE  FollowUpInv'
  <2>1. {i} \in SUBSET (1..N)
    OBVIOUS
  <2> QED BY <1>2, <2>1, SweepBegins DEF FollowUp!SweepItem
<1>3. ASSUME NEW p \in Actors, FollowUp!Send(p)
      PROVE  FollowUpInv'
  <2> DEFINE i == FollowUp!Item(p)
             job == [x5[p] EXCEPT !.step = "record"]
  <2>1. /\ x5[p] # Idle /\ x5' = [x5 EXCEPT ![p] = job]
        /\ x7' = [x7 EXCEPT ![i] = x7[i] \cup {x5[p].at}] /\ UNCHANGED <<x1, x2, x3, x4, x6, x8>>
    BY <1>3 DEF FollowUp!Send, FollowUp!Step, FollowUp!rows, FollowUp!At
  <2>2. /\ job \in Follow /\ job.todo = x5[p].todo /\ job.step = "record" /\ job.at = x5[p].at
        /\ job.todo # {} /\ i \in 1..N /\ x5[p].at \in Nat /\ i = FollowUp!Min(job.todo)
    BY <2>1, AtWork DEF Follow, FollowUp!Item
  <2> HIDE DEF i, job
  <2>3. x7' \in [1..N -> SUBSET Nat] /\ (\A j \in 1..N : x7[j] \subseteq x7'[j]) /\ job.at \in x7'[i]
    BY <1>0, <2>1, <2>2
  <2> QED BY <1>0, <2>1, <2>2, <2>3, SweepGoesOn
<1>4. ASSUME NEW p \in Actors, FollowUp!NotSent(p)
      PROVE  FollowUpInv'
  <2>1. x5[p] # Idle /\ FollowUp!Done(p) /\ x8' = x8 + 1 /\ UNCHANGED <<x1, x2, x3, x4, x6, x7>>
    BY <1>4 DEF FollowUp!NotSent, FollowUp!At, FollowUp!rows
  <2>2. PICK job \in Follow \cup {Idle} :
           /\ x5' = [x5 EXCEPT ![p] = job]
           /\ job # Idle => job.step = "draft" /\ job.todo # {}
    BY <2>1, DoneGoesOn
  <2>3. x8' \in Nat
    BY <1>0, <2>1
  <2> QED BY <1>0, <2>1, <2>2, <2>3, SweepGoesOn
<1>5. ASSUME NEW p \in Actors, FollowUp!Cut(p)
      PROVE  FollowUpInv'
  <2>1. x5' = [x5 EXCEPT ![p] = Idle] /\ x8' = x8 + 1 /\ UNCHANGED <<x1, x2, x3, x4, x6, x7>>
    BY <1>5 DEF FollowUp!Cut, FollowUp!rows
  <2>2. x8' \in Nat
    BY <1>0, <2>1
  <2> QED BY <1>0, <2>1, <2>2, SweepGoesOn
<1>6. ASSUME NEW i \in 1..N, FollowUp!Acknowledge(i)
      PROVE  FollowUpInv'
  <2>1. x4[i] > 0 /\ x4' = [x4 EXCEPT ![i] = x4[i] - 1] /\ UNCHANGED <<x1, x2, x3, x5, x6, x7, x8>>
    BY <1>6 DEF FollowUp!Acknowledge
  <2>2. FollowUp!TypeOK'
    BY <1>0, <2>1 DEF FollowUp!TypeOK, FollowUp!Items
  <2>3. ASSUME NEW j \in 1..N PROVE x4'[j] + Cardinality(Notifying(x5', j)) <= Cardinality(Actors)
    <3>1. /\ Cardinality(Notifying(x5, j)) \in Nat /\ Cardinality(Actors) \in Nat
          /\ Notifying(x5', j) = Notifying(x5, j)
          /\ x4[j] + Cardinality(Notifying(x5, j)) <= Cardinality(Actors)
      <4>1. IsFiniteSet(Notifying(x5, j))
        BY FollowUpConstants, FS_Subset DEF Notifying
      <4> QED BY <2>1, <4>1, FollowUpConstants, FS_CardinalityType DEF FollowUpInv
    <3> QED BY <1>0, <2>1, <3>1
  <2> QED BY <2>1, <2>2, <2>3
      DEF FollowUpInv, FollowUp!ContactsWereMade, FollowUp!Items, FollowUp!Item
<1>7. ASSUME NEW i \in 1..N, FollowUp!Close(i)
      PROVE  FollowUpInv'
  <2>1. x1' = [x1 EXCEPT ![i] = FALSE] /\ UNCHANGED <<x2, x3, x4, x5, x6, x7, x8>>
    BY <1>7 DEF FollowUp!Close
  <2>2. FollowUp!TypeOK'
    BY <1>0, <2>1 DEF FollowUp!TypeOK, FollowUp!Items
  <2> QED BY <2>1, <2>2
      DEF FollowUpInv, FollowUp!ContactsWereMade, FollowUp!Items, FollowUp!Item
<1>8. CASE FollowUp!Advance
  <2>1. x6' = x6 + 1 /\ UNCHANGED <<x1, x2, x3, x4, x5, x7, x8>>
    BY <1>8 DEF FollowUp!Advance, FollowUp!rows
  <2>2. FollowUp!TypeOK'
    BY <1>0, <2>1 DEF FollowUp!TypeOK, FollowUp!Items
  <2> QED BY <2>1, <2>2
      DEF FollowUpInv, FollowUp!ContactsWereMade, FollowUp!Items, FollowUp!Item
<1>9. CASE UNCHANGED FollowUp!vars
  BY <1>9 DEF FollowUp!vars, FollowUp!rows, FollowUpInv, FollowUp!TypeOK,
              FollowUp!ContactsWereMade, FollowUp!Items, FollowUp!Item
<1> QED BY <1>1, <1>2, <1>3, <1>4, <1>5, <1>6, <1>7, <1>8, <1>9, NotifyStep, CheckStep, RecordStep
    DEF FollowUp!Next, FollowUp!Items

LEMMA FollowUpInvariant == Spec => [](service = "followups" => FollowUpInv)
<1> DEFINE Inv == service = "followups" => FollowUpInv
<1>1. Init => Inv
  BY FollowUpBegins DEF Init
<1>2. Inv /\ [Next]_vars => Inv'
  BY FollowUpStep DEF Next, vars, FollowUp!vars, FollowUp!rows
<1> QED BY <1>1, <1>2, PTL DEF Spec

(* A contact on record was made by a sweep of that time, and its next date *)
(* is later; the pending notifications of an item, which overlapping runs  *)
(* of the skill look for and open in two calls, are no more than the runs. *)
THEOREM ContactsOnRecordWereMade == Spec => []FollowUpsWereMade
<1>1. ASSUME FollowUpInv PROVE FollowUp!EscalationsBounded
  <2>1. ASSUME NEW i \in 1..N PROVE x4[i] <= FollowUp!Cardinality(Actors)
    <3>1. FollowUp!Cardinality(Actors) = Cardinality(Actors)
      BY DEF FollowUp!Cardinality, Cardinality
    <3>2. IsFiniteSet(Notifying(x5, i))
      BY FollowUpConstants, FS_Subset DEF Notifying
    <3>3. /\ Cardinality(Notifying(x5, i)) \in Nat /\ Cardinality(Actors) \in Nat /\ x4[i] \in Nat
          /\ x4[i] + Cardinality(Notifying(x5, i)) <= Cardinality(Actors)
      BY <1>1, <3>2, FollowUpConstants, FS_CardinalityType
      DEF FollowUpInv, FollowUp!TypeOK, FollowUp!Items
    <3> QED BY <3>1, <3>3
  <2> QED BY <2>1 DEF FollowUp!EscalationsBounded, FollowUp!Items
<1>2. (service = "followups" => FollowUpInv) => FollowUpsWereMade
  BY <1>1 DEF FollowUpInv, FollowUpsWereMade
<1> QED BY <1>2, FollowUpInvariant, PTL

-----------------------------------------------------------------------------
(* Connections: x1 is status, x2 cursors, x3 lastSync, x4 failed,          *)
(* x5 posted, x6 landed, x7 sync, x8 probe, x9 clock, x10 disables.        *)

Channels == Sync!Channels

Job == [cursors: [Channels -> Nat], feed: 1..(Len(Feeds) + 1), chan: Nat,
        next: [Channels -> Nat], page: SUBSET Nat, below: Nat \cup {None}, error: BOOLEAN]

(* Every message up to w that is not noise is in the store. *)
Covered(c, w, store) == \A m \in (1..w) \ Noise : <<c, m>> \in store

Active(job) == ~job.error /\ job.feed <= Len(Feeds)

(* What a pull will return as its cursor is in the store, in the page at   *)
(* hand, or in the older pages to come.                                    *)
PullSound(job, store) ==
  \A c \in Channels : \A m \in (1..job.next[c]) \ Noise :
    \/ <<c, m>> \in store
    \/ c = Feeds[job.feed][job.chan] /\ m \in job.page
    \/ c = Feeds[job.feed][job.chan] /\ job.below # None /\ m <= job.below

SyncJobSound(job, store) ==
  /\ \A c \in Channels : Covered(c, job.cursors[c], store)
  /\ Active(job) => job.chan \in 1..Len(Feeds[job.feed]) /\ PullSound(job, store)

SyncInv ==
  /\ Sync!TypeOK /\ Sync!CursorNeverSkips
  /\ \A s \in Actors : x7[s] # Idle => SyncJobSound(x7[s], x6)

LEMMA SyncConstants ==
  /\ Feeds \in Seq(Seq(Channels)) /\ \A f \in 1..Len(Feeds) : Feeds[f] # <<>>
  /\ Page \in Nat \ {0} /\ Interval \in Nat /\ None \notin Nat
  /\ MaxPosts \in [Channels -> Nat] /\ MaxSyncs \in Nat /\ MaxDisables \in Nat
BY ServicesAssumption DEF Sync!ConnectionsAssumption, Channels

LEMMA SyncTypes ==
  ASSUME Sync!TypeOK
  PROVE  /\ x2 \in [Channels -> Nat] /\ x5 \in [Channels -> Nat] /\ x6 \subseteq Channels \X Nat
         /\ x7 \in [Actors -> Job \cup {Idle}]
BY DEF Sync!TypeOK, Job, Channels

LEMMA StoreGrows ==
  ASSUME NEW job, NEW S, NEW T, S \subseteq T, SyncJobSound(job, S)
  PROVE  SyncJobSound(job, T)
BY DEF SyncJobSound, Covered, PullSound

(* A step of one sync, which may land a message.                           *)
LEMMA JobMoves ==
  ASSUME SyncInv, NEW s \in Actors, NEW job \in Job \cup {Idle}, x7' = [x7 EXCEPT ![s] = job],
         x6 \subseteq x6', x6' \subseteq Channels \X Nat, job # Idle => SyncJobSound(job, x6'),
         UNCHANGED <<x1, x2, x3, x4, x5, x8, x9, x10>>
  PROVE  SyncInv'
<1>1. Sync!TypeOK /\ x7 \in [Actors -> Job \cup {Idle}]
  BY SyncTypes DEF SyncInv
<1>2. Sync!TypeOK'
  <2>1. x7' \in [Actors -> Job \cup {Idle}]
    BY <1>1
  <2> QED BY <1>1, <2>1 DEF Sync!TypeOK, Job, Channels
<1>3. Sync!CursorNeverSkips'
  BY DEF SyncInv, Sync!CursorNeverSkips
<1>4. ASSUME NEW q \in Actors, x7'[q] # Idle PROVE SyncJobSound(x7'[q], x6')
  <2>1. CASE q = s
    BY <1>1, <1>4, <2>1
  <2>2. CASE q # s
    <3>1. x7'[q] = x7[q] /\ SyncJobSound(x7[q], x6)
      BY <1>1, <1>4, <2>2 DEF SyncInv
    <3> QED BY <3>1, StoreGrows
  <2> QED BY <2>1, <2>2
<1> QED BY <1>2, <1>3, <1>4 DEF SyncInv

(* Everything else leaves cursors, store and syncs alone. *)
LEMMA RowMoves ==
  ASSUME SyncInv, Sync!TypeOK', UNCHANGED <<x2, x6, x7>>
  PROVE  SyncInv'
BY DEF SyncInv, Sync!CursorNeverSkips

-----------------------------------------------------------------------------
(* The greatest of a set of naturals with a bound, and what Max makes of it.*)
LEMMA Greatest ==
  ASSUME NEW S, NEW b \in Nat, S \subseteq 0..b, S # {}
  PROVE  \E x \in S : \A y \in S : y <= x
<1> DEFINE T == {b - x : x \in S}
<1>1. T \subseteq Nat /\ T # {}
  <2>1. \A x \in S : x \in 0..b
    OBVIOUS
  <2>2. \A x \in 0..b : b - x \in Nat
    OBVIOUS
  <2> QED BY <2>1, <2>2
<1>2. PICK d \in T : \A e \in T : d <= e
  BY <1>1, LeastNat
<1>3. PICK x \in S : d = b - x
  BY <1>2
<1>4. ASSUME NEW y \in S PROVE y <= x
  <2>1. d <= b - y /\ x \in 0..b /\ y \in 0..b
    BY <1>2
  <2> QED BY <1>3, <2>1
<1> QED BY <1>4

LEMMA MaxIsGreatest ==
  ASSUME NEW S, NEW b \in Nat, S \subseteq 0..b, S # {}
  PROVE  Sync!Max(S) \in S /\ \A y \in S : y <= Sync!Max(S)
<1>1. \E x \in S : \A y \in S : x >= y
  <2>1. PICK x \in S : \A y \in S : y <= x
    BY Greatest
  <2>2. \A y \in S : x >= y
    BY <2>1
  <2> QED BY <2>2
<1>2. Sync!Max(S) \in S /\ \A y \in S : Sync!Max(S) >= y
  BY <1>1 DEF Sync!Max
<1> QED BY <1>2

LEMMA MinIsLeast ==
  ASSUME NEW S, S \subseteq Nat, S # {}
  PROVE  Sync!Min(S) \in S /\ \A y \in S : Sync!Min(S) <= y
<1>1. \E x \in S : \A y \in S : x <= y
  BY LeastNat
<1> QED BY <1>1 DEF Sync!Min

(* A page of history: the newest messages of those above the watermark.    *)
LEMMA PageOfHistory ==
  ASSUME SyncInv, NEW s \in Actors, Sync!Pulling(s)
  PROVE  LET top == IF x7[s].below = None THEN x5[Sync!Chan(s)] ELSE x7[s].below
             all == {m \in 1..top : m > Sync!Watermark(s)}
             got == Sync!History(s)
         IN /\ top \in Nat /\ got \subseteq all /\ (all # {} => got # {})
            /\ \A m \in all, g \in got : m \notin got => m < g
<1> DEFINE top == IF x7[s].below = None THEN x5[Sync!Chan(s)] ELSE x7[s].below
           all == {m \in 1..top : m > Sync!Watermark(s)}
           Newer(m) == {n \in all : n > m}
           got == {m \in all : Cardinality(Newer(m)) < Page}
<1>1. x7[s] \in Job /\ Sync!Chan(s) \in Channels /\ x5 \in [Channels -> Nat]
  <2>1. x7[s] \in Job /\ x5 \in [Channels -> Nat]
    BY SyncTypes DEF SyncInv, Sync!Pulling
  <2>2. Active(x7[s]) /\ x7[s].feed \in 1..Len(Feeds)
    BY <2>1, SyncConstants DEF Sync!Pulling, Active, Job
  <2>3. x7[s].chan \in 1..Len(Feeds[x7[s].feed])
    BY <2>2 DEF SyncInv, SyncJobSound, Sync!Pulling
  <2>4. Feeds[x7[s].feed] \in Seq(Channels)
    BY <2>2, SyncConstants
  <2>5. Feeds[x7[s].feed][x7[s].chan] \in Channels
    BY <2>3, <2>4
  <2> QED BY <2>1, <2>5 DEF Sync!Chan
<1>2. top \in Nat
  BY <1>1 DEF Job
<1>3. Sync!History(s) = got
  <2>1. \A S : Sync!Cardinality(S) = Cardinality(S)
    BY DEF Sync!Cardinality, Cardinality
  <2> QED BY <2>1 DEF Sync!History
<1> HIDE DEF top
<1>4. IsFiniteSet(all) /\ all \subseteq 0..top /\ all \subseteq Nat
  <2>1. IsFiniteSet(1..top)
    BY <1>2, FS_Interval
  <2>2. all \subseteq 1..top
    OBVIOUS
  <2> QED BY <1>2, <2>1, <2>2, FS_Subset
<1> HIDE DEF all
<1>5. \A m : IsFiniteSet(Newer(m)) /\ Cardinality(Newer(m)) \in Nat
  BY <1>4, FS_Subset, FS_CardinalityType
<1>6. ASSUME all # {} PROVE got # {}
  <2>1. PICK m \in all : \A n \in all : n <= m
    BY <1>2, <1>4, <1>6, Greatest
  <2>2. Newer(m) = {}
    <3>1. \A n \in all : n \in Nat /\ m \in Nat /\ n <= m
      BY <1>4, <2>1
    <3>2. \A n \in all : ~(n > m)
      BY <3>1
    <3> QED BY <3>2
  <2>3. Cardinality(Newer(m)) = 0
    BY <2>2, FS_EmptySet
  <2> HIDE DEF Newer
  <2>4. m \in got
    BY <2>3, SyncConstants
  <2> QED BY <2>4
<1>7. ASSUME NEW m \in all, NEW g \in got, m \notin got PROVE m < g
  <2>1. SUFFICES ASSUME m >= g PROVE FALSE
    BY <1>4, <1>7
  <2>2. Newer(m) \subseteq Newer(g)
    <3>1. \A n \in all : n \in Nat /\ m \in Nat /\ g \in Nat
      BY <1>4
    <3>2. \A n \in all : n > m => n > g
      BY <2>1, <3>1
    <3> QED BY <3>2
  <2>3. Cardinality(Newer(m)) <= Cardinality(Newer(g))
    BY <1>5, <2>2, FS_Subset
  <2>4. Cardinality(Newer(g)) < Page /\ ~(Cardinality(Newer(m)) < Page)
    BY <1>7
  <2> HIDE DEF Newer
  <2> QED BY <1>5, <2>3, <2>4, SyncConstants
<1> HIDE DEF got
<1>8. got \subseteq all
  BY DEF got
<1> QED BY <1>2, <1>3, <1>6, <1>7, <1>8 DEF top, all

(* The sync in progress at s, while it pulls. *)
LEMMA PullingAt ==
  ASSUME SyncInv, NEW s \in Actors, Sync!Pulling(s)
  PROVE  /\ x7 \in [Actors -> Job \cup {Idle}] /\ x7[s] \in Job /\ Active(x7[s])
         /\ SyncJobSound(x7[s], x6) /\ x7[s].chan \in 1..Len(Feeds[x7[s].feed])
         /\ Sync!Chan(s) \in Channels /\ Sync!Chan(s) = Feeds[x7[s].feed][x7[s].chan]
         /\ x7[s].feed \in 1..Len(Feeds) /\ Len(Feeds[x7[s].feed]) \in Nat
<1>1. x7 \in [Actors -> Job \cup {Idle}] /\ x7[s] \in Job /\ x7[s] # Idle
  BY SyncTypes DEF SyncInv, Sync!Pulling
<1>2. Active(x7[s]) /\ x7[s].feed \in 1..Len(Feeds)
  BY <1>1, SyncConstants DEF Sync!Pulling, Active, Job
<1>3. SyncJobSound(x7[s], x6)
  BY <1>1 DEF SyncInv
<1>4. x7[s].chan \in 1..Len(Feeds[x7[s].feed]) /\ Feeds[x7[s].feed] \in Seq(Channels)
  BY <1>2, <1>3, SyncConstants DEF SyncJobSound
<1>5. Feeds[x7[s].feed][x7[s].chan] \in Channels
  BY <1>4
<1> QED BY <1>1, <1>2, <1>3, <1>4, <1>5 DEF Sync!Chan

(* A job that begins with feed f, of cursors that are covered, is sound.   *)
LEMMA FeedBegins ==
  ASSUME NEW job \in Job, NEW f \in 1..(Len(Feeds) + 1), NEW store,
         \A c \in Channels : Covered(c, job.cursors[c], store)
  PROVE  Sync!StartFeed(job, f) \in Job /\ SyncJobSound(Sync!StartFeed(job, f), store)
<1> DEFINE new == Sync!StartFeed(job, f)
<1>1. /\ new \in Job /\ new.feed = f /\ new.chan = 1 /\ new.next = job.cursors
      /\ new.cursors = job.cursors /\ new.below = None
  BY DEF Sync!StartFeed, Job
<1> HIDE DEF new
<1>2. PullSound(new, store)
  BY <1>1 DEF PullSound, Covered
<1>3. Active(new) => 1 \in 1..Len(Feeds[f])
  <2>1. SUFFICES ASSUME Active(new) PROVE 1 \in 1..Len(Feeds[f])
    OBVIOUS
  <2>2. f \in 1..Len(Feeds)
    BY <1>1, <2>1, SyncConstants DEF Active
  <2>3. Feeds[f] \in Seq(Channels) /\ Feeds[f] # <<>>
    BY <2>2, SyncConstants
  <2> QED BY <2>3
<1>4. SyncJobSound(new, store)
  BY <1>1, <1>2, <1>3 DEF SyncJobSound
<1> QED BY <1>1, <1>4 DEF new

LEMMA StartSyncStep ==
  ASSUME SyncInv, NEW s \in Actors, Sync!StartSync(s)
  PROVE  SyncInv'
<1> DEFINE blank == [cursors |-> x2, feed |-> 1, chan |-> 1, next |-> x2, page |-> {},
                     below |-> None, error |-> FALSE]
           job == Sync!StartFeed(blank, 1)
<1>1. blank \in Job /\ 1 \in 1..(Len(Feeds) + 1) /\ blank.cursors = x2
  BY SyncTypes, SyncConstants DEF SyncInv, Job
<1>2. \A c \in Channels : Covered(c, x2[c], x6)
  BY DEF SyncInv, Sync!CursorNeverSkips, Covered, Channels
<1>3. x7' = [x7 EXCEPT ![s] = job] /\ UNCHANGED <<x1, x2, x3, x4, x5, x6, x8, x9, x10>>
  BY DEF Sync!StartSync, Sync!row
<1> HIDE DEF blank
<1>4. job \in Job /\ SyncJobSound(job, x6)
  BY <1>1, <1>2, FeedBegins
<1>5. x6 \subseteq Channels \X Nat
  BY SyncTypes DEF SyncInv
<1> HIDE DEF job
<1> QED BY <1>3, <1>4, <1>5, JobMoves

LEMMA FetchStep ==
  ASSUME SyncInv, NEW s \in Actors, Sync!FetchPage(s)
  PROVE  SyncInv'
<1> DEFINE old == x7[s]
           c == Sync!Chan(s)
           got == Sync!History(s)
           top == IF old.below = None THEN x5[c] ELSE old.below
           all == {m \in 1..top : m > Sync!Watermark(s)}
           high == Sync!Max(got \cup {old.next[c]})
           low == IF got = {} THEN 0 ELSE Sync!Min(got) - 1
           job == [old EXCEPT !.page = got \ Noise, !.below = low, !.next[c] = high]
<1>0. Sync!Pulling(s) /\ old.page = {} /\ x6 \subseteq Channels \X Nat
  BY SyncTypes DEF SyncInv, Sync!FetchPage
<1>1. /\ x7 \in [Actors -> Job \cup {Idle}] /\ old \in Job /\ Active(old) /\ SyncJobSound(old, x6)
      /\ old.chan \in 1..Len(Feeds[old.feed]) /\ c \in Channels
      /\ c = Feeds[old.feed][old.chan]
  BY <1>0, PullingAt
<1>2. /\ top \in Nat /\ got \subseteq all /\ (all # {} => got # {})
      /\ \A m \in all, g \in got : m \notin got => m < g
  BY <1>0, PageOfHistory
<1>3. x7' = [x7 EXCEPT ![s] = job] /\ UNCHANGED <<x1, x2, x3, x4, x5, x6, x8, x9, x10>>
  BY DEF Sync!FetchPage, Sync!row
<1>4. old.next \in [Channels -> Nat] /\ old.cursors \in [Channels -> Nat]
      /\ old.below \in Nat \cup {None} /\ Sync!Watermark(s) = old.cursors[c]
  BY <1>1 DEF Job, Sync!Watermark
<1> HIDE DEF got, top
<1>5. got \subseteq Nat /\ got \subseteq 0..top
  BY <1>2
<1>6. high \in got \cup {old.next[c]} /\ high >= old.next[c] /\ high \in Nat
  <2> DEFINE n == old.next[c]
             S == got \cup {n}
             b == top + n
  <2>0. n \in Nat
    BY <1>1, <1>4
  <2> HIDE DEF n
  <2>1. b \in Nat /\ S \subseteq 0..b /\ S # {}
    <3>1. 0..top \subseteq 0..b /\ n \in 0..b /\ b \in Nat
      BY <1>2, <2>0
    <3> HIDE DEF b
    <3> QED BY <1>5, <3>1
  <2> HIDE DEF S, b
  <2>2. Sync!Max(S) \in S /\ \A y \in S : y <= Sync!Max(S)
    BY <2>1, MaxIsGreatest
  <2> QED BY <1>5, <2>0, <2>2 DEF S, n
<1>a. all \subseteq 1..top /\ 1..top \subseteq Nat
  BY <1>2
<1> HIDE DEF all
<1>7. low \in Nat /\ (\A m \in all \ got : m <= low) /\ (got = {} => all = {})
  <2>1. CASE got = {}
    BY <1>2, <2>1
  <2>2. CASE got # {}
    <3>1. Sync!Min(got) \in got
      BY <1>5, <2>2, MinIsLeast
    <3>2. Sync!Min(got) \in 1..top
      BY <1>2, <1>a, <3>1
    <3>3. \A m \in all \ got : m < Sync!Min(got) /\ m \in Nat
      BY <1>2, <1>a, <3>1
    <3>4. \A m \in all \ got : m <= Sync!Min(got) - 1
      BY <3>2, <3>3
    <3>5. Sync!Min(got) - 1 \in Nat
      BY <1>2, <3>2
    <3> QED BY <1>2, <2>2, <3>4, <3>5
  <2> QED BY <2>1, <2>2
<1> HIDE DEF high, low, c
<1>8. /\ job \in Job /\ job.page = got \ Noise /\ job.below = low /\ job.cursors = old.cursors
      /\ job.next = [old.next EXCEPT ![c] = high] /\ job.feed = old.feed
      /\ job.chan = old.chan /\ job.error = old.error
  <2>1. [old.next EXCEPT ![c] = high] \in [Channels -> Nat]
    BY <1>1, <1>4, <1>6
  <2>2. job = [old EXCEPT !.page = got \ Noise, !.below = low,
                          !.next = [old.next EXCEPT ![c] = high]]
    BY <1>1 DEF Job
  <2> DEFINE next == [old.next EXCEPT ![c] = high]
  <2> HIDE DEF job, next
  <2> QED BY <1>1, <1>5, <1>7, <2>1, <2>2 DEF Job, next
<1> HIDE DEF job
<1>9. PullSound(job, x6)
  <2>1. SUFFICES ASSUME NEW d \in Channels, NEW m \in (1..job.next[d]) \ Noise
                 PROVE  \/ <<d, m>> \in x6
                        \/ d = c /\ m \in job.page
                        \/ d = c /\ job.below # None /\ m <= job.below
    BY <1>1, <1>8 DEF PullSound
  <2>2. CASE d # c
    <3>1. job.next[d] = old.next[d]
      BY <1>4, <1>8, <2>2
    <3> QED BY <1>1, <2>1, <2>2, <3>1 DEF SyncJobSound, PullSound
  <2>3. CASE d = c
    <3>1. m \in Nat /\ m >= 1 /\ m <= high /\ m \notin Noise
      BY <1>4, <1>6, <1>8, <2>1, <2>3
    <3>2. CASE m <= old.cursors[c]
      <4>1. m \in (1..old.cursors[c]) \ Noise
        BY <1>1, <1>4, <3>1, <3>2
      <4> QED BY <1>1, <2>3, <4>1 DEF SyncJobSound, Covered
    <3>3. CASE m > old.cursors[c] /\ m <= top
      <4>1. m \in all
        BY <1>2, <1>4, <3>1, <3>3 DEF all
      <4>2. m \in got \/ m <= low
        BY <1>7, <4>1
      <4>3. low # None
        BY <1>7, SyncConstants
      <4> QED BY <1>8, <2>3, <3>1, <4>2, <4>3
    <3>4. CASE m > top
      <4>1. high \notin got
        BY <1>2, <1>5, <1>6, <3>1, <3>4
      <4>2. m \in (1..old.next[c]) \ Noise
        BY <1>1, <1>4, <1>6, <3>1, <4>1
      <4>3. \/ <<c, m>> \in x6
            \/ old.below # None /\ m <= old.below
        BY <1>0, <1>1, <4>2 DEF SyncJobSound, PullSound
      <4>4. old.below # None => top = old.below
        BY DEF top
      <4> QED BY <1>2, <2>3, <3>1, <3>4, <4>3, <4>4
    <3> QED BY <1>1, <1>2, <1>4, <3>1, <3>2, <3>3, <3>4
  <2> QED BY <2>2, <2>3
<1>10. SyncJobSound(job, x6)
  BY <1>1, <1>8, <1>9 DEF SyncJobSound
<1> QED BY <1>0, <1>3, <1>8, <1>10, JobMoves

LEMMA SyncThrowStep ==
  ASSUME SyncInv, NEW s \in Actors, Sync!FeedThrows(s)
  PROVE  SyncInv'
<1> DEFINE job == [x7[s] EXCEPT !.error = TRUE]
<1>1. /\ x7 \in [Actors -> Job \cup {Idle}] /\ x7[s] \in Job /\ SyncJobSound(x7[s], x6)
      /\ x6 \subseteq Channels \X Nat
  BY PullingAt, SyncTypes DEF Sync!FeedThrows, SyncInv
<1>2. job \in Job /\ SyncJobSound(job, x6)
  BY <1>1 DEF Job, SyncJobSound, Active
<1>3. x7' = [x7 EXCEPT ![s] = job] /\ UNCHANGED <<x1, x2, x3, x4, x5, x6, x8, x9, x10>>
  BY <1>1 DEF Sync!FeedThrows, Sync!row
<1> HIDE DEF job
<1> QED BY <1>1, <1>2, <1>3, JobMoves

LEMMA IngestStep ==
  ASSUME SyncInv, NEW s \in Actors, Sync!Ingest(s)
  PROVE  SyncInv'
<1> DEFINE old == x7[s]
           c == Sync!Chan(s)
           m == Sync!Min(old.page)
           failed == [old EXCEPT !.error = TRUE]
           job == [old EXCEPT !.page = old.page \ {m}]
<1>0. Sync!Pulling(s) /\ old.page # {} /\ x6 \subseteq Channels \X Nat
  BY SyncTypes DEF SyncInv, Sync!Ingest
<1>1. /\ x7 \in [Actors -> Job \cup {Idle}] /\ old \in Job /\ Active(old) /\ SyncJobSound(old, x6)
      /\ old.chan \in 1..Len(Feeds[old.feed]) /\ c \in Channels
      /\ c = Feeds[old.feed][old.chan]
  BY <1>0, PullingAt
<1>2. m \in Nat
  BY <1>0, <1>1, MinIsLeast DEF Job
<1>3. CASE <<c, m>> \in x6
  <2>1. failed \in Job /\ SyncJobSound(failed, x6)
    BY <1>1 DEF Job, SyncJobSound, Active
  <2>2. x7' = [x7 EXCEPT ![s] = failed] /\ UNCHANGED <<x1, x2, x3, x4, x5, x6, x8, x9, x10>>
    BY <1>1, <1>3 DEF Sync!Ingest, Sync!row
  <2> HIDE DEF failed
  <2> QED BY <1>0, <2>1, <2>2, JobMoves
<1>4. CASE <<c, m>> \notin x6
  <2>1. /\ x7' = [x7 EXCEPT ![s] = job] /\ x6' = x6 \cup {<<c, m>>}
        /\ UNCHANGED <<x1, x2, x3, x4, x5, x8, x9, x10>>
    BY <1>1, <1>4 DEF Sync!Ingest, Sync!row
  <2> HIDE DEF m, c
  <2>2. /\ job \in Job /\ job.page = old.page \ {m} /\ job.cursors = old.cursors
        /\ job.next = old.next /\ job.feed = old.feed /\ job.chan = old.chan
        /\ job.below = old.below /\ job.error = old.error
    BY <1>1 DEF Job
  <2> HIDE DEF job
  <2>3. PullSound(job, x6')
    <3>1. PullSound(old, x6)
      BY <1>1 DEF SyncJobSound
    <3> QED BY <1>1, <2>1, <2>2, <3>1 DEF PullSound
  <2>4. SyncJobSound(job, x6')
    BY <1>1, <2>1, <2>2, <2>3 DEF SyncJobSound, Covered
  <2>5. x6' \subseteq Channels \X Nat /\ x6 \subseteq x6'
    BY <1>0, <1>1, <1>2, <2>1
  <2> QED BY <2>1, <2>2, <2>4, <2>5, JobMoves
<1> QED BY <1>3, <1>4

LEMMA NextChannelStep ==
  ASSUME SyncInv, NEW s \in Actors, Sync!NextChannel(s)
  PROVE  SyncInv'
<1> DEFINE old == x7[s]
           c == Sync!Chan(s)
           same == [old EXCEPT !.chan = old.chan + 1, !.below = None]
           done == [old EXCEPT !.cursors = old.next]
           other == Sync!StartFeed(done, old.feed + 1)
<1>0. /\ Sync!Pulling(s) /\ old.page = {} /\ x6 \subseteq Channels \X Nat
      /\ old.below # None /\ old.below <= old.cursors[c]
  BY SyncTypes DEF SyncInv, Sync!NextChannel, Sync!Paged, Sync!Watermark
<1>1. /\ x7 \in [Actors -> Job \cup {Idle}] /\ old \in Job /\ Active(old) /\ SyncJobSound(old, x6)
      /\ old.chan \in 1..Len(Feeds[old.feed]) /\ c \in Channels
      /\ c = Feeds[old.feed][old.chan] /\ old.feed \in 1..Len(Feeds) /\ Len(Feeds[old.feed]) \in Nat
  BY <1>0, PullingAt
<1>2. old.next \in [Channels -> Nat] /\ old.cursors \in [Channels -> Nat] /\ old.below \in Nat
  BY <1>0, <1>1 DEF Job
<1>3. \A d \in Channels : Covered(d, old.next[d], x6)
  <2>1. SUFFICES ASSUME NEW d \in Channels, NEW m \in (1..old.next[d]) \ Noise
                 PROVE  <<d, m>> \in x6
    BY DEF Covered
  <2>2. <<d, m>> \in x6 \/ (d = c /\ m <= old.below)
    BY <1>0, <1>1 DEF SyncJobSound, PullSound
  <2>3. CASE d = c /\ m <= old.below
    <3>1. m \in (1..old.cursors[c]) \ Noise
      BY <1>0, <1>1, <1>2, <2>3
    <3> QED BY <1>1, <2>3, <3>1 DEF SyncJobSound, Covered
  <2> QED BY <2>2, <2>3
<1>4. CASE old.chan < Len(Feeds[old.feed])
  <2>1. /\ same \in Job /\ same.page = {} /\ same.cursors = old.cursors /\ same.next = old.next
        /\ same.feed = old.feed /\ same.chan = old.chan + 1 /\ same.error = old.error
    <3> DEFINE k == old.chan + 1
    <3>1. k \in Nat
      BY <1>1 DEF Job
    <3> HIDE DEF k
    <3>2. same = [old EXCEPT !.chan = k, !.below = None]
      BY DEF k
    <3> HIDE DEF same
    <3>3. /\ same \in Job /\ same.page = old.page /\ same.cursors = old.cursors
          /\ same.next = old.next /\ same.feed = old.feed /\ same.chan = k
          /\ same.error = old.error
      BY <1>1, <3>1, <3>2 DEF Job
    <3> QED BY <1>0, <3>3 DEF k
  <2>2. x7' = [x7 EXCEPT ![s] = same] /\ UNCHANGED <<x1, x2, x3, x4, x5, x6, x8, x9, x10>>
    BY <1>4 DEF Sync!NextChannel, Sync!row
  <2> HIDE DEF same
  <2>3. PullSound(same, x6)
    BY <1>3, <2>1 DEF PullSound, Covered
  <2>4. same.chan \in 1..Len(Feeds[same.feed])
    BY <1>1, <1>4, <2>1
  <2>5. SyncJobSound(same, x6)
    BY <1>1, <2>1, <2>3, <2>4 DEF SyncJobSound
  <2> QED BY <1>0, <2>1, <2>2, <2>5, JobMoves
<1>5. CASE ~(old.chan < Len(Feeds[old.feed]))
  <2>1. done \in Job /\ done.cursors = old.next
    BY <1>1, <1>2 DEF Job
  <2>2. x7' = [x7 EXCEPT ![s] = other] /\ UNCHANGED <<x1, x2, x3, x4, x5, x6, x8, x9, x10>>
    BY <1>5 DEF Sync!NextChannel, Sync!row
  <2>3. old.feed + 1 \in 1..(Len(Feeds) + 1)
    BY <1>1, SyncConstants
  <2> HIDE DEF done
  <2>4. other \in Job /\ SyncJobSound(other, x6)
    BY <1>3, <2>1, <2>3, FeedBegins
  <2> HIDE DEF other
  <2> QED BY <1>0, <2>2, <2>4, JobMoves
<1> QED BY <1>4, <1>5

LEMMA FinishStep ==
  ASSUME SyncInv, NEW s \in Actors, Sync!FinishSync(s)
  PROVE  SyncInv'
<1>1. /\ x7[s] # Idle /\ x2' = x7[s].cursors /\ x3' = x9 /\ x4' = x7[s].error
      /\ x1' = (IF ~x7[s].error THEN "healthy" ELSE "degraded")
      /\ x7' = [x7 EXCEPT ![s] = Idle] /\ UNCHANGED <<x5, x6, x8, x9, x10>>
  BY DEF Sync!FinishSync, Sync!ApplyHealthOutcome
<1>2. x7 \in [Actors -> Job \cup {Idle}] /\ x7[s] \in Job /\ SyncJobSound(x7[s], x6) /\ Sync!TypeOK
  BY <1>1, SyncTypes DEF SyncInv
<1>3. Sync!TypeOK'
  <2>1. x7' \in [Actors -> Job \cup {Idle}] /\ x2' \in [Channels -> Nat] /\ x4' \in BOOLEAN
    BY <1>1, <1>2 DEF Job
  <2> QED BY <1>1, <1>2, <2>1 DEF Sync!TypeOK, Job, Channels
<1>4. Sync!CursorNeverSkips'
  BY <1>1, <1>2 DEF SyncJobSound, Covered, Sync!CursorNeverSkips, Channels
<1>5. \A q \in Actors : x7'[q] # Idle => SyncJobSound(x7'[q], x6')
  BY <1>1, <1>2 DEF SyncInv
<1> QED BY <1>3, <1>4, <1>5 DEF SyncInv

LEMMA SyncStep == SyncInv /\ [Sync!Next]_(Sync!vars) => SyncInv'
<1> SUFFICES ASSUME SyncInv, [Sync!Next]_(Sync!vars) PROVE SyncInv'
  OBVIOUS
<1>0. /\ Sync!TypeOK /\ x7 \in [Actors -> Job \cup {Idle}] /\ x6 \subseteq Channels \X Nat
      /\ x5 \in [Channels -> Nat] /\ x9 \in Nat
  BY SyncTypes DEF SyncInv, Sync!TypeOK
<1>1. ASSUME NEW s \in Actors, Sync!Crash(s) PROVE SyncInv'
  <2>1. x7' = [x7 EXCEPT ![s] = Idle] /\ UNCHANGED <<x1, x2, x3, x4, x5, x6, x8, x9, x10>>
    BY <1>1 DEF Sync!Crash, Sync!row
  <2> QED BY <1>0, <2>1, JobMoves
<1>2. ASSUME NEW p \in Probes, Sync!StartProbe(p) \/ Sync!FinishProbe(p) PROVE SyncInv'
  <2>1. Sync!TypeOK' /\ UNCHANGED <<x2, x6, x7>>
    BY <1>0, <1>2
    DEF Sync!StartProbe, Sync!FinishProbe, Sync!ApplyHealthOutcome, Sync!row, Sync!TypeOK
  <2> QED BY <2>1, RowMoves
<1>3. ASSUME NEW c \in Sync!Channels, Sync!Post(c) PROVE SyncInv'
  <2>1. Sync!TypeOK' /\ UNCHANGED <<x2, x6, x7>>
    BY <1>0, <1>3 DEF Sync!Post, Sync!row, Sync!TypeOK
  <2> QED BY <2>1, RowMoves
<1>4. CASE Sync!Disable
  <2>1. Sync!TypeOK' /\ UNCHANGED <<x2, x6, x7>>
    BY <1>0, <1>4 DEF Sync!Disable, Sync!TypeOK
  <2> QED BY <2>1, RowMoves
<1>5. CASE Sync!Advance
  <2>1. Sync!TypeOK' /\ UNCHANGED <<x2, x6, x7>>
    BY <1>0, <1>5 DEF Sync!Advance, Sync!row, Sync!TypeOK
  <2> QED BY <2>1, RowMoves
<1>6. CASE UNCHANGED Sync!vars
  <2>1. Sync!TypeOK' /\ UNCHANGED <<x2, x6, x7>>
    BY <1>0, <1>6 DEF Sync!vars, Sync!row, Sync!TypeOK
  <2> QED BY <2>1, RowMoves
<1> QED BY <1>1, <1>2, <1>3, <1>4, <1>5, <1>6, StartSyncStep, FetchStep, SyncThrowStep,
          IngestStep, NextChannelStep, FinishStep
    DEF Sync!Next

LEMMA SyncInvariant == Spec => [](service = "sync" => SyncInv)
<1> DEFINE Inv == service = "sync" => SyncInv
<1>1. Init => Inv
  <2>1. ASSUME Sync!Init PROVE SyncInv
    <3>1. Sync!TypeOK
      BY <2>1, SyncConstants DEF Sync!Init, Sync!TypeOK
    <3>2. Sync!CursorNeverSkips
      BY <2>1 DEF Sync!Init, Sync!CursorNeverSkips
    <3> QED BY <2>1, <3>1, <3>2 DEF Sync!Init, SyncInv
  <2> QED BY <2>1 DEF Init
<1>2. Inv /\ [Next]_vars => Inv'
  BY SyncStep DEF Next, vars, Sync!vars, Sync!row
<1> QED BY <1>1, <1>2, PTL DEF Spec

(* No watermark of a feed passes a message that is not in the store,       *)
(* although Slack pages a channel from its newest message to its oldest    *)
(* while people post, feeds throw half way and orchestrators overwrite one *)
(* another's cursors (connections/sync.ts, connectors/slack/src/sync.ts).  *)
THEOREM WatermarksSkipNothing == Spec => []CursorNeverSkips
<1>1. (service = "sync" => SyncInv) => CursorNeverSkips
  BY DEF SyncInv, CursorNeverSkips
<1> QED BY <1>1, SyncInvariant, PTL

-----------------------------------------------------------------------------
(* The context store: x1 is blob, x2 doc, x3 degree, x4 links, x5 events,  *)
(* x6 req, x7 answered, x8 ops.                                            *)

(* A distilled answer gives every contact a degree.                        *)
Sensible(a) ==
  /\ a \in Context!Parsed
  /\ \A i \in DOMAIN a.entities : a.entities[i].key \in Contacts => a.entities[i].degree # None

Graded == \A k \in DOMAIN x3 : k \in Contacts => x3[k] # None

(* Events are announced once, of what is in the store.                     *)
Happened(e) ==
  \/ \E b \in Contents : e = <<"blob.created", b>> /\ x1[b] # None
  \/ \E d \in Docs : e = <<"doc.created", d>> /\ x2[d] # None
  \/ \E d \in Docs : e = <<"doc.distilled", d>> /\ x2[d] # None /\ x2[d].summary
  \/ \E k \in DOMAIN x3 : e = <<"entity.created", k>>

EventsSound == \A e \in DOMAIN x5 : x5[e] = 1 /\ Happened(e)

(* A search keeps to documents that were no prospect material when it      *)
(* began, and an introduction to entities as they still are.               *)
InNetwork(x, out) ==
  \/ \E d \in Docs \ out : x = <<"doc", d>>
  \/ x \in DOMAIN x3 /\ x3[x] # 2 /\ (x \in Contacts => x3[x] = 1)

Leads(p, target) ==
  /\ p[1] \in DOMAIN x3 /\ x3[p[1]] = 1 /\ p[Len(p)] = target
  /\ \A n \in 2..(Len(p) - 1) : p[n] \in DOMAIN x3 /\ x3[p[n]] # 2
  /\ \A n \in 1..(Len(p) - 1) : \E l \in x4 : {l.from, l.to} = {p[n], p[n + 1]}

AnswerSound(r) ==
  /\ r[1] = "blob" => r[2] \in Contents /\ x1[r[2]] # None /\ x1[r[2]] = r[3]
  /\ r[1] = "search" /\ r[2] = "network" => \A i \in DOMAIN r[4] : InNetwork(r[4][i], r[3])
  /\ r[1] = "paths" => \A i \in DOMAIN r[3] : Leads(r[3][i], r[2])

Outside(s, out) == s \in Seq(Docs \ out)

RequestSound(r) ==
  /\ r.op = "put" => r.body \in Contents
  /\ r.op = "ingest" => r.doc \in Docs /\ r.body \in Contents
  /\ r.op = "distill" =>
       r.doc \in Docs /\ x2[r.doc] # None /\ (r.at = "write" => Sensible(r.answer))
  /\ r.op = "search" =>
       /\ r.audience \in Audiences
       /\ r.fts \in Seq(Docs) /\ (r.at = "entities" => r.vector \in Seq(Docs))
       /\ r.out \subseteq Context!ProspectDocs
       /\ r.audience = "network" =>
            Outside(r.fts, r.out) /\ (r.at = "entities" => Outside(r.vector, r.out))
  /\ r.op = "paths" =>
       DOMAIN r.nodes \subseteq DOMAIN x3 /\ \A k \in DOMAIN r.nodes : r.nodes[k] = x3[k]

RequestsSound ==
  /\ x6 = [c \in Actors |-> x6[c]]
  /\ \A c \in Actors : x6[c] # Idle => RequestSound(x6[c])

AnswersSound == \A r \in x7 : AnswerSound(r)

ContextInv ==
  Context!TypeOK /\ Graded /\ EventsSound /\ RequestsSound /\ AnswersSound

(* Nothing is removed from the store, and what is graded keeps its degree. *)
Grows ==
  /\ \A b \in Contents : x1[b] # None => x1'[b] = x1[b]
  /\ \A d \in Docs : x2[d] # None => x2'[d] # None /\ (x2[d].summary => x2'[d].summary)
  /\ DOMAIN x3 \subseteq DOMAIN x3' /\ \A k \in DOMAIN x3 : x3'[k] = x3[k]
  /\ x4 \subseteq x4'

LEMMA ContextConstants ==
  /\ IsFiniteSet(Docs) /\ IsFiniteSet(Entities) /\ Contacts \subseteq Entities
  /\ \A d \in Docs : <<"doc", d>> \notin Entities
  /\ None \notin Actors /\ None \notin Context!DocRows /\ None \notin {1, 2}
  /\ AnswersLlm \subseteq Context!Parsed
  /\ ArmLimit \in Nat /\ SearchLimit \in Nat /\ MaxPaths \in Nat /\ MaxOps \in Nat
BY ServicesAssumption DEF Context!ContextAssumption, Context!IsFiniteSet, IsFiniteSet

(* The store only grows, so what was read and answered stays sound. *)
LEMMA ProspectsStay == ASSUME Grows PROVE Context!ProspectDocs \subseteq Context!ProspectDocs'
<1> SUFFICES ASSUME NEW d \in Context!ProspectDocs PROVE d \in Context!ProspectDocs'
  OBVIOUS
<1>1. d \in Docs /\ x2'[d] # None
  BY DEF Context!ProspectDocs, Context!Ingested, Grows
<1>2. PICK l \in x4 : /\ <<"doc", d>> \in {l.from, l.to}
                      /\ \E k \in {l.from, l.to} \cap DOMAIN x3 : x3[k] = 2
  BY DEF Context!ProspectDocs
<1>3. PICK k \in {l.from, l.to} \cap DOMAIN x3 : x3[k] = 2
  BY <1>2
<1>4. l \in x4' /\ k \in DOMAIN x3' /\ x3'[k] = 2
  BY <1>3 DEF Grows
<1> QED BY <1>1, <1>2, <1>3, <1>4 DEF Context!ProspectDocs, Context!Ingested

LEMMA RequestStays == ASSUME Grows, NEW r, RequestSound(r) PROVE RequestSound(r)'
<1>1. r.op = "search" => r.out \subseteq Context!ProspectDocs'
  BY ProspectsStay DEF RequestSound
<1>2. r.op = "distill" =>
        r.doc \in Docs /\ x2'[r.doc] # None /\ (r.at = "write" => Sensible(r.answer)')
  BY DEF RequestSound, Grows, Sensible
<1>3. r.op = "paths" =>
        DOMAIN r.nodes \subseteq DOMAIN x3' /\ \A k \in DOMAIN r.nodes : r.nodes[k] = x3'[k]
  BY DEF RequestSound, Grows
<1>4. /\ r.op = "put" => r.body \in Contents
      /\ r.op = "ingest" => r.doc \in Docs /\ r.body \in Contents
      /\ r.op = "search" =>
           /\ r.audience \in Audiences
           /\ r.fts \in Seq(Docs) /\ (r.at = "entities" => r.vector \in Seq(Docs))
           /\ r.audience = "network" =>
                Outside(r.fts, r.out)' /\ (r.at = "entities" => Outside(r.vector, r.out)')
  BY DEF RequestSound, Outside
<1> HIDE DEF Context!ProspectDocs
<1> QED BY <1>1, <1>2, <1>3, <1>4 DEF RequestSound

LEMMA AnswerStays == ASSUME Grows, NEW r, AnswerSound(r) PROVE AnswerSound(r)'
<1>1. r[1] = "blob" => r[2] \in Contents /\ x1'[r[2]] # None /\ x1'[r[2]] = r[3]
  BY DEF AnswerSound, Grows
<1>2. ASSUME NEW x, NEW out, InNetwork(x, out) PROVE InNetwork(x, out)'
  BY <1>2 DEF InNetwork, Grows
<1>3. ASSUME NEW p, NEW target, Leads(p, target) PROVE Leads(p, target)'
  <2>1. p[1] \in DOMAIN x3' /\ x3'[p[1]] = 1 /\ p[Len(p)] = target
    BY <1>3 DEF Leads, Grows
  <2>2. \A n \in 2..(Len(p) - 1) : p[n] \in DOMAIN x3' /\ x3'[p[n]] # 2
    BY <1>3 DEF Leads, Grows
  <2>3. \A n \in 1..(Len(p) - 1) : \E l \in x4' : {l.from, l.to} = {p[n], p[n + 1]}
    BY <1>3 DEF Leads, Grows
  <2> QED BY <2>1, <2>2, <2>3 DEF Leads
<1>4. r[1] = "search" /\ r[2] = "network" => \A i \in DOMAIN r[4] : InNetwork(r[4][i], r[3])'
  <2>1. r[1] = "search" /\ r[2] = "network" => \A i \in DOMAIN r[4] : InNetwork(r[4][i], r[3])
    BY DEF AnswerSound
  <2> HIDE DEF InNetwork
  <2> QED BY <1>2, <2>1
<1>5. r[1] = "paths" => \A i \in DOMAIN r[3] : Leads(r[3][i], r[2])'
  <2>1. r[1] = "paths" => \A i \in DOMAIN r[3] : Leads(r[3][i], r[2])
    BY DEF AnswerSound
  <2> HIDE DEF Leads
  <2> QED BY <1>3, <2>1
<1> HIDE DEF InNetwork, Leads
<1> QED BY <1>1, <1>4, <1>5 DEF AnswerSound

LEMMA EventStays ==
  ASSUME Grows, EventsSound, NEW es, Context!Emit(es),
         \A e \in es : e \notin DOMAIN x5 /\ Happened(e)'
  PROVE  EventsSound' /\ \A e \in DOMAIN x5' : x5'[e] \in Nat
<1>1. DOMAIN x5' = DOMAIN x5 \cup es
      /\ \A e \in DOMAIN x5' :
           x5'[e] = (IF e \in DOMAIN x5 THEN x5[e] ELSE 0) + IF e \in es THEN 1 ELSE 0
  BY DEF Context!Emit
<1>2. ASSUME NEW e, Happened(e) PROVE Happened(e)'
  BY <1>2 DEF Happened, Grows
<1>3. ASSUME NEW e \in DOMAIN x5' PROVE x5'[e] = 1 /\ Happened(e)'
  <2>1. CASE e \in es
    <3>1. e \notin DOMAIN x5 /\ Happened(e)'
      BY <2>1
    <3>2. x5'[e] = 0 + 1
      BY <1>1, <2>1, <3>1
    <3> QED BY <3>1, <3>2
  <2>2. CASE e \notin es
    <3>1. e \in DOMAIN x5 /\ x5[e] = 1 /\ Happened(e)
      BY <1>1, <2>2 DEF EventsSound
    <3>2. x5'[e] = 1 + 0
      BY <1>1, <2>2, <3>1
    <3> HIDE DEF Happened
    <3> QED BY <1>2, <3>1, <3>2
  <2> QED BY <2>1, <2>2
<1> QED BY <1>3 DEF EventsSound

(* A step of one request.                                                  *)
LEMMA RequestMoves ==
  ASSUME ContextInv, Grows, Context!TypeOK', Graded', EventsSound', NEW c \in Actors, NEW r,
         x6' = [x6 EXCEPT ![c] = r], r # Idle => RequestSound(r)',
         \A a \in x7' : a \in x7 \/ AnswerSound(a)'
  PROVE  ContextInv'
<1>1. /\ x6 = [d \in Actors |-> x6[d]] /\ \A d \in Actors : x6[d] # Idle => RequestSound(x6[d])
  BY DEF ContextInv, RequestsSound
<1>2. x6' = [d \in Actors |-> x6'[d]] /\ x6'[c] = r /\ \A d \in Actors \ {c} : x6'[d] = x6[d]
  BY <1>1
<1>3. ASSUME NEW d \in Actors, x6'[d] # Idle PROVE RequestSound(x6[d])'
  <2>1. PICK q : q = x6'[d]
    OBVIOUS
  <2>2. CASE d = c
    BY <1>2, <1>3, <2>2
  <2>3. CASE d # c
    <3>1. q = x6[d] /\ RequestSound(q)
      BY <1>1, <1>2, <1>3, <2>1, <2>3
    <3>2. RequestSound(q)'
      BY <3>1, RequestStays
    <3> QED BY <2>1, <3>2
  <2> QED BY <2>2, <2>3
<1>4. RequestsSound'
  BY <1>2, <1>3 DEF RequestsSound
<1>5. AnswersSound'
  <2> SUFFICES ASSUME NEW a \in x7' PROVE AnswerSound(a)'
    BY DEF AnswersSound
  <2>1. CASE a \in x7
    BY <2>1, AnswerStays DEF ContextInv, AnswersSound
  <2> QED BY <2>1
<1> QED BY <1>4, <1>5 DEF ContextInv

(* A request that leaves the store alone.                                  *)
LEMMA StoreStays ==
  ASSUME ContextInv, UNCHANGED <<x1, x2, x3, x4, x5>>
  PROVE  Grows /\ Graded' /\ EventsSound' /\ (x8' \in 0..MaxOps => Context!TypeOK')
<1>1. Grows
  BY DEF Grows
<1>2. Graded' /\ EventsSound'
  BY DEF ContextInv, Graded, EventsSound, Happened
<1>3. x8' \in 0..MaxOps => Context!TypeOK'
  BY DEF ContextInv, Context!TypeOK
<1> QED BY <1>1, <1>2, <1>3

LEMMA RequestOnly ==
  ASSUME ContextInv, NEW c \in Actors, NEW r, x6' = [x6 EXCEPT ![c] = r],
         UNCHANGED <<x1, x2, x3, x4, x5>>, r # Idle => RequestSound(r), x8' \in 0..MaxOps,
         \A a \in x7' : a \in x7 \/ AnswerSound(a)'
  PROVE  ContextInv'
<1>1. Grows /\ Context!TypeOK' /\ Graded' /\ EventsSound'
  BY StoreStays
<1>2. r # Idle => RequestSound(r)'
  BY <1>1, RequestStays
<1> QED BY <1>1, <1>2, RequestMoves

LEMMA OpsGrow ==
  ASSUME ContextInv, NEW c \in Actors, NEW r, Context!Begin(c, r)
  PROVE  x8' \in 0..MaxOps /\ x6' = [x6 EXCEPT ![c] = r] /\ x6[c] = Idle
<1>1. x8 \in 0..MaxOps /\ x8 < MaxOps /\ x8' = x8 + 1 /\ MaxOps \in Nat
  BY ContextConstants DEF ContextInv, Context!TypeOK, Context!Begin
<1> QED BY <1>1 DEF Context!Begin

LEMMA OpsStay == ContextInv /\ x8' = x8 => x8' \in 0..MaxOps
BY DEF ContextInv, Context!TypeOK

LEMMA ContextBegins == Context!Init => ContextInv
<1> SUFFICES ASSUME Context!Init PROVE ContextInv
  OBVIOUS
<1>1. Context!TypeOK
  BY ContextConstants DEF Context!Init, Context!TypeOK
<1>2. Graded /\ EventsSound /\ RequestsSound /\ AnswersSound
  BY DEF Context!Init, Graded, EventsSound, RequestsSound, AnswersSound
<1> QED BY <1>1, <1>2 DEF ContextInv

(* Requests that read. *)
LEMMA PutBlobStep ==
  ASSUME ContextInv, NEW c \in Actors, NEW b \in Contents, Context!PutBlob(c, b)
  PROVE  ContextInv'
<1> DEFINE r == [op |-> "put", at |-> "insert", body |-> b]
<1>1. Context!Begin(c, r) /\ UNCHANGED <<x1, x2, x3, x4, x5, x7>>
  BY DEF Context!PutBlob, Context!store
<1>2. RequestSound(r)
  BY DEF RequestSound
<1> HIDE DEF r
<1> QED BY <1>1, <1>2, OpsGrow, RequestOnly

LEMMA PutKnownBlobStep ==
  ASSUME ContextInv, NEW b \in Contents, Context!PutKnownBlob(b)
  PROVE  ContextInv'
<1>1. /\ x1[b] # None /\ x7' = x7 \cup {<<"blob", b, x1[b]>>}
      /\ UNCHANGED <<x1, x2, x3, x4, x5, x6, x8>>
  BY DEF Context!PutKnownBlob, Context!store
<1>2. Grows /\ Context!TypeOK' /\ Graded' /\ EventsSound'
  BY <1>1, StoreStays, OpsStay
<1>3. RequestsSound'
  BY <1>1, <1>2, RequestStays DEF ContextInv, RequestsSound, RequestSound,
     Context!ProspectDocs, Context!Ingested, Sensible, Outside
<1>4. AnswerSound(<<"blob", b, x1[b]>>)'
  BY <1>1 DEF AnswerSound
<1>5. AnswersSound'
  <2> SUFFICES ASSUME NEW a \in x7' PROVE AnswerSound(a)'
    BY DEF AnswersSound
  <2>1. CASE a \in x7
    BY <1>2, <2>1, AnswerStays DEF ContextInv, AnswersSound
  <2>2. CASE a \notin x7
    <3>1. a = <<"blob", b, x1[b]>>
      BY <1>1, <2>2
    <3> QED BY <1>1, <3>1 DEF AnswerSound
  <2> QED BY <2>1, <2>2
<1> QED BY <1>2, <1>3, <1>5 DEF ContextInv

LEMMA ReadBodyStep ==
  ASSUME ContextInv, NEW c \in Actors, NEW d \in Docs, NEW b \in Contents, Context!ReadBody(c, d, b)
  PROVE  ContextInv'
<1> DEFINE r == [op |-> "ingest", at |-> "insert", doc |-> d, body |-> b]
<1>1. Context!Begin(c, r) /\ UNCHANGED <<x1, x2, x3, x4, x5, x7>>
  BY DEF Context!ReadBody, Context!store
<1>2. RequestSound(r)
  BY DEF RequestSound
<1> HIDE DEF r
<1> QED BY <1>1, <1>2, OpsGrow, RequestOnly

LEMMA LoadDocStep ==
  ASSUME ContextInv, NEW c \in Actors, NEW d \in Docs, Context!LoadDoc(c, d)
  PROVE  ContextInv'
<1> DEFINE r == [op |-> "distill", at |-> "model", doc |-> d]
<1>1. Context!Begin(c, r) /\ x2[d] # None /\ UNCHANGED <<x1, x2, x3, x4, x5, x7>>
  BY DEF Context!LoadDoc, Context!store
<1>2. RequestSound(r)
  BY <1>1 DEF RequestSound
<1> HIDE DEF r
<1> QED BY <1>1, <1>2, OpsGrow, RequestOnly

(* A call fails, or returns what it need not remember.                     *)
LEMMA CallFailsStep ==
  ASSUME ContextInv, NEW c \in Actors, Context!CallFails(c)
  PROVE  ContextInv'
<1>1. /\ x6' = [x6 EXCEPT ![c] = Idle] /\ x7' = x7 /\ UNCHANGED <<x1, x2, x3, x4, x5, x8>>
  BY DEF Context!CallFails, Context!Return, Context!store
<1> QED BY <1>1, OpsStay, RequestOnly

LEMMA SeqItems ==
  ASSUME NEW S, NEW s \in Seq(S)
  PROVE  Len(s) \in Nat /\ DOMAIN s = 1..Len(s) /\ \A i \in DOMAIN s : s[i] \in S
OBVIOUS

LEMMA NormalizedIsSensible ==
  ASSUME NEW a \in Context!Parsed
  PROVE  Sensible(Context!Normalize(a))
<1> DEFINE Entry == [key: Entities, degree: {1, 2, None}]
           graded(e) == IF e.key \in Contacts /\ e.degree = None THEN [e EXCEPT !.degree = 2] ELSE e
           new == [i \in DOMAIN a.entities |-> graded(a.entities[i])]
<1>1. a.entities \in Seq(Entry)
  BY DEF Context!Parsed
<1>2. PICK s \in Seq(Entry) : s = a.entities
  BY <1>1
<1>3. ASSUME NEW e \in Entry
      PROVE  graded(e) \in Entry /\ (graded(e).key \in Contacts => graded(e).degree # None)
  <2>1. CASE e.key \in Contacts /\ e.degree = None
    BY <2>1, ContextConstants
  <2>2. CASE ~(e.key \in Contacts /\ e.degree = None)
    BY <2>2
  <2> QED BY <2>1, <2>2
<1>4. new \in Seq(Entry) /\ \A i \in DOMAIN new : new[i].key \in Contacts => new[i].degree # None
  <2>1. Len(s) \in Nat /\ DOMAIN s = 1..Len(s) /\ \A i \in DOMAIN s : s[i] \in Entry
    <3> HIDE DEF Entry
    <3> QED BY SeqItems
  <2>2. new = [i \in DOMAIN s |-> graded(s[i])]
    BY <1>2
  <2> HIDE DEF Entry, graded
  <2>3. new \in [1..Len(s) -> Entry]
    BY <1>3, <2>1, <2>2
  <2>4. \A i \in DOMAIN new : new[i] = graded(s[i]) /\ s[i] \in Entry
    BY <2>1, <2>2
  <2> HIDE DEF new
  <2>5. new \in Seq(Entry)
    BY <2>1, <2>3
  <2> QED BY <1>3, <2>4, <2>5
<1>5. Context!Normalize(a) = [a EXCEPT !.entities = new]
  BY DEF Context!Normalize
<1> HIDE DEF new, Entry
<1>6. /\ Context!Normalize(a).entities = new /\ Context!Normalize(a) \in Context!Parsed
  BY <1>4, <1>5 DEF Context!Parsed, Entry
<1> QED BY <1>4, <1>6 DEF Sensible

LEMMA AnswerStep ==
  ASSUME ContextInv, NEW c \in Actors, NEW a \in AnswersLlm, Context!Answer(c, a)
  PROVE  ContextInv'
<1>1. PICK q : q = x6[c]
  OBVIOUS
<1> DEFINE n == Context!Normalize(a)
           r == [op |-> "distill", at |-> "write", doc |-> q.doc, answer |-> n]
<1>2. /\ q # Idle /\ q.op = "distill" /\ x6' = [x6 EXCEPT ![c] = r]
      /\ UNCHANGED <<x1, x2, x3, x4, x5, x7, x8>>
  BY <1>1 DEF Context!Answer, Context!In, Context!Goto, Context!store
<1>3. RequestSound(q)
  BY <1>1, <1>2 DEF ContextInv, RequestsSound
<1>4. Sensible(n)
  BY ContextConstants, NormalizedIsSensible
<1> HIDE DEF n
<1>5. RequestSound(r)
  BY <1>2, <1>3, <1>4 DEF RequestSound
<1> HIDE DEF r
<1> QED BY <1>2, <1>5, OpsStay, RequestOnly

-----------------------------------------------------------------------------
(* Requests that write. *)
LEMMA InsertBlobStep ==
  ASSUME ContextInv, NEW c \in Actors, Context!InsertBlob(c)
  PROVE  ContextInv'
<1>1. PICK b : b = x6[c].body
  OBVIOUS
<1>2. /\ x6[c] # Idle /\ x6[c].op = "put" /\ UNCHANGED <<x2, x3, x4, x8>>
      /\ x6' = [x6 EXCEPT ![c] = Idle]
  BY DEF Context!InsertBlob, Context!In, Context!Return
<1>3. b \in Contents
  BY <1>1, <1>2 DEF ContextInv, RequestsSound, RequestSound
<1>4. CASE x1[b] = None
  <2>1. /\ x1' = [x1 EXCEPT ![b] = c] /\ Context!Emit({<<"blob.created", b>>})
        /\ x7' = x7 \cup {<<"blob", b, c>>}
    BY <1>1, <1>4 DEF Context!InsertBlob, Context!Return
  <2>2. x1 \in [Contents -> Actors \cup {None}]
    BY DEF ContextInv, Context!TypeOK
  <2>3. /\ x1' \in [Contents -> Actors \cup {None}] /\ x1'[b] = c /\ c # None
        /\ \A a \in Contents : a # b => x1'[a] = x1[a]
    BY <1>3, <2>1, <2>2, ContextConstants
  <2>4. Grows
    BY <1>2, <1>4, <2>3 DEF Grows
  <2>5. Happened(<<"blob.created", b>>)'
    BY <1>3, <2>3 DEF Happened
  <2>6. <<"blob.created", b>> \notin DOMAIN x5
    BY <1>4 DEF ContextInv, EventsSound, Happened
  <2>7. EventsSound' /\ \A e \in DOMAIN x5' : x5'[e] \in Nat
    BY <2>1, <2>4, <2>5, <2>6, EventStays DEF ContextInv
  <2>8. Context!TypeOK' /\ Graded'
    BY <1>2, <2>3, <2>7 DEF ContextInv, Context!TypeOK, Graded
  <2>9. AnswerSound(<<"blob", b, c>>)'
    BY <1>3, <2>3 DEF AnswerSound
  <2> QED BY <1>2, <2>1, <2>4, <2>7, <2>8, <2>9, RequestMoves
<1>5. CASE x1[b] # None
  <2>1. PICK i : i = x1[b]
    OBVIOUS
  <2>2. x7' = x7 \cup {<<"blob", b, i>>} /\ UNCHANGED <<x1, x5>>
    BY <1>1, <1>5, <2>1 DEF Context!InsertBlob, Context!Return
  <2>3. AnswerSound(<<"blob", b, i>>)'
    BY <1>3, <1>5, <2>1, <2>2 DEF AnswerSound
  <2> QED BY <1>2, <2>2, <2>3, OpsStay, RequestOnly
<1> QED BY <1>4, <1>5

LEMMA InsertDocStep ==
  ASSUME ContextInv, NEW c \in Actors, NEW summary \in BOOLEAN, Context!InsertDoc(c, summary)
  PROVE  ContextInv'
<1>1. PICK d, b : d = x6[c].doc /\ b = x6[c].body
  OBVIOUS
<1>2. /\ x6[c] # Idle /\ x6[c].op = "ingest" /\ UNCHANGED <<x1, x3, x4, x8>>
      /\ x6' = [x6 EXCEPT ![c] = Idle] /\ x7' = x7
  BY DEF Context!InsertDoc, Context!In, Context!Return
<1>3. d \in Docs /\ b \in Contents
  BY <1>1, <1>2 DEF ContextInv, RequestsSound, RequestSound
<1>4. CASE x2[d] = None
  <2> DEFINE row == [body |-> b, summary |-> summary]
  <2>1. x2' = [x2 EXCEPT ![d] = row] /\ Context!Emit({<<"doc.created", d>>})
    BY <1>1, <1>4 DEF Context!InsertDoc
  <2>2. row \in Context!DocRows /\ row # None /\ x2 \in [Docs -> Context!DocRows \cup {None}]
    <3>1. row \in Context!DocRows
      BY <1>3 DEF Context!DocRows
    <3> QED BY <3>1, ContextConstants DEF ContextInv, Context!TypeOK
  <2> HIDE DEF row
  <2>3. /\ x2' \in [Docs -> Context!DocRows \cup {None}] /\ x2'[d] # None
        /\ \A a \in Docs : a # d => x2'[a] = x2[a]
    BY <1>3, <2>1, <2>2
  <2>4. Grows
    BY <1>2, <1>4, <2>3 DEF Grows
  <2>5. Happened(<<"doc.created", d>>)'
    BY <1>3, <2>3 DEF Happened
  <2>6. <<"doc.created", d>> \notin DOMAIN x5
    BY <1>4 DEF ContextInv, EventsSound, Happened
  <2>7. EventsSound' /\ \A e \in DOMAIN x5' : x5'[e] \in Nat
    BY <2>1, <2>4, <2>5, <2>6, EventStays DEF ContextInv
  <2>8. Context!TypeOK' /\ Graded'
    BY <1>2, <2>3, <2>7 DEF ContextInv, Context!TypeOK, Graded
  <2> QED BY <1>2, <2>4, <2>7, <2>8, RequestMoves
<1>5. CASE x2[d] # None
  <2>1. UNCHANGED <<x2, x5>>
    BY <1>1, <1>5 DEF Context!InsertDoc
  <2> QED BY <1>2, <2>1, OpsStay, RequestOnly
<1> QED BY <1>4, <1>5

(* The first entry of a key has a degree of the answer.                    *)
LEMMA DegreeIsGiven ==
  ASSUME NEW a, Sensible(a), NEW k \in Context!Extracted(a)
  PROVE  /\ k \in Entities /\ Context!DegreeIn(a, k) \in {1, 2, None}
         /\ k \in Contacts => Context!DegreeIn(a, k) # None
<1> DEFINE T == {i \in DOMAIN a.entities : a.entities[i].key = k}
<1>1. PICK s \in Seq([key: Entities, degree: {1, 2, None}]) : s = a.entities
  BY DEF Sensible, Context!Parsed
<1>d. DOMAIN a.entities = 1..Len(s) /\ Len(s) \in Nat
  BY <1>1
<1>2. T \subseteq Nat /\ T # {}
  BY <1>1 DEF Context!Extracted
<1>3. PICK i \in T : \A j \in T : i <= j
  BY <1>2, LeastNat
<1>4. \A j \in 1..(i - 1) : a.entities[j].key # k
  <2> SUFFICES ASSUME NEW j \in 1..(i - 1), a.entities[j].key = k PROVE FALSE
    OBVIOUS
  <2>1. i \in 1..Len(s) /\ i \in Nat
    BY <1>d
  <2>2. j \in 1..Len(s) /\ j \in Nat /\ ~(i <= j)
    BY <1>d, <2>1
  <2>3. j \in T
    BY <1>d, <2>2
  <2> QED BY <1>3, <2>2, <2>3
<1>5. \E j \in DOMAIN a.entities :
        /\ Context!DegreeIn(a, k) = a.entities[j].degree
        /\ a.entities[j].key = k
  BY <1>3, <1>4 DEF Context!DegreeIn
<1>6. PICK j \in DOMAIN a.entities :
        Context!DegreeIn(a, k) = a.entities[j].degree /\ a.entities[j].key = k
  BY <1>5
<1>7. s[j] \in [key: Entities, degree: {1, 2, None}]
  <2>1. j \in DOMAIN s
    BY <1>1, <1>6
  <2> QED BY <2>1, SeqItems
<1> QED BY <1>1, <1>6, <1>7 DEF Sensible

LEMMA WriteDistillStep ==
  ASSUME ContextInv, NEW c \in Actors, Context!WriteDistill(c)
  PROVE  ContextInv'
<1>1. PICK d, a : d = x6[c].doc /\ a = x6[c].answer
  OBVIOUS
<1> DEFINE fresh == Context!Extracted(a) \ DOMAIN x3
<1>2. /\ x6[c] # Idle /\ x6[c].op = "distill" /\ x6[c].at = "write" /\ UNCHANGED <<x1, x8>>
      /\ x6' = [x6 EXCEPT ![c] = Idle] /\ x7' = x7
  BY DEF Context!WriteDistill, Context!In, Context!Return
<1>3. d \in Docs /\ x2[d] # None /\ Sensible(a)
  BY <1>1, <1>2 DEF ContextInv, RequestsSound, RequestSound
<1>4. CASE x2[d].summary
  <2>1. UNCHANGED <<x2, x3, x4, x5>>
    BY <1>1, <1>4 DEF Context!WriteDistill
  <2> QED BY <1>2, <2>1, OpsStay, RequestOnly
<1>5. CASE ~x2[d].summary
  <2> DEFINE es == {<<"doc.distilled", d>>} \cup {<<"entity.created", k>> : k \in fresh}
  <2>1. /\ x2' = [x2 EXCEPT ![d].summary = TRUE]
        /\ x3' = [k \in DOMAIN x3 \cup fresh |->
                    IF k \in fresh THEN Context!DegreeIn(a, k) ELSE x3[k]]
        /\ x4' = x4 \cup Context!NewLinks(d, a) /\ Context!Emit(es)
    BY <1>1, <1>5 DEF Context!WriteDistill
  <2>2. x2 \in [Docs -> Context!DocRows \cup {None}] /\ x2[d] \in Context!DocRows
    BY <1>3 DEF ContextInv, Context!TypeOK
  <2>3. PICK row \in Context!DocRows : row = x2[d]
    BY <2>2
  <2> DEFINE new == [row EXCEPT !.summary = TRUE]
  <2>4. new \in Context!DocRows /\ new.summary /\ new # None
    BY ContextConstants DEF Context!DocRows
  <2>5. x2' = [x2 EXCEPT ![d] = new]
    BY <2>1, <2>3
  <2> HIDE DEF new, fresh, es
  <2>6. /\ x2' \in [Docs -> Context!DocRows \cup {None}] /\ x2'[d] = new
        /\ \A e \in Docs : e # d => x2'[e] = x2[e]
    BY <1>3, <2>2, <2>4, <2>5
  <2>7. /\ DOMAIN x3' = DOMAIN x3 \cup fresh /\ \A k \in fresh : x3'[k] = Context!DegreeIn(a, k)
        /\ \A k \in DOMAIN x3 : x3'[k] = x3[k]
    BY <2>1 DEF fresh
  <2>8. \A k \in fresh : /\ k \in Entities /\ k \notin DOMAIN x3 /\ x3'[k] \in {1, 2, None}
                         /\ k \in Contacts => x3'[k] # None
    BY <1>3, <2>7, DegreeIsGiven DEF fresh
  <2>9. Grows
    BY <1>2, <2>1, <2>4, <2>6, <2>7 DEF Grows
  <2>10. \A e \in es : e \notin DOMAIN x5 /\ Happened(e)'
    <3>1. <<"doc.distilled", d>> \notin DOMAIN x5
      BY <1>5 DEF ContextInv, EventsSound, Happened
    <3>2. \A k \in fresh : <<"entity.created", k>> \notin DOMAIN x5
      BY <2>8 DEF ContextInv, EventsSound, Happened
    <3>3. Happened(<<"doc.distilled", d>>)'
      BY <1>3, <2>4, <2>6 DEF Happened
    <3>4. ASSUME NEW k \in fresh PROVE Happened(<<"entity.created", k>>)'
      BY <2>7 DEF Happened
    <3> HIDE DEF Happened
    <3> QED BY <3>1, <3>2, <3>3, <3>4 DEF es
  <2>11. EventsSound' /\ \A e \in DOMAIN x5' : x5'[e] \in Nat
    BY <2>1, <2>9, <2>10, EventStays DEF ContextInv
  <2>12. Graded'
    BY <2>7, <2>8 DEF ContextInv, Graded
  <2>13. \A l \in Context!NewLinks(d, a) : l.weight \in 0..10
    <3>1. a.links \subseteq [from: Entities \cup {"doc"}, to: Entities \cup {"doc"}, weight: 0..10]
      BY <1>3 DEF Sensible, Context!Parsed
    <3> QED BY <3>1 DEF Context!NewLinks
  <2>14. Context!TypeOK'
    <3>1. DOMAIN x3' \subseteq Entities /\ \A k \in DOMAIN x3' : x3'[k] \in {1, 2, None}
      BY <2>7, <2>8 DEF ContextInv, Context!TypeOK
    <3>2. \A l \in x4' : l.weight \in 0..10
      BY <2>1, <2>13 DEF ContextInv, Context!TypeOK
    <3> QED BY <1>2, <2>6, <2>11, <3>1, <3>2 DEF ContextInv, Context!TypeOK
  <2> QED BY <1>2, <2>9, <2>11, <2>12, <2>14, RequestMoves
<1> QED BY <1>4, <1>5

-----------------------------------------------------------------------------
(* Requests that rank what they read. *)

(* The first n of a sequence. *)
LEMMA BestIsPart ==
  ASSUME NEW S, NEW s \in Seq(S), NEW n \in Nat
  PROVE  Context!Best(s, n) \in Seq(S)
<1> DEFINE m == Context!Min({n, Len(s)})
<1>1. Len(s) \in Nat /\ \A i \in 1..Len(s) : s[i] \in S
  OBVIOUS
<1>2. \E x \in {n, Len(s)} : \A y \in {n, Len(s)} : x <= y
  BY <1>1
<1>3. m \in {n, Len(s)} /\ \A y \in {n, Len(s)} : m <= y
  BY <1>2 DEF Context!Min
<1> HIDE DEF m
<1>4. m \in Int /\ \A i \in 1..m : i \in 1..Len(s)
  BY <1>1, <1>3
<1>5. SubSeq(s, 1, m) \in Seq(S)
  <2>1. 1 \in Int /\ \A i \in 1..m : s[i] \in S
    BY <1>1, <1>4
  <2> QED BY <1>4, <2>1, SubSeqProperties
<1> QED BY <1>5 DEF Context!Best, m

LEMMA OrderIsSeq ==
  ASSUME NEW S, IsFiniteSet(S), NEW s \in Context!SetToSeqs(S)
  PROVE  s \in Seq(S)
<1>1. Context!Cardinality(S) = Cardinality(S)
  BY DEF Context!Cardinality, Cardinality
<1>2. PICK n \in Nat : n = Cardinality(S)
  BY FS_CardinalityType
<1>3. s \in [1..n -> S]
  BY <1>1, <1>2 DEF Context!SetToSeqs
<1> QED BY <1>3

LEMMA RankedIsSeq ==
  ASSUME NEW score, IsFiniteSet(DOMAIN score), NEW s \in Context!Ranked(score)
  PROVE  s \in Seq(DOMAIN score)
<1>1. s \in Context!SetToSeqs(DOMAIN score)
  BY DEF Context!Ranked
<1> QED BY <1>1, OrderIsSeq

LEMMA ArmIsPart ==
  ASSUME NEW S, IsFiniteSet(S), NEW s \in Context!Arm(S)
  PROVE  s \in Seq(S)
<1>1. PICK t \in Context!SetToSeqs(S) : s = Context!Best(t, ArmLimit)
  BY DEF Context!Arm
<1>2. t \in Seq(S)
  BY <1>1, OrderIsSeq
<1> QED BY <1>1, <1>2, BestIsPart, ContextConstants

LEMMA WiderSeq == ASSUME NEW S, NEW T, S \subseteq T, NEW s \in Seq(S) PROVE s \in Seq(T)
OBVIOUS

(* What an audience may find. *)
LEMMA HitsAreDocs ==
  ASSUME NEW out, out \subseteq Context!ProspectDocs, NEW audience \in Audiences,
         NEW s \in Context!Arm(Context!ForAudience(audience)) \cup {<<>>}
  PROVE  s \in Seq(Docs) /\ (audience = "network" => Outside(s, out))
<1> DEFINE hits == Context!ForAudience(audience)
<1>1. hits \subseteq Docs /\ (audience = "network" => hits \subseteq Docs \ out)
  <2>1. audience \in {"all", "network", "prospecting"}
    BY ServicesAssumption DEF Context!ContextAssumption
  <2>2. CASE audience = "all"
    BY <2>2 DEF Context!ForAudience, Context!Ingested
  <2>3. CASE audience = "network"
    BY <2>3 DEF Context!ForAudience, Context!Ingested
  <2>4. CASE audience = "prospecting"
    BY <2>4 DEF Context!ForAudience, Context!Ingested, Context!ProspectDocs
  <2> QED BY <2>1, <2>2, <2>3, <2>4
<1> HIDE DEF hits
<1>2. IsFiniteSet(hits)
  BY <1>1, ContextConstants, FS_Subset
<1>3. s \in Seq(hits)
  <2>1. CASE s = <<>>
    BY <2>1
  <2>2. CASE s \in Context!Arm(hits)
    BY <1>2, <2>2, ArmIsPart
  <2> QED BY <2>1, <2>2 DEF hits
<1> QED BY <1>1, <1>3, WiderSeq DEF Outside

LEMMA FtsArmStep ==
  ASSUME ContextInv, NEW c \in Actors, NEW audience \in Audiences, Context!FtsArm(c, audience)
  PROVE  ContextInv'
<1>1. PICK out : out = Context!ProspectDocs
  OBVIOUS
<1>2. PICK s \in Context!Arm(Context!ForAudience(audience)) :
        Context!Begin(c, [op |-> "search", at |-> "vector", audience |-> audience, fts |-> s,
                          out |-> out])
  BY <1>1 DEF Context!FtsArm
<1> DEFINE r == [op |-> "search", at |-> "vector", audience |-> audience, fts |-> s,
                 out |-> out]
<1>3. UNCHANGED <<x1, x2, x3, x4, x5, x7>>
  BY DEF Context!FtsArm, Context!store
<1>4. RequestSound(r)
  <2>1. s \in Seq(Docs) /\ (audience = "network" => Outside(s, out))
    BY <1>1, <1>2, HitsAreDocs
  <2> QED BY <1>1, <2>1 DEF RequestSound
<1>5. Context!Begin(c, r)
  BY <1>2
<1> HIDE DEF r
<1> QED BY <1>3, <1>4, <1>5, OpsGrow, RequestOnly

LEMMA VectorArmStep ==
  ASSUME ContextInv, NEW c \in Actors, Context!VectorArm(c)
  PROVE  ContextInv'
<1>1. PICK q : q = x6[c]
  OBVIOUS
<1>2. PICK s \in Context!Arm(Context!ForAudience(q.audience)) \cup {<<>>} :
        x6' = [x6 EXCEPT ![c] = [op |-> "search", at |-> "entities", audience |-> q.audience,
                                 fts |-> q.fts, vector |-> s, out |-> q.out]]
  BY <1>1 DEF Context!VectorArm, Context!Goto
<1> DEFINE r == [op |-> "search", at |-> "entities", audience |-> q.audience,
                 fts |-> q.fts, vector |-> s, out |-> q.out]
<1>3. q # Idle /\ q.op = "search" /\ UNCHANGED <<x1, x2, x3, x4, x5, x7, x8>>
  BY <1>1 DEF Context!VectorArm, Context!In, Context!Goto, Context!store
<1>4. RequestSound(q)
  BY <1>1, <1>3 DEF ContextInv, RequestsSound
<1>5. RequestSound(r)
  <2>1. q.audience \in Audiences /\ q.out \subseteq Context!ProspectDocs /\ q.fts \in Seq(Docs)
        /\ (q.audience = "network" => Outside(q.fts, q.out))
    BY <1>3, <1>4 DEF RequestSound
  <2>2. s \in Seq(Docs) /\ (q.audience = "network" => Outside(s, q.out))
    BY <1>2, <2>1, HitsAreDocs
  <2> QED BY <2>1, <2>2 DEF RequestSound
<1>6. x6' = [x6 EXCEPT ![c] = r]
  BY <1>2
<1> HIDE DEF r
<1> QED BY <1>3, <1>5, <1>6, OpsStay, RequestOnly

(* What is fused is what an arm found.                                     *)
Tagged(t) == [i \in DOMAIN t |-> <<"doc", t[i]>>]

Arms(fts, vector, s) ==
  <<[weight |-> 2, keys |-> Tagged(fts)], [weight |-> 2, keys |-> Tagged(vector)],
    [weight |-> 1, keys |-> s]>>

LEMMA FusedIsFound ==
  ASSUME NEW fts \in Seq(Docs), NEW vector \in Seq(Docs), NEW s \in Seq(Entities),
         NEW fused \in Context!FuseRanked(Arms(fts, vector, s), ArmLimit)
  PROVE  \E K : /\ fused \in Seq(K)
                /\ \A k \in K : \/ \E i \in DOMAIN fts : k = <<"doc", fts[i]>>
                                \/ \E i \in DOMAIN vector : k = <<"doc", vector[i]>>
                                \/ \E i \in DOMAIN s : k = s[i]
<1> DEFINE lists == Arms(fts, vector, s)
           K == UNION {{lists[i].keys[j] : j \in DOMAIN lists[i].keys} : i \in DOMAIN lists}
           score == [k \in K |-> Context!FusedScore(lists, k, ArmLimit)]
<1>1. \A k \in K : \/ \E i \in DOMAIN fts : k = <<"doc", fts[i]>>
                   \/ \E i \in DOMAIN vector : k = <<"doc", vector[i]>>
                   \/ \E i \in DOMAIN s : k = s[i]
  <2> SUFFICES ASSUME NEW k \in K PROVE \/ \E i \in DOMAIN fts : k = <<"doc", fts[i]>>
                                        \/ \E i \in DOMAIN vector : k = <<"doc", vector[i]>>
                                        \/ \E i \in DOMAIN s : k = s[i]
    OBVIOUS
  <2>1. DOMAIN lists = {1, 2, 3}
    BY DEF Arms
  <2>2. /\ lists[1].keys = Tagged(fts) /\ lists[2].keys = Tagged(vector) /\ lists[3].keys = s
    BY DEF Arms
  <2> HIDE DEF lists
  <2>3. PICK i \in {1, 2, 3} : \E j \in DOMAIN lists[i].keys : k = lists[i].keys[j]
    BY <2>1
  <2>4. PICK j \in DOMAIN lists[i].keys : k = lists[i].keys[j]
    BY <2>3
  <2>5. CASE i = 1
    <3>1. j \in DOMAIN Tagged(fts) /\ k = Tagged(fts)[j]
      BY <2>2, <2>4, <2>5
    <3> QED BY <3>1 DEF Tagged
  <2>6. CASE i = 2
    <3>1. j \in DOMAIN Tagged(vector) /\ k = Tagged(vector)[j]
      BY <2>2, <2>4, <2>6
    <3> QED BY <3>1 DEF Tagged
  <2>7. CASE i = 3
    BY <2>2, <2>4, <2>7
  <2> QED BY <2>5, <2>6, <2>7
<1>2. IsFiniteSet(K)
  <2> DEFINE F == ({"doc"} \X Docs) \cup Entities
  <2>1. IsFiniteSet({"doc"} \X Docs)
    BY ContextConstants, FS_Singleton, FS_Product
  <2>2. IsFiniteSet(F)
    BY <2>1, ContextConstants, FS_Union
  <2>3. /\ \A i \in DOMAIN fts : fts[i] \in Docs
        /\ \A i \in DOMAIN vector : vector[i] \in Docs
        /\ \A i \in DOMAIN s : s[i] \in Entities
    BY SeqItems
  <2> HIDE DEF K
  <2>4. K \subseteq F
    BY <1>1, <2>3
  <2> QED BY <2>2, <2>4, FS_Subset
<1>3. fused \in Context!Ranked(score)
  BY DEF Context!FuseRanked
<1>4. DOMAIN score = K
  OBVIOUS
<1> HIDE DEF score, K
<1>5. fused \in Seq(K)
  BY <1>2, <1>3, <1>4, RankedIsSeq
<1> QED BY <1>1, <1>5

LEMMA EntityArmStep ==
  ASSUME ContextInv, NEW c \in Actors, Context!EntityArm(c)
  PROVE  ContextInv'
<1>1. PICK q : q = x6[c]
  OBVIOUS
<1>2. q # Idle /\ q.op = "search" /\ q.at = "entities" /\ UNCHANGED <<x1, x2, x3, x4, x5>>
  BY <1>1 DEF Context!EntityArm, Context!In, Context!store
<1>3. PICK s \in Context!Arm(Context!EntitiesFor(q.audience)) :
        \E fused \in Context!FuseRanked(Arms(q.fts, q.vector, s), ArmLimit) :
          Context!Return(c, {<<"search", q.audience, q.out, Context!Best(fused, SearchLimit)>>})
  BY <1>1 DEF Context!EntityArm, Arms, Tagged
<1>4. PICK fused \in Context!FuseRanked(Arms(q.fts, q.vector, s), ArmLimit) :
        Context!Return(c, {<<"search", q.audience, q.out, Context!Best(fused, SearchLimit)>>})
  BY <1>3
<1>5. RequestSound(q)
  BY <1>1, <1>2 DEF ContextInv, RequestsSound
<1>6. /\ q.fts \in Seq(Docs) /\ q.vector \in Seq(Docs)
      /\ q.audience = "network" => q.fts \in Seq(Docs \ q.out) /\ q.vector \in Seq(Docs \ q.out)
  BY <1>2, <1>5 DEF RequestSound, Outside
<1>7. s \in Seq(Context!EntitiesFor(q.audience)) /\ s \in Seq(Entities)
  <2>1. Context!EntitiesFor(q.audience) \subseteq Entities
    BY DEF Context!EntitiesFor, ContextInv, Context!TypeOK
  <2>2. IsFiniteSet(Context!EntitiesFor(q.audience))
    BY <2>1, ContextConstants, FS_Subset
  <2>3. s \in Seq(Context!EntitiesFor(q.audience))
    BY <1>3, <2>2, ArmIsPart
  <2> QED BY <2>1, <2>3, WiderSeq
<1>8. PICK K : /\ fused \in Seq(K)
               /\ \A k \in K : \/ \E i \in DOMAIN q.fts : k = <<"doc", q.fts[i]>>
                               \/ \E i \in DOMAIN q.vector : k = <<"doc", q.vector[i]>>
                               \/ \E i \in DOMAIN s : k = s[i]
  BY <1>4, <1>6, <1>7, FusedIsFound
<1>9. ASSUME q.audience = "network", NEW k \in K PROVE InNetwork(k, q.out)
  <2>1. CASE \E i \in DOMAIN q.fts : k = <<"doc", q.fts[i]>>
    <3>1. \A i \in DOMAIN q.fts : q.fts[i] \in Docs \ q.out
      BY <1>6, <1>9, SeqItems
    <3> QED BY <2>1, <3>1 DEF InNetwork
  <2>2. CASE \E i \in DOMAIN q.vector : k = <<"doc", q.vector[i]>>
    <3>1. \A i \in DOMAIN q.vector : q.vector[i] \in Docs \ q.out
      BY <1>6, <1>9, SeqItems
    <3> QED BY <2>2, <3>1 DEF InNetwork
  <2>3. CASE \E i \in DOMAIN s : k = s[i]
    <3>1. k \in Context!EntitiesFor(q.audience)
      BY <1>7, <2>3, SeqItems
    <3>2. k \in DOMAIN x3 /\ x3[k] \in {1, None} /\ (k \in Contacts => x3[k] # None)
      BY <1>9, <3>1 DEF Context!EntitiesFor, ContextInv, Graded
    <3> QED BY <3>2, ContextConstants DEF InNetwork
  <2> QED BY <1>8, <2>1, <2>2, <2>3
<1> DEFINE best == Context!Best(fused, SearchLimit)
           a == <<"search", q.audience, q.out, best>>
<1>10. \A i \in DOMAIN best : best[i] \in K
  BY <1>8, BestIsPart, SeqItems, ContextConstants
<1>11. x6' = [x6 EXCEPT ![c] = Idle] /\ x7' = x7 \cup {a} /\ x8' = x8
  BY <1>4 DEF Context!Return
<1> HIDE DEF best
<1>12. AnswerSound(a)'
  <2>1. q.audience = "network" => \A i \in DOMAIN best : InNetwork(best[i], q.out)
    BY <1>9, <1>10
  <2>2. q.audience = "network" => \A i \in DOMAIN best : InNetwork(best[i], q.out)'
    BY <1>2, <2>1 DEF InNetwork
  <2> HIDE DEF InNetwork
  <2> QED BY <2>2 DEF AnswerSound
<1> HIDE DEF a
<1> QED BY <1>2, <1>11, <1>12, OpsStay, RequestOnly

-----------------------------------------------------------------------------
(* Introductions. *)
LEMMA ReadNodesStep ==
  ASSUME ContextInv, NEW c \in Actors, NEW k \in Entities, Context!ReadNodes(c, k)
  PROVE  ContextInv'
<1>1. PICK nodes : nodes = x3
  OBVIOUS
<1> DEFINE r == [op |-> "paths", at |-> "links", target |-> k, nodes |-> nodes]
<1>2. Context!Begin(c, r) /\ UNCHANGED <<x1, x2, x3, x4, x5, x7>>
  BY <1>1 DEF Context!ReadNodes, Context!store
<1>3. RequestSound(r)
  BY <1>1 DEF RequestSound
<1> HIDE DEF r
<1> QED BY <1>2, <1>3, OpsGrow, RequestOnly

Chains(S, target) ==
  {<<a, target>> : a \in S} \cup {<<p[1], p[2], target>> : p \in S \X S}

LEMMA ChainsAreFinite ==
  ASSUME NEW S, IsFiniteSet(S), NEW target
  PROVE  IsFiniteSet(Chains(S, target))
<1> DEFINE A == {<<a, target>> : a \in S}
           B == {<<p[1], p[2], target>> : p \in S \X S}
<1>1. IsFiniteSet(A)
  <2> DEFINE f == [a \in S |-> <<a, target>>]
  <2>1. f \in Surjection(S, A)
    BY DEF Surjection
  <2> QED BY <2>1, FS_Surjection
<1>2. IsFiniteSet(B)
  <2> DEFINE f == [p \in S \X S |-> <<p[1], p[2], target>>]
  <2>1. f \in Surjection(S \X S, B)
    BY DEF Surjection
  <2>2. IsFiniteSet(S \X S)
    BY FS_Product
  <2> QED BY <2>1, <2>2, FS_Surjection
<1>3. Chains(S, target) = A \cup B
  BY DEF Chains
<1> HIDE DEF A, B
<1> QED BY <1>1, <1>2, <1>3, FS_Union

(* Every chain of hops starts in the network, passes no prospect, and is   *)
(* made of links that were read.                                           *)
Introduces(p, nodes, known, target) ==
  /\ p[1] \in DOMAIN nodes /\ nodes[p[1]] = 1 /\ p[Len(p)] = target
  /\ \A n \in 2..(Len(p) - 1) : p[n] \in DOMAIN nodes /\ nodes[p[n]] # 2
  /\ \A n \in 1..(Len(p) - 1) : \E l \in known : {l.from, l.to} = {p[n], p[n + 1]}

LEMMA HopsLead ==
  ASSUME NEW nodes, NEW known, NEW target,
         NEW p \in Context!Hops(nodes, known, target)
  PROVE  Introduces(p, nodes, known, target)
<1> DEFINE tied(a, b) == \E e \in Context!Edges(known) : e.from = a /\ e.to = b
<1>1. ASSUME NEW a, NEW b, tied(a, b) PROVE \E l \in known : {l.from, l.to} = {a, b}
  BY <1>1 DEF Context!Edges
<1>2. CASE \E a \in DOMAIN nodes : nodes[a] = 1 /\ tied(a, target) /\ p = <<a, target>>
  <2>1. PICK a \in DOMAIN nodes : nodes[a] = 1 /\ tied(a, target) /\ p = <<a, target>>
    BY <1>2
  <2>2. \E l \in known : {l.from, l.to} = {a, target}
    BY <1>1, <2>1
  <2> HIDE DEF tied
  <2>3. Len(p) = 2 /\ p[1] = a /\ p[2] = target
    BY <2>1
  <2>4. \A n \in 2..(Len(p) - 1) : FALSE
    BY <2>3
  <2>5. \A n \in 1..(Len(p) - 1) : n = 1
    BY <2>3
  <2>6. \A n \in 1..(Len(p) - 1) : \E l \in known : {l.from, l.to} = {p[n], p[n + 1]}
    BY <2>2, <2>3, <2>5
  <2> QED BY <2>1, <2>3, <2>4, <2>6 DEF Introduces
<1>3. CASE \E a, b \in DOMAIN nodes : /\ nodes[a] = 1 /\ nodes[b] # 2
                                      /\ tied(a, b) /\ tied(b, target) /\ p = <<a, b, target>>
  <2>1. PICK a, b \in DOMAIN nodes : /\ nodes[a] = 1 /\ nodes[b] # 2
                                     /\ tied(a, b) /\ tied(b, target) /\ p = <<a, b, target>>
    BY <1>3
  <2>2. /\ \E l \in known : {l.from, l.to} = {a, b}
        /\ \E l \in known : {l.from, l.to} = {b, target}
    BY <1>1, <2>1
  <2> HIDE DEF tied
  <2>3. Len(p) = 3 /\ p[1] = a /\ p[2] = b /\ p[3] = target
    BY <2>1
  <2>4. \A n \in 2..(Len(p) - 1) : n = 2
    BY <2>3
  <2>5. \A n \in 1..(Len(p) - 1) : n = 1 \/ n = 2
    BY <2>3
  <2>6. \A n \in 1..(Len(p) - 1) : \E l \in known : {l.from, l.to} = {p[n], p[n + 1]}
    BY <2>2, <2>3, <2>5
  <2>7. \A n \in 2..(Len(p) - 1) : p[n] \in DOMAIN nodes /\ nodes[p[n]] # 2
    BY <2>1, <2>3, <2>4
  <2> QED BY <2>1, <2>3, <2>6, <2>7 DEF Introduces
<1>4. \/ \E a \in DOMAIN nodes : nodes[a] = 1 /\ tied(a, target) /\ p = <<a, target>>
      \/ \E a, b \in DOMAIN nodes : /\ nodes[a] = 1 /\ nodes[b] # 2
                                    /\ tied(a, b) /\ tied(b, target) /\ p = <<a, b, target>>
  <2> DEFINE starts == {n \in DOMAIN nodes : nodes[n] = 1 /\ n # target}
             mids == {n \in DOMAIN nodes \ {target} : nodes[n] # 2}
  <2>1. \/ \E a \in starts : tied(a, target) /\ p = <<a, target>>
        \/ \E q \in starts \X mids : /\ tied(q[1], q[2]) /\ tied(q[2], target)
                                     /\ p = <<q[1], q[2], target>>
    BY DEF Context!Hops
  <2> HIDE DEF tied
  <2> QED BY <2>1
<1> QED BY <1>2, <1>3, <1>4

LEMMA HopsAreFinite ==
  ASSUME NEW nodes, NEW known, NEW target, IsFiniteSet(DOMAIN nodes)
  PROVE  IsFiniteSet(Context!Hops(nodes, known, target))
<1>1. Context!Hops(nodes, known, target) \subseteq Chains(DOMAIN nodes, target)
  BY DEF Context!Hops, Chains
<1> QED BY <1>1, ChainsAreFinite, FS_Subset

LEMMA ReadLinksStep ==
  ASSUME ContextInv, NEW c \in Actors, Context!ReadLinks(c)
  PROVE  ContextInv'
<1>1. PICK q : q = x6[c]
  OBVIOUS
<1> DEFINE known == {l \in x4 : {l.from, l.to} \subseteq Entities}
           hops == Context!Hops(q.nodes, known, q.target)
           score == [p \in hops |-> Context!PathScore(p, known, Strength)]
<1>2. q # Idle /\ q.op = "paths" /\ UNCHANGED <<x1, x2, x3, x4, x5>>
  BY <1>1 DEF Context!ReadLinks, Context!In, Context!store
<1>3. PICK found \in Context!RankedPaths(q.nodes, known, Strength, q.target, MaxPaths) :
        Context!Return(c, {<<"paths", q.target, found>>})
  BY <1>1 DEF Context!ReadLinks
<1>4. RequestSound(q)
  BY <1>1, <1>2 DEF ContextInv, RequestsSound
<1>5. DOMAIN q.nodes \subseteq DOMAIN x3 /\ \A k \in DOMAIN q.nodes : q.nodes[k] = x3[k]
  BY <1>2, <1>4 DEF RequestSound
<1>6. IsFiniteSet(hops)
  <2>1. DOMAIN q.nodes \subseteq Entities
    BY <1>5 DEF ContextInv, Context!TypeOK
  <2>2. IsFiniteSet(DOMAIN q.nodes)
    BY <2>1, ContextConstants, FS_Subset
  <2> QED BY <2>2, HopsAreFinite
<1>7. PICK s \in Context!Ranked(score) : found = Context!Best(s, MaxPaths)
  BY <1>3 DEF Context!RankedPaths
<1>8. DOMAIN score = hops
  OBVIOUS
<1> HIDE DEF score
<1>9. \A i \in DOMAIN found : found[i] \in hops
  <2> HIDE DEF hops
  <2>1. s \in Seq(hops)
    BY <1>6, <1>7, <1>8, RankedIsSeq
  <2>2. found \in Seq(hops)
    BY <1>7, <2>1, BestIsPart, ContextConstants
  <2> QED BY <2>2, SeqItems
<1>10. ASSUME NEW p \in hops PROVE Leads(p, q.target)
  <2>1. Introduces(p, q.nodes, known, q.target)
    <3> HIDE DEF known
    <3>1. p \in Context!Hops(q.nodes, known, q.target)
      OBVIOUS
    <3> QED BY ONLY <3>1, HopsLead
  <2>2. known \subseteq x4
    OBVIOUS
  <2> HIDE DEF known
  <2> QED BY <1>5, <2>1, <2>2 DEF Leads, Introduces
<1> DEFINE a == <<"paths", q.target, found>>
<1>11. x6' = [x6 EXCEPT ![c] = Idle] /\ x7' = x7 \cup {a} /\ x8' = x8
  BY <1>3 DEF Context!Return
<1>12. AnswerSound(a)'
  <2> HIDE DEF hops
  <2>1. \A i \in DOMAIN found : Leads(found[i], q.target)
    BY <1>9, <1>10
  <2>2. \A i \in DOMAIN found : Leads(found[i], q.target)'
    BY <1>2, <2>1 DEF Leads
  <2> HIDE DEF Leads
  <2> QED BY <2>2 DEF AnswerSound
<1> HIDE DEF a
<1> QED BY <1>2, <1>11, <1>12, OpsStay, RequestOnly

-----------------------------------------------------------------------------
LEMMA ContextStep == ContextInv /\ [Context!Next]_(<<x1, x2, x3, x4, x5, x6, x7, x8>>) => ContextInv'
<1> SUFFICES ASSUME ContextInv, [Context!Next]_(<<x1, x2, x3, x4, x5, x6, x7, x8>>)
             PROVE  ContextInv'
  OBVIOUS
<1>1. ASSUME NEW c \in Actors, NEW b \in Contents, Context!PutBlob(c, b) PROVE ContextInv'
  BY <1>1, PutBlobStep
<1>2. ASSUME NEW c \in Actors, NEW b \in Contents, NEW d \in Docs, Context!ReadBody(c, d, b)
      PROVE  ContextInv'
  BY <1>2, ReadBodyStep
<1>3. ASSUME NEW c \in Actors,
             \/ Context!InsertBlob(c) \/ Context!WriteDistill(c)
             \/ \E summary \in BOOLEAN : Context!InsertDoc(c, summary)
             \/ Context!VectorArm(c) \/ Context!EntityArm(c) \/ Context!ReadLinks(c)
             \/ Context!CallFails(c)
      PROVE  ContextInv'
  BY <1>3, InsertBlobStep, InsertDocStep, WriteDistillStep, VectorArmStep, EntityArmStep,
     ReadLinksStep, CallFailsStep
<1>4. ASSUME NEW c \in Actors, NEW d \in Docs, Context!LoadDoc(c, d) PROVE ContextInv'
  BY <1>4, LoadDocStep
<1>5. ASSUME NEW c \in Actors, NEW a \in AnswersLlm, Context!Answer(c, a) PROVE ContextInv'
  BY <1>5, AnswerStep
<1>6. ASSUME NEW c \in Actors, NEW u \in Audiences, Context!FtsArm(c, u) PROVE ContextInv'
  BY <1>6, FtsArmStep
<1>7. ASSUME NEW c \in Actors, NEW k \in Entities, Context!ReadNodes(c, k) PROVE ContextInv'
  BY <1>7, ReadNodesStep
<1>8. ASSUME NEW b \in Contents, Context!PutKnownBlob(b) PROVE ContextInv'
  BY <1>8, PutKnownBlobStep
<1>9. CASE UNCHANGED <<x1, x2, x3, x4, x5, x6, x7, x8>>
  <2>1. Grows /\ Context!TypeOK' /\ Graded' /\ EventsSound'
    BY <1>9, StoreStays, OpsStay
  <2>2. ASSUME NEW r, RequestSound(r) PROVE RequestSound(r)'
    BY <2>1, <2>2, RequestStays
  <2>3. RequestsSound'
    <3> HIDE DEF RequestSound
    <3> QED BY <1>9, <2>2 DEF ContextInv, RequestsSound
  <2>4. AnswersSound'
    <3>1. ASSUME NEW r, AnswerSound(r) PROVE AnswerSound(r)'
      BY <2>1, <3>1, AnswerStays
    <3> HIDE DEF AnswerSound
    <3> QED BY <1>9, <3>1 DEF ContextInv, AnswersSound
  <2> QED BY <2>1, <2>3, <2>4 DEF ContextInv
<1>10. CASE Context!Next
  <2> HIDE DEF ContextInv
  <2> QED BY <1>1, <1>2, <1>3, <1>4, <1>5, <1>6, <1>7, <1>8, <1>10 DEF Context!Next
<1> QED BY <1>9, <1>10

LEMMA ContextInvariant == Spec => [](service = "context" => ContextInv)
<1> DEFINE Inv == service = "context" => ContextInv
<1>1. Init => Inv
  BY ContextBegins DEF Init
<1>2. Inv /\ [Next]_vars => Inv'
  <2> SUFFICES ASSUME Inv, [Next]_vars, service' = "context" PROVE ContextInv'
    OBVIOUS
  <2>1. service = "context"
    BY DEF Next, vars
  <2>2. [Context!Next]_(<<x1, x2, x3, x4, x5, x6, x7, x8>>)
    BY <2>1 DEF Next, vars
  <2> QED BY <2>1, <2>2, ContextStep
<1> QED BY <1>1, <1>2, PTL DEF Spec

(* Racing puts, ingests and distills write once, and every caller that put *)
(* a content has the id of the row.                                        *)
THEOREM StoreWritesOnce == Spec => []WrittenOnce
<1>1. (service = "context" => ContextInv) => WrittenOnce
  BY DEF ContextInv, EventsSound, AnswersSound, AnswerSound, WrittenOnce, Context!WrittenOnce
<1> QED BY <1>1, ContextInvariant, PTL

(* A search in the network returns no document that was prospect material  *)
(* when it began and nobody who is a prospect, and an introduction is a    *)
(* chain of the store's links from someone of the network past no          *)
(* prospect, whatever is distilled between their reads.                    *)
THEOREM ProspectsAreKeptOut == Spec => []ProspectsStayOut
<1>1. ASSUME ContextInv PROVE Context!ProspectsStayOut
  <2> SUFFICES ASSUME NEW r \in x7, r[1] = "search" /\ r[2] = "network", NEW i \in DOMAIN r[4]
               PROVE  IF r[4][i] \in Entities
                        THEN x3[r[4][i]] # 2 /\ (r[4][i] \in Contacts => x3[r[4][i]] = 1)
                        ELSE r[4][i][2] \notin r[3]
    BY DEF Context!ProspectsStayOut
  <2>1. PICK e : e = r[4][i]
    OBVIOUS
  <2>2. InNetwork(e, r[3])
    BY <1>1, <2>1 DEF ContextInv, AnswersSound, AnswerSound
  <2>3. CASE \E d \in Docs \ r[3] : e = <<"doc", d>>
    BY <2>1, <2>3, ContextConstants
  <2>4. CASE e \in DOMAIN x3 /\ x3[e] # 2 /\ (e \in Contacts => x3[e] = 1)
    BY <1>1, <2>1, <2>4 DEF ContextInv, Context!TypeOK
  <2> QED BY <2>2, <2>3, <2>4 DEF InNetwork
<1>2. ASSUME ContextInv PROVE Context!IntroductionsAreKnown
  <2>1. \A r \in x7 : r[1] = "paths" => \A i \in DOMAIN r[3] : Leads(r[3][i], r[2])
    BY <1>2 DEF ContextInv, AnswersSound, AnswerSound
  <2> QED BY <2>1 DEF Context!IntroductionsAreKnown, Leads
<1>3. (service = "context" => ContextInv) => ProspectsStayOut
  BY <1>1, <1>2 DEF ProspectsStayOut
<1> QED BY <1>3, ContextInvariant, PTL

-----------------------------------------------------------------------------
(* Process graphs, first what TopoOrder chooses from. *)

LEMMA GraphOrderIsSeq ==
  ASSUME NEW S, IsFiniteSet(S), NEW s \in Graph!SetToSeqs(S)
  PROVE  /\ s \in Seq(S) /\ Len(s) \in Nat /\ DOMAIN s = 1..Len(s)
         /\ \A i, j \in DOMAIN s : s[i] = s[j] => i = j
         /\ \A x \in S : \E i \in DOMAIN s : s[i] = x
<1>1. Graph!Cardinality(S) = Cardinality(S)
  BY DEF Graph!Cardinality, Cardinality
<1>2. PICK n \in Nat : n = Cardinality(S)
  BY FS_CardinalityType
<1>3. s \in [1..n -> S] /\ \A i, j \in 1..n : i # j => s[i] # s[j]
  BY <1>1, <1>2 DEF Graph!SetToSeqs
<1>4. s \in Injection(1..n, S)
  BY <1>3 DEF Injection, IsInjective
<1>5. IsFiniteSet(1..n) /\ Cardinality(1..n) = n
  BY <1>2, FS_Interval
<1>6. s \in Surjection(1..n, S)
  BY <1>2, <1>4, <1>5, FS_Injection
<1> QED BY <1>3, <1>6 DEF Surjection

LEMMA GraphConstants ==
  /\ IsFiniteSet(Keys)
  /\ \A t \in Templates \cup {Dynamic} :
       t.nodes \subseteq Keys /\ t.edges \subseteq t.nodes \X t.nodes
  /\ \A d \in Deltas : d.add \subseteq Keys /\ d.edges \subseteq Keys \X Keys
  /\ Idle \notin Templates \cup {Dynamic} /\ Idle \notin Actors /\ Idle \notin Graph!Jobs
BY ServicesAssumption DEF Graph!GraphAssumption, Graph!IsFiniteSet, IsFiniteSet

-----------------------------------------------------------------------------
(* Process graphs: x1 is saved, x2 run, x3 revision, x4 rules, x5 items,   *)
(* x6 caller, x7 engine, x8 change, x9 inbox, x10 crashes.                 *)

Item == [key: Keys, status: {"open", "done", "cancelled"}, by: Actors \cup {Idle},
         on: SUBSET Nat]

Proposal ==
  [at: {"requested", "parked", "committed", "settled", "dropped"}, delta: Deltas]

Reply == [change: Actors, verdict: {"approved", "denied"}]

RowsTyped ==
  /\ x1 \subseteq Templates /\ x2 \in Templates \cup {Dynamic, Idle}
  /\ x3 \in Nat /\ x4 \subseteq Keys
  /\ x5 \in Seq(Item) /\ \A j \in DOMAIN x5 : x5[j].on \subseteq 1..(j - 1)
  /\ DOMAIN x8 \subseteq Actors /\ IsFiniteSet(DOMAIN x8)
  /\ x8 \in [DOMAIN x8 -> Proposal]
  /\ x9 \in Seq(Reply) /\ x10 \in Nat

(* Before the run there is nothing of it.                                  *)
NothingAhead ==
  x2 = Idle => x5 = <<>> /\ x6 = Idle /\ x7 = Idle /\ DOMAIN x8 = {}

(* What is left to open, each node once, and items by their keys.          *)
Waiting(job) == {job.todo[i] : i \in DOMAIN job.todo}

KnownSound(ids) == \A k \in DOMAIN ids : ids[k] \in DOMAIN x5 /\ x5[ids[k]].key = k

NodesSound(job) ==
  /\ job \in Graph!Jobs
  /\ \A i, j \in DOMAIN job.todo : job.todo[i] = job.todo[j] => i = j
  /\ KnownSound(job.ids)

(* A node of the template is open, with the upstreams the template names.  *)
Wired(k) ==
  \E j \in DOMAIN x5 :
    /\ x5[j].key = k /\ x5[j].by = Idle
    /\ {x5[u].key : u \in x5[j].on} = Graph!Upstreams(x2.edges, k)

CallerSound ==
  x6 # Idle =>
    /\ x2 # Idle /\ NodesSound(x6) /\ x6.edges = x2.edges
    /\ Waiting(x6) \subseteq x2.nodes
    /\ \A k \in x2.nodes \ Waiting(x6) : k \in DOMAIN x6.ids /\ Wired(k)
    /\ \A i, j \in DOMAIN x6.todo :
         x6.todo[j] \in Graph!Upstreams(x2.edges, x6.todo[i]) => j < i

RunWhole ==
  x2 # Idle /\ x6 = Idle /\ x10 = 0 /\ Graph!TopoOrder(x2.nodes, x2.edges) # {} =>
    \A k \in x2.nodes : Wired(k)

(* The engine works at the verdict that is next, and only of that change   *)
(* are there items while it is not settled.                                *)
AtVerdict(c) == x9 # <<>> /\ x9[1].change = c /\ x9[1].verdict = "approved"

InboxSound ==
  /\ \A i \in DOMAIN x9 : x9[i].change \in DOMAIN x8
  /\ \A i, j \in DOMAIN x9 : x9[i].change = x9[j].change => i = j

ChangesSound == \A c \in DOMAIN x8 : x8[c].delta.skip \cap x2.protected = {}

ItemsSound ==
  /\ \A j \in DOMAIN x5 : x5[j].status = "cancelled" => x5[j].key \notin x2.protected
  /\ \A j \in DOMAIN x5 : x5[j].by # Idle =>
       /\ x5[j].by \in DOMAIN x8 /\ x8[x5[j].by].at # "requested"
       /\ x8[x5[j].by].at \in {"parked", "committed"} =>
            /\ x5[j].status # "cancelled" /\ AtVerdict(x5[j].by)
            /\ x5[j].key \in x8[x5[j].by].delta.add

OpenedOnce ==
  \A j, k \in DOMAIN x5 :
    j # k /\ x5[j].by # Idle /\ x5[j].by = x5[k].by => x5[j].key # x5[k].key

Opens(c) == {x5[j].key : j \in {i \in DOMAIN x5 : x5[i].by = c}}

EngineOk(e) ==
  /\ e = [change |-> e.change, skip |-> e.skip, base |-> e.base, known |-> e.known,
          job |-> e.job, written |-> e.written]
  /\ e.written \in BOOLEAN /\ e.change \in DOMAIN x8 /\ AtVerdict(e.change)
  /\ e.skip \subseteq x8[e.change].delta.skip
  /\ e.known \in UNION {[known -> Nat] : known \in SUBSET Keys} /\ KnownSound(e.known)
  /\ DOMAIN e.known \cap x8[e.change].delta.add = {}
  /\ e.job = Idle => ~e.written /\ Opens(e.change) = {}
  /\ e.job # Idle =>
       /\ NodesSound(e.job) /\ e.skip = {}
       /\ Waiting(e.job) \cap Opens(e.change) = {}
       /\ Waiting(e.job) \cup Opens(e.change) = x8[e.change].delta.add
  /\ e.written => x8[e.change].at = "committed"
  /\ ~e.written => e.base = x3 /\ x8[e.change].at \in {"parked", "committed"}

EngineSound == x7 # Idle => EngineOk(x7)

Counted == {c \in DOMAIN x8 : x8[c].at \in {"committed", "settled"}}

(* Every change that some policy lets through adds a node. *)
EachAdds ==
  \A d \in Deltas, t \in Templates \cup {Dynamic} : d.skip \cap t.protected = {} => d.add # {}

(* A change that adds nodes cannot begin again once it is committed.       *)
CountSound ==
  EachAdds =>
    /\ x3 = Cardinality(Counted)
    /\ \A c \in DOMAIN x8 : x8[c].at = "committed" => Opens(c) # {}
    /\ x7 # Idle /\ ~x7.written => x8[x7.change].at = "parked"

GraphInv ==
  /\ RowsTyped /\ NothingAhead /\ CallerSound /\ RunWhole /\ InboxSound /\ ChangesSound
  /\ ItemsSound /\ OpenedOnce /\ EngineSound /\ CountSound

(* Items are added and change their status only.                           *)
ItemsGrow ==
  /\ DOMAIN x5 \subseteq DOMAIN x5'
  /\ \A j \in DOMAIN x5 :
       x5'[j].key = x5[j].key /\ x5'[j].by = x5[j].by /\ x5'[j].on = x5[j].on

-----------------------------------------------------------------------------
LEMMA KnownStays ==
  ASSUME ItemsGrow, NEW ids, KnownSound(ids) PROVE KnownSound(ids)'
BY DEF ItemsGrow, KnownSound

LEMMA JobStays ==
  ASSUME ItemsGrow, NEW job, NodesSound(job) PROVE NodesSound(job)'
<1>1. KnownSound(job.ids)'
  BY KnownStays DEF NodesSound
<1> HIDE DEF KnownSound
<1> QED BY <1>1 DEF NodesSound

LEMMA WiredStays ==
  ASSUME RowsTyped, ItemsGrow, x2' = x2, NEW k, Wired(k) PROVE Wired(k)'
<1>1. PICK j \in DOMAIN x5 :
        /\ x5[j].key = k /\ x5[j].by = Idle
        /\ {x5[u].key : u \in x5[j].on} = Graph!Upstreams(x2.edges, k)
  BY DEF Wired
<1>2. \A u \in x5[j].on : u \in DOMAIN x5
  <2>1. DOMAIN x5 = 1..Len(x5) /\ Len(x5) \in Nat /\ x5[j].on \subseteq 1..(j - 1)
    BY DEF RowsTyped
  <2> QED BY <2>1
<1>3. j \in DOMAIN x5' /\ x5'[j].key = k /\ x5'[j].by = Idle /\ x5'[j].on = x5[j].on
  BY <1>1 DEF ItemsGrow
<1>4. \A u \in x5[j].on : x5'[u].key = x5[u].key
  BY <1>2 DEF ItemsGrow
<1>5. {x5'[u].key : u \in x5'[j].on} = {x5[u].key : u \in x5[j].on}
  BY <1>3, <1>4
<1>6. Graph!Upstreams(x2.edges, k)' = Graph!Upstreams(x2.edges, k)
  BY DEF Graph!Upstreams
<1> QED BY <1>1, <1>3, <1>5, <1>6 DEF Wired

LEMMA CallerStays ==
  ASSUME RowsTyped, CallerSound, ItemsGrow, UNCHANGED <<x2, x6>>
  PROVE  CallerSound'
<1> SUFFICES ASSUME x6 # Idle
             PROVE  /\ x2 # Idle /\ NodesSound(x6)' /\ x6.edges = x2.edges
                    /\ Waiting(x6) \subseteq x2.nodes
                    /\ \A k \in x2.nodes \ Waiting(x6) : k \in DOMAIN x6.ids /\ Wired(k)'
                    /\ \A i, j \in DOMAIN x6.todo :
                         x6.todo[j] \in Graph!Upstreams(x2.edges, x6.todo[i]) => j < i
  BY DEF CallerSound, Graph!Upstreams, Waiting
<1>1. PICK job : job = x6
  OBVIOUS
<1>2. NodesSound(job)'
  BY <1>1, JobStays DEF CallerSound
<1>3. NodesSound(x6)'
  BY <1>1, <1>2
<1>4. \A k \in x2.nodes \ Waiting(x6) : k \in DOMAIN x6.ids /\ Wired(k)'
  <2>1. ASSUME NEW k, Wired(k) PROVE Wired(k)'
    BY <2>1, WiredStays
  <2> HIDE DEF Wired
  <2> QED BY <2>1 DEF CallerSound
<1> QED BY <1>3, <1>4 DEF CallerSound

LEMMA RunStays ==
  ASSUME RowsTyped, RunWhole, ItemsGrow, UNCHANGED <<x2, x6>>, x10' = 0 => x10 = 0
  PROVE  RunWhole'
<1>1. ASSUME NEW k, Wired(k) PROVE Wired(k)'
  BY <1>1, WiredStays
<1>2. Graph!TopoOrder(x2.nodes, x2.edges)' = Graph!TopoOrder(x2.nodes, x2.edges)
  BY DEF Graph!TopoOrder, Graph!Upstreams
<1> HIDE DEF Wired
<1> QED BY <1>1, <1>2 DEF RunWhole

-----------------------------------------------------------------------------
(* What opening one item changes. *)
LEMMA HeadAndTail ==
  ASSUME NEW S, NEW s \in Seq(S), s # <<>>
  PROVE  /\ 1 \in DOMAIN s /\ Head(s) = s[1] /\ Head(s) \in S /\ Tail(s) \in Seq(S)
         /\ \A i \in DOMAIN Tail(s) : i + 1 \in DOMAIN s /\ Tail(s)[i] = s[i + 1] /\ i \in Nat
         /\ \A i \in DOMAIN s : i \in Nat /\ (i # 1 => i - 1 \in DOMAIN Tail(s))
OBVIOUS

LEMMA TailIsLeft ==
  ASSUME NEW job, job \in Graph!Jobs, job.todo # <<>>,
         \A i, j \in DOMAIN job.todo : job.todo[i] = job.todo[j] => i = j
  PROVE  /\ Head(job.todo) \in Waiting(job) /\ Head(job.todo) \in Keys
         /\ Tail(job.todo) \in Seq(Keys)
         /\ {Tail(job.todo)[i] : i \in DOMAIN Tail(job.todo)} = Waiting(job) \ {Head(job.todo)}
         /\ \A i, j \in DOMAIN Tail(job.todo) :
              Tail(job.todo)[i] = Tail(job.todo)[j] => i = j
<1>1. PICK s \in Seq(Keys) : s = job.todo
  BY DEF Graph!Jobs
<1>2. /\ 1 \in DOMAIN s /\ Head(s) = s[1] /\ Head(s) \in Keys /\ Tail(s) \in Seq(Keys)
      /\ \A i \in DOMAIN Tail(s) : i + 1 \in DOMAIN s /\ Tail(s)[i] = s[i + 1] /\ i \in Nat
      /\ \A i \in DOMAIN s : i \in Nat /\ (i # 1 => i - 1 \in DOMAIN Tail(s))
  BY <1>1, HeadAndTail
<1>3. \A i, j \in DOMAIN s : s[i] = s[j] => i = j
  BY <1>1
<1>4. ASSUME NEW i \in DOMAIN Tail(s) PROVE Tail(s)[i] \in Waiting(job) \ {Head(s)}
  <2>1. i + 1 \in DOMAIN s /\ Tail(s)[i] = s[i + 1] /\ i + 1 # 1 /\ i \in Nat
    BY <1>2
  <2>2. s[i + 1] # s[1]
    BY <1>2, <1>3, <2>1
  <2> QED BY <1>1, <1>2, <2>1, <2>2 DEF Waiting
<1>5. ASSUME NEW x \in Waiting(job) \ {Head(s)} PROVE \E i \in DOMAIN Tail(s) : x = Tail(s)[i]
  <2>1. PICK i \in DOMAIN s : x = s[i]
    BY <1>1 DEF Waiting
  <2>2. i # 1 /\ i - 1 \in DOMAIN Tail(s) /\ i \in Nat
    BY <1>2, <2>1
  <2>3. Tail(s)[i - 1] = s[(i - 1) + 1] /\ (i - 1) + 1 = i
    BY <1>2, <2>2
  <2> QED BY <2>1, <2>2, <2>3
<1>6. {Tail(s)[i] : i \in DOMAIN Tail(s)} = Waiting(job) \ {Head(s)}
  BY <1>4, <1>5
<1>7. ASSUME NEW i \in DOMAIN Tail(s), NEW j \in DOMAIN Tail(s), Tail(s)[i] = Tail(s)[j]
      PROVE  i = j
  <2>1. s[i + 1] = s[j + 1] /\ i + 1 \in DOMAIN s /\ j + 1 \in DOMAIN s /\ i \in Nat /\ j \in Nat
    BY <1>2, <1>7
  <2>2. i + 1 = j + 1
    BY <1>3, <2>1
  <2> QED BY <2>1, <2>2
<1>8. Head(s) \in Waiting(job)
  BY <1>1, <1>2 DEF Waiting
<1> QED BY <1>1, <1>2, <1>6, <1>7, <1>8

(* The row that one item is opened with. *)
NewRow(job, by) ==
  [key |-> Head(job.todo), status |-> "open", by |-> by,
   on |-> {job.ids[u] : u \in Graph!Upstreams(job.edges, Head(job.todo))}]

LEMMA AppendFacts ==
  ASSUME NEW S, NEW s \in Seq(S), NEW r \in S, NEW t, t = Append(s, r)
  PROVE  /\ t \in Seq(S) /\ Len(s) \in Nat /\ DOMAIN s = 1..Len(s)
         /\ DOMAIN t = DOMAIN s \cup {Len(s) + 1} /\ Len(s) + 1 \notin DOMAIN s
         /\ t[Len(s) + 1] = r /\ \A j \in DOMAIN s : t[j] = s[j]
OBVIOUS

LEMMA ItemOpens ==
  ASSUME RowsTyped, NEW job, NodesSound(job), Graph!Openable(job),
         NEW by \in Actors \cup {Idle}, Graph!OpenItem(job, by)
  PROVE  /\ ItemsGrow /\ x5' \in Seq(Item)
         /\ \A j \in DOMAIN x5' : x5'[j].on \subseteq 1..(j - 1)
         /\ DOMAIN x5' = DOMAIN x5 \cup {Len(x5) + 1} /\ Len(x5) + 1 \notin DOMAIN x5
         /\ \A j \in DOMAIN x5 : x5'[j] = x5[j]
         /\ x5'[Len(x5) + 1] = NewRow(job, by)
         /\ {x5'[u].key : u \in NewRow(job, by).on}
              = Graph!Upstreams(job.edges, Head(job.todo))
<1> DEFINE r == NewRow(job, by)
           ups == Graph!Upstreams(job.edges, Head(job.todo))
<1>1. x5' = Append(x5, r)
  BY DEF Graph!OpenItem, NewRow
<1>2. ups \subseteq DOMAIN job.ids /\ \A u \in ups : job.ids[u] \in DOMAIN x5 /\ x5[job.ids[u]].key = u
  BY DEF Graph!Openable, NodesSound, KnownSound
<1>3. x5 \in Seq(Item) /\ \A j \in DOMAIN x5 : x5[j].on \subseteq 1..(j - 1)
  BY DEF RowsTyped
<1>4. DOMAIN x5 = 1..Len(x5) /\ Len(x5) \in Nat
  BY <1>3, SeqItems
<1>5. r.on \subseteq DOMAIN x5 /\ r.key = Head(job.todo)
  BY <1>2 DEF NewRow
<1>6. r \in Item
  <2>1. Head(job.todo) \in Keys
    BY TailIsLeft DEF NodesSound, Graph!Openable
  <2>2. r.on \subseteq Nat
    BY <1>4, <1>5
  <2> QED BY <2>1, <2>2 DEF Item, NewRow
<1>7. {x5[u].key : u \in r.on} = ups
  BY <1>2 DEF NewRow
<1> HIDE DEF r, ups, Item
<1>8. /\ x5' \in Seq(Item) /\ DOMAIN x5' = DOMAIN x5 \cup {Len(x5) + 1}
      /\ Len(x5) + 1 \notin DOMAIN x5 /\ x5'[Len(x5) + 1] = r
      /\ \A j \in DOMAIN x5 : x5'[j] = x5[j]
  BY <1>1, <1>3, <1>6, AppendFacts
<1>9. ItemsGrow
  BY <1>8 DEF ItemsGrow
<1>10. \A j \in DOMAIN x5' : x5'[j].on \subseteq 1..(j - 1)
  <2> SUFFICES ASSUME NEW j \in DOMAIN x5' PROVE x5'[j].on \subseteq 1..(j - 1)
    OBVIOUS
  <2>1. CASE j \in DOMAIN x5
    BY <1>3, <1>8, <2>1
  <2>2. CASE j = Len(x5) + 1
    <3>1. 1..(j - 1) = DOMAIN x5
      BY <1>4, <2>2
    <3> QED BY <1>5, <1>8, <2>2, <3>1
  <2> QED BY <1>8, <2>1, <2>2
<1>11. {x5'[u].key : u \in r.on} = ups
  BY <1>5, <1>7, <1>8
<1> QED BY <1>8, <1>9, <1>10, <1>11 DEF r, ups

LEMMA JobMovesOn ==
  ASSUME RowsTyped, NEW job, NodesSound(job), Graph!Openable(job),
         NEW by \in Actors \cup {Idle}, Graph!OpenItem(job, by), NEW new, new = Graph!Opened(job)
  PROVE  /\ NodesSound(new)' /\ new # Idle /\ new.edges = job.edges
         /\ new.todo = Tail(job.todo) /\ DOMAIN new.ids = DOMAIN job.ids \cup {Head(job.todo)}
         /\ Waiting(new) = Waiting(job) \ {Head(job.todo)} /\ Head(job.todo) \in Waiting(job)
<1> DEFINE k == Head(job.todo)
<1>0. PICK n : n = Len(x5) + 1
  OBVIOUS
<1>1. new = [todo |-> Tail(job.todo), edges |-> job.edges,
             ids |-> [x \in DOMAIN job.ids \cup {k} |-> IF x = k THEN n ELSE job.ids[x]]]
  BY <1>0 DEF Graph!Opened
<1>2. /\ k \in Waiting(job) /\ k \in Keys /\ Tail(job.todo) \in Seq(Keys)
      /\ {Tail(job.todo)[i] : i \in DOMAIN Tail(job.todo)} = Waiting(job) \ {k}
      /\ \A i, j \in DOMAIN Tail(job.todo) : Tail(job.todo)[i] = Tail(job.todo)[j] => i = j
  BY TailIsLeft DEF NodesSound, Graph!Openable
<1> DEFINE ids == [x \in DOMAIN job.ids \cup {k} |-> IF x = k THEN n ELSE job.ids[x]]
<1>3. job \in Graph!Jobs /\ KnownSound(job.ids)
  BY DEF NodesSound
<1>4. /\ ItemsGrow /\ DOMAIN x5' = DOMAIN x5 \cup {n} /\ x5'[n] = NewRow(job, by)
  BY <1>0, ItemOpens
<1>5. n \in Nat
  BY <1>0, SeqItems DEF RowsTyped
<1>6. DOMAIN job.ids \subseteq Keys /\ job.ids \in [DOMAIN job.ids -> Nat] /\ job.edges \in SUBSET (Keys \X Keys)
  BY <1>3 DEF Graph!Jobs
<1>7. ids \in UNION {[known -> Nat] : known \in SUBSET Keys}
  <2>1. ids \in [DOMAIN job.ids \cup {k} -> Nat]
    BY <1>5, <1>6
  <2>2. DOMAIN job.ids \cup {k} \in SUBSET Keys
    BY <1>2, <1>6
  <2> HIDE DEF ids, k
  <2> QED BY <2>1, <2>2
<1>8. KnownSound(ids)'
  <2> SUFFICES ASSUME NEW x \in DOMAIN ids PROVE ids[x] \in DOMAIN x5' /\ x5'[ids[x]].key = x
    BY DEF KnownSound
  <2>1. CASE x = k
    <3>1. ids[x] = n /\ NewRow(job, by).key = k
      BY <2>1 DEF NewRow
    <3> QED BY <1>4, <2>1, <3>1
  <2>2. CASE x # k
    <3>1. ids[x] = job.ids[x] /\ x \in DOMAIN job.ids
      BY <2>2
    <3> QED BY <1>3, <1>4, <3>1 DEF KnownSound, ItemsGrow
  <2> QED BY <2>1, <2>2
<1>9. DOMAIN ids = DOMAIN job.ids \cup {k}
  OBVIOUS
<1> HIDE DEF ids
<1>10. new = [todo |-> Tail(job.todo), edges |-> job.edges, ids |-> ids]
  BY <1>1 DEF ids
<1>11. new \in Graph!Jobs /\ new # Idle
  <2>1. new \in Graph!Jobs
    BY <1>2, <1>6, <1>7, <1>10 DEF Graph!Jobs
  <2> QED BY <2>1, GraphConstants
<1>12. /\ new.todo = Tail(job.todo) /\ new.edges = job.edges /\ new.ids = ids
  BY <1>10
<1>13. Waiting(new) = Waiting(job) \ {k}
  BY <1>2, <1>12 DEF Waiting
<1>14. NodesSound(new)'
  <2> HIDE DEF KnownSound, k
  <2> QED BY <1>2, <1>8, <1>11, <1>12 DEF NodesSound
<1> QED BY <1>2, <1>9, <1>11, <1>12, <1>13, <1>14

LEMMA NothingKnown ==
  [k \in {} |-> 0] \in UNION {[known -> Nat] : known \in SUBSET Keys}
<1>1. [k \in {} |-> 0] \in [{} -> Nat] /\ {} \in SUBSET Keys
  OBVIOUS
<1> DEFINE none == [k \in {} |-> 0]
<1> HIDE DEF none
<1> QED BY <1>1 DEF none

(* A job begins with the nodes in an order of their edges. *)
Among(keys, edges) == {e \in edges : e[2] \in keys}

Index(ids) == ids \in UNION {[known -> Nat] : known \in SUBSET Keys}

Begun(job, keys, edges, ids) ==
  /\ NodesSound(job) /\ Waiting(job) = keys /\ job.edges = edges /\ job.ids = ids
  /\ \A i, j \in DOMAIN job.todo :
       job.todo[j] \in Graph!Upstreams(Among(keys, edges), job.todo[i]) => j < i

LEMMA JobBegins ==
  ASSUME NEW keys, keys \subseteq Keys, NEW edges, edges \subseteq Keys \X Keys,
         NEW ids, Index(ids), KnownSound(ids),
         NEW job, job = Graph!Opening(keys, edges, ids), job # Idle
  PROVE  Begun(job, keys, edges, ids)
<1> DEFINE among == Among(keys, edges)
           orders == Graph!TopoOrder(keys, among)
<1>0. PICK s : s = CHOOSE o \in orders : TRUE
  OBVIOUS
<1>1. orders # {} /\ job = [todo |-> s, edges |-> edges, ids |-> ids]
  BY <1>0 DEF Graph!Opening, Among
<1>2. s \in orders
  BY <1>0, <1>1
<1>3. /\ s \in Graph!SetToSeqs(keys)
      /\ \A i, j \in DOMAIN s : s[j] \in Graph!Upstreams(among, s[i]) => j < i
  BY <1>2 DEF Graph!TopoOrder
<1>4. IsFiniteSet(keys)
  BY GraphConstants, FS_Subset
<1>5. /\ s \in Seq(keys) /\ \A i, j \in DOMAIN s : s[i] = s[j] => i = j
      /\ \A x \in keys : \E i \in DOMAIN s : s[i] = x
      /\ Len(s) \in Nat /\ DOMAIN s = 1..Len(s)
  BY <1>3, <1>4, GraphOrderIsSeq
<1>6. {s[i] : i \in DOMAIN s} = keys
  BY <1>5
<1>7. s \in Seq(Keys)
  BY <1>5
<1> HIDE DEF among, orders
<1>8. job.todo = s /\ job.edges = edges /\ job.ids = ids
  BY <1>1
<1>9. job \in Graph!Jobs
  BY <1>1, <1>7 DEF Graph!Jobs, Index
<1>10. NodesSound(job)
  BY <1>5, <1>8, <1>9 DEF NodesSound
<1>11. Waiting(job) = keys
  BY <1>6, <1>8 DEF Waiting
<1> QED BY <1>1, <1>3, <1>8, <1>10, <1>11 DEF among, orders, Begun

-----------------------------------------------------------------------------
LEMMA OpensStay ==
  ASSUME ItemsGrow, NEW c, \A j \in DOMAIN x5' : j \in DOMAIN x5 \/ x5'[j].by # c
  PROVE  Opens(c)' = Opens(c)
BY DEF Opens, ItemsGrow

LEMMA EngineStays ==
  ASSUME NEW e, EngineOk(e), ItemsGrow, Opens(e.change)' = Opens(e.change), x3' = x3,
         e.change \in DOMAIN x8', x8'[e.change] = x8[e.change], AtVerdict(e.change)'
  PROVE  EngineOk(e)'
<1>1. KnownSound(e.known)'
  BY KnownStays DEF EngineOk
<1>2. e.job # Idle => NodesSound(e.job)'
  BY JobStays DEF EngineOk
<1> HIDE DEF KnownSound, NodesSound, Opens, AtVerdict, ItemsGrow
<1> QED BY <1>1, <1>2 DEF EngineOk

(* Steps that open no item for a change and leave the changes, the inbox   *)
(* and the engine alone.                                                   *)
LEMMA ChangesStay ==
  ASSUME GraphInv, ItemsGrow, UNCHANGED <<x3, x7, x8, x9>>,
         \A j \in DOMAIN x5' : j \in DOMAIN x5 \/ x5'[j].by = Idle
  PROVE  InboxSound' /\ EngineSound' /\ CountSound' /\ OpenedOnce'
<1>0. DOMAIN x8 \subseteq Actors
  BY DEF GraphInv, RowsTyped
<1>1. ASSUME NEW c \in DOMAIN x8 PROVE Opens(c)' = Opens(c)
  BY <1>0, <1>1, OpensStay, GraphConstants
<1>2. InboxSound'
  BY DEF GraphInv, InboxSound
<1>3. EngineSound'
  <2>1. PICK e : e = x7
    OBVIOUS
  <2>2. e # Idle => EngineOk(e) /\ e.change \in DOMAIN x8 /\ AtVerdict(e.change)'
    BY <2>1 DEF GraphInv, EngineSound, EngineOk, AtVerdict
  <2>3. e # Idle => EngineOk(e)'
    BY <1>1, <2>2, EngineStays
  <2> HIDE DEF EngineOk
  <2> QED BY <2>1, <2>3 DEF EngineSound
<1>4. CountSound'
  <2>1. Counted' = Counted
    BY DEF Counted
  <2>2. \A c \in DOMAIN x8 : Opens(c)' = Opens(c)
    BY <1>1
  <2> HIDE DEF Opens, Counted
  <2> QED BY <2>1, <2>2 DEF GraphInv, CountSound
<1>5. OpenedOnce'
  BY DEF GraphInv, OpenedOnce, ItemsGrow
<1> QED BY <1>2, <1>3, <1>4, <1>5

(* A step of the run: of what a change holds it moves statuses at most.    *)
LEMMA RunMoves ==
  ASSUME GraphInv, ItemsGrow, UNCHANGED <<x2, x3, x7, x8, x9>>, RowsTyped', NothingAhead',
         CallerSound', RunWhole', ChangesSound',
         \A j \in DOMAIN x5' : \/ j \in DOMAIN x5 /\ (x5'[j].status = "cancelled"
                                                        => x5[j].status = "cancelled")
                               \/ x5'[j].by = Idle /\ x5'[j].status # "cancelled"
  PROVE  GraphInv'
<1>1. InboxSound' /\ EngineSound' /\ CountSound' /\ OpenedOnce'
  BY ChangesStay
<1>2. ItemsSound'
  BY DEF GraphInv, ItemsSound, ItemsGrow, AtVerdict
<1> QED BY <1>1, <1>2 DEF GraphInv

(* A step that leaves run and items alone. *)
LEMMA QuietStep ==
  ASSUME GraphInv, UNCHANGED <<x2, x3, x4, x5, x6, x7, x8, x9>>, x1' \subseteq Templates,
         x10' = x10
  PROVE  GraphInv'
<1>1. ItemsGrow
  BY DEF ItemsGrow
<1>2. CallerSound' /\ RunWhole'
  BY <1>1, CallerStays, RunStays DEF GraphInv
<1>3. RowsTyped' /\ NothingAhead' /\ ChangesSound'
  BY DEF GraphInv, RowsTyped, NothingAhead, ChangesSound
<1> QED BY <1>1, <1>2, <1>3, RunMoves

LEMMA SaveTemplateStep ==
  ASSUME GraphInv, NEW t \in Templates, Graph!SaveTemplate(t)
  PROVE  GraphInv'
<1>1. UNCHANGED <<x2, x3, x4, x5, x6, x7, x8, x9, x10>> /\ x1' = x1 \cup {t}
  BY DEF Graph!SaveTemplate, Graph!graph
<1>2. x1' \subseteq Templates
  BY <1>1 DEF GraphInv, RowsTyped
<1> QED BY <1>1, <1>2, QuietStep

LEMMA InstantiateStep ==
  ASSUME GraphInv, NEW t \in Templates \cup {Dynamic}, Graph!Instantiate(t)
  PROVE  GraphInv'
<1>1. PICK job : job = Graph!Opening(t.nodes, t.edges, [k \in {} |-> 0])
  OBVIOUS
<1>2. /\ x2 = Idle /\ x2' = t /\ x4' = t.nodes \cap t.watched /\ x6' = job
      /\ UNCHANGED <<x1, x3, x5, x7, x8, x9, x10>>
  BY <1>1 DEF Graph!Instantiate, Graph!BindWatchRules
<1>3. x5 = <<>> /\ x7 = Idle /\ DOMAIN x8 = {} /\ t # Idle
  BY <1>2, GraphConstants DEF GraphInv, NothingAhead
<1>4. ItemsGrow /\ DOMAIN x5 = {}
  BY <1>2, <1>3 DEF ItemsGrow
<1>5. t.nodes \subseteq Keys /\ t.edges \subseteq t.nodes \X t.nodes
  BY GraphConstants
<1>6. RowsTyped'
  BY <1>2, <1>5 DEF GraphInv, RowsTyped
<1>7. NothingAhead' /\ ChangesSound'
  BY <1>2, <1>3 DEF NothingAhead, ChangesSound
<1>8. Among(t.nodes, t.edges) = t.edges
  BY <1>5 DEF Among
<1>9. CallerSound'
  <2> SUFFICES ASSUME job # Idle
               PROVE  /\ NodesSound(job)' /\ job.edges = t.edges /\ Waiting(job) = t.nodes
                      /\ \A i, j \in DOMAIN job.todo :
                           job.todo[j] \in Graph!Upstreams(t.edges, job.todo[i]) => j < i
    BY <1>2, <1>3 DEF CallerSound, Graph!Upstreams, Waiting, NodesSound, KnownSound
  <2>1. PICK nodes, edges, none :
          nodes = t.nodes /\ edges = t.edges /\ none = [k \in {} |-> 0]
    OBVIOUS
  <2>2. KnownSound(none)
    BY <2>1 DEF KnownSound
  <2>3. edges \subseteq Keys \X Keys /\ nodes \subseteq Keys
    BY <1>5, <2>1
  <2>4. job = Graph!Opening(nodes, edges, none)
    BY <1>1, <2>1
  <2>5. /\ NodesSound(job) /\ Waiting(job) = nodes /\ job.edges = edges
        /\ \A i, j \in DOMAIN job.todo :
             job.todo[j] \in Graph!Upstreams(Among(nodes, edges), job.todo[i]) => j < i
    <3>1. Index(none)
      BY <2>1, NothingKnown DEF Index
    <3>2. PICK new : new = job
      OBVIOUS
    <3>3. new = Graph!Opening(nodes, edges, none) /\ new # Idle
      BY <2>4, <3>2
    <3>4. Begun(new, nodes, edges, none)
      BY ONLY <2>2, <2>3, <3>1, <3>3, JobBegins
    <3> HIDE DEF NodesSound, Waiting
    <3> QED BY <3>2, <3>4 DEF Begun
  <2>6. NodesSound(job)'
    BY <1>4, <2>5, JobStays
  <2> HIDE DEF NodesSound
  <2> QED BY <1>8, <2>1, <2>5, <2>6
<1>10. RunWhole'
  <2> SUFFICES ASSUME job = Idle, Graph!TopoOrder(t.nodes, t.edges) # {} PROVE FALSE
    BY <1>2 DEF RunWhole, Graph!TopoOrder, Graph!Upstreams
  <2>1. PICK s : s = CHOOSE o \in Graph!TopoOrder(t.nodes, t.edges) : TRUE
    OBVIOUS
  <2>2. job = [todo |-> s, edges |-> t.edges, ids |-> [k \in {} |-> 0]]
    BY <1>1, <1>8, <2>1 DEF Graph!Opening, Among
  <2>3. s \in Graph!SetToSeqs(t.nodes)
    BY <2>1 DEF Graph!TopoOrder
  <2>4. s \in Seq(t.nodes)
    BY <1>5, <2>3, GraphConstants, FS_Subset, GraphOrderIsSeq
  <2>5. s \in Seq(Keys)
    BY <1>5, <2>4
  <2>6. PICK none : none = [k \in {} |-> 0]
    OBVIOUS
  <2>7. t.edges \in SUBSET (Keys \X Keys)
    BY <1>5
  <2>8. job \in Graph!Jobs
    <3>1. none \in UNION {[known -> Nat] : known \in SUBSET Keys}
      BY <2>6, NothingKnown
    <3>2. job = [todo |-> s, edges |-> t.edges, ids |-> none]
      BY <2>2, <2>6
    <3> QED BY <2>5, <2>7, <3>1, <3>2 DEF Graph!Jobs
  <2> QED BY <2>8, GraphConstants
<1>11. InboxSound' /\ EngineSound' /\ CountSound' /\ OpenedOnce'
  BY <1>2, <1>4, ChangesStay
<1>12. ItemsSound'
  BY <1>2, <1>4 DEF ItemsSound
<1> QED BY <1>6, <1>7, <1>9, <1>10, <1>11, <1>12 DEF GraphInv

LEMMA OpenNodeStep == ASSUME GraphInv, Graph!OpenNode PROVE GraphInv'
<1>1. PICK job : job = x6
  OBVIOUS
<1>2. PICK new : new = Graph!Opened(job)
  OBVIOUS
<1> DEFINE k == Head(job.todo)
           n == Len(x5) + 1
<1>3. /\ job # Idle /\ Graph!Openable(job) /\ Graph!OpenItem(job, Idle) /\ x6' = new
      /\ UNCHANGED <<x1, x2, x3, x4, x7, x8, x9, x10>>
  BY <1>1, <1>2 DEF Graph!OpenNode
<1>4. /\ x2 # Idle /\ NodesSound(job) /\ job.edges = x2.edges
      /\ Waiting(job) \subseteq x2.nodes
      /\ \A m \in x2.nodes \ Waiting(job) : m \in DOMAIN job.ids /\ Wired(m)
      /\ \A i, j \in DOMAIN job.todo :
           job.todo[j] \in Graph!Upstreams(x2.edges, job.todo[i]) => j < i
  BY <1>1, <1>3 DEF GraphInv, CallerSound
<1>5. /\ ItemsGrow /\ x5' \in Seq(Item)
      /\ \A j \in DOMAIN x5' : x5'[j].on \subseteq 1..(j - 1)
      /\ DOMAIN x5' = DOMAIN x5 \cup {n} /\ n \notin DOMAIN x5
      /\ \A j \in DOMAIN x5 : x5'[j] = x5[j]
      /\ x5'[n] = NewRow(job, Idle)
      /\ {x5'[u].key : u \in NewRow(job, Idle).on} = Graph!Upstreams(job.edges, k)
  BY <1>3, <1>4, ItemOpens DEF GraphInv
<1>6. /\ NodesSound(new)' /\ new # Idle /\ new.edges = job.edges
      /\ new.todo = Tail(job.todo) /\ DOMAIN new.ids = DOMAIN job.ids \cup {k}
      /\ Waiting(new) = Waiting(job) \ {k} /\ k \in Waiting(job)
  BY <1>2, <1>3, <1>4, JobMovesOn DEF GraphInv
<1>7. NewRow(job, Idle).key = k /\ NewRow(job, Idle).by = Idle /\ NewRow(job, Idle).status = "open"
  BY DEF NewRow
<1> HIDE DEF n, Item
<1>8. RowsTyped'
  BY <1>3, <1>5 DEF GraphInv, RowsTyped
<1>9. NothingAhead' /\ ChangesSound' /\ RunWhole'
  BY <1>3, <1>4, <1>6 DEF GraphInv, NothingAhead, ChangesSound, RunWhole
<1>10. CallerSound'
  <2>1. ASSUME NEW m \in x2.nodes \ Waiting(new) PROVE m \in DOMAIN new.ids /\ Wired(m)'
    <3>1. CASE m = k
      <4>1. /\ n \in DOMAIN x5' /\ x5'[n].key = k /\ x5'[n].by = Idle
            /\ {x5'[u].key : u \in x5'[n].on} = Graph!Upstreams(x2.edges, k)
        BY <1>4, <1>5, <1>7
      <4>2. Graph!Upstreams(x2.edges, k)' = Graph!Upstreams(x2.edges, k)
        BY <1>1, <1>3 DEF Graph!Upstreams
      <4>3. Wired(m)'
        BY <1>3, <3>1, <4>1 DEF Wired, Graph!Upstreams
      <4> QED BY <1>6, <3>1, <4>3
    <3>2. CASE m # k
      <4>1. m \in DOMAIN job.ids /\ Wired(m)
        BY <1>4, <1>6, <2>1, <3>2
      <4>2. Wired(m)'
        BY <1>3, <1>5, <4>1, WiredStays DEF GraphInv
      <4> QED BY <1>6, <4>1, <4>2
    <3> QED BY <3>1, <3>2
  <2>2. \A i, j \in DOMAIN new.todo :
          new.todo[j] \in Graph!Upstreams(x2.edges, new.todo[i]) => j < i
    <3>1. PICK s \in Seq(Keys) : s = job.todo
      BY <1>4 DEF NodesSound, Graph!Jobs
    <3>2. s # <<>>
      BY <1>3, <3>1 DEF Graph!Openable
    <3>3. \A i \in DOMAIN Tail(s) : i + 1 \in DOMAIN s /\ Tail(s)[i] = s[i + 1] /\ i \in Nat
      BY <3>2, HeadAndTail
    <3>4. ASSUME NEW i \in DOMAIN Tail(s), NEW j \in DOMAIN Tail(s),
                 Tail(s)[j] \in Graph!Upstreams(x2.edges, Tail(s)[i])
          PROVE  j < i
      <4>1. /\ i + 1 \in DOMAIN s /\ j + 1 \in DOMAIN s /\ i \in Nat /\ j \in Nat
            /\ s[j + 1] \in Graph!Upstreams(x2.edges, s[i + 1])
        BY <3>3, <3>4
      <4>2. j + 1 < i + 1
        BY <1>4, <3>1, <4>1
      <4> QED BY <4>1, <4>2
    <3> QED BY <1>6, <3>1, <3>4
  <2>3. Waiting(new) \subseteq x2.nodes
    BY <1>4, <1>6
  <2>4. x6' = new /\ x2' = x2 /\ new.edges = x2.edges /\ NodesSound(new)' /\ x2 # Idle
    BY <1>3, <1>4, <1>6
  <2>5. \A m \in x2.nodes \ Waiting(new) : m \in DOMAIN new.ids /\ Wired(m)'
    BY <2>1
  <2> HIDE DEF Wired
  <2> QED BY <2>2, <2>3, <2>4, <2>5 DEF CallerSound, NodesSound, KnownSound, Waiting, Graph!Upstreams
<1>11. \A j \in DOMAIN x5' : \/ j \in DOMAIN x5 /\ (x5'[j].status = "cancelled"
                                                     => x5[j].status = "cancelled")
                             \/ x5'[j].by = Idle /\ x5'[j].status # "cancelled"
  BY <1>5, <1>7
<1> QED BY <1>3, <1>5, <1>8, <1>9, <1>10, <1>11, RunMoves

LEMMA InstantiatedStep == ASSUME GraphInv, Graph!Instantiated PROVE GraphInv'
<1>1. /\ x6 # Idle /\ ~Graph!Openable(x6) /\ x6' = Idle
      /\ UNCHANGED <<x1, x2, x3, x4, x5, x7, x8, x9, x10>>
  BY DEF Graph!Instantiated, Graph!graph
<1>2. PICK job : job = x6
  OBVIOUS
<1>3. /\ x2 # Idle /\ NodesSound(job) /\ job.edges = x2.edges
      /\ Waiting(job) \subseteq x2.nodes
      /\ \A m \in x2.nodes \ Waiting(job) : m \in DOMAIN job.ids /\ Wired(m)
      /\ \A i, j \in DOMAIN job.todo :
           job.todo[j] \in Graph!Upstreams(x2.edges, job.todo[i]) => j < i
  BY <1>1, <1>2 DEF GraphInv, CallerSound
<1>4. job.todo = <<>>
  <2> SUFFICES ASSUME job.todo # <<>> PROVE FALSE
    OBVIOUS
  <2>1. PICK s \in Seq(Keys) : s = job.todo
    BY <1>3 DEF NodesSound, Graph!Jobs
  <2>2. 1 \in DOMAIN s /\ Head(s) = s[1] /\ \A i \in DOMAIN s : i \in Nat /\ i >= 1
    BY <2>1, HeadAndTail
  <2>3. PICK u \in Graph!Upstreams(x2.edges, s[1]) : u \notin DOMAIN job.ids
    BY <1>1, <1>2, <1>3, <2>1, <2>2 DEF Graph!Openable
  <2>4. u \in x2.nodes
    <3>1. x2.edges \subseteq x2.nodes \X x2.nodes
      BY <1>3, GraphConstants DEF GraphInv, RowsTyped
    <3> QED BY <2>3, <3>1 DEF Graph!Upstreams
  <2>5. u \in Waiting(job)
    BY <1>3, <2>3, <2>4
  <2>6. PICK i \in DOMAIN s : u = s[i]
    BY <2>1, <2>5 DEF Waiting
  <2>7. i < 1
    BY <1>3, <2>1, <2>2, <2>3, <2>6
  <2> QED BY <2>2, <2>6, <2>7
<1>5. \A k \in x2.nodes : Wired(k)
  <2>1. Waiting(job) = {}
    BY <1>4 DEF Waiting
  <2> QED BY <1>3, <2>1
<1>6. ItemsGrow
  BY <1>1 DEF ItemsGrow
<1>7. RunWhole'
  <2>1. ASSUME NEW k \in x2.nodes PROVE Wired(k)'
    BY <1>1, <1>5, <1>6, WiredStays DEF GraphInv
  <2> HIDE DEF Wired
  <2> QED BY <1>1, <2>1 DEF RunWhole
<1>8. RowsTyped' /\ NothingAhead' /\ ChangesSound' /\ CallerSound'
  BY <1>1 DEF GraphInv, RowsTyped, NothingAhead, ChangesSound, CallerSound
<1> QED BY <1>1, <1>6, <1>7, <1>8, RunMoves

LEMMA StatusMoves ==
  ASSUME RowsTyped, NEW j \in DOMAIN x5, NEW status \in {"open", "done", "cancelled"},
         x5' = [x5 EXCEPT ![j].status = status]
  PROVE  /\ ItemsGrow /\ x5' \in Seq(Item) /\ DOMAIN x5' = DOMAIN x5
         /\ x5'[j].status = status /\ \A i \in DOMAIN x5 : i # j => x5'[i] = x5[i]
         /\ \A i \in DOMAIN x5' : x5'[i].on \subseteq 1..(i - 1)
<1>1. x5 \in Seq(Item) /\ \A i \in DOMAIN x5 : x5[i].on \subseteq 1..(i - 1)
  BY DEF RowsTyped
<1>2. PICK g : g = x5[j]
  OBVIOUS
<1> DEFINE h == [g EXCEPT !.status = status]
<1>3. x5' = [x5 EXCEPT ![j] = h]
  BY <1>2
<1>4. g \in Item
  <2> HIDE DEF Item
  <2> QED BY <1>1, <1>2, SeqItems
<1>5. h \in Item /\ h.key = g.key /\ h.by = g.by /\ h.on = g.on /\ h.status = status
  BY <1>4 DEF Item
<1> HIDE DEF h, Item
<1>6. DOMAIN x5' = DOMAIN x5 /\ x5'[j] = h /\ \A i \in DOMAIN x5 : i # j => x5'[i] = x5[i]
  BY <1>3
<1>7. x5' \in Seq(Item)
  BY <1>1, <1>3, <1>5
<1> QED BY <1>1, <1>2, <1>5, <1>6, <1>7 DEF ItemsGrow

LEMMA FinishNodeStep ==
  ASSUME GraphInv, NEW j \in DOMAIN x5, Graph!FinishNode(j)
  PROVE  GraphInv'
<1>1. /\ x5' = [x5 EXCEPT ![j].status = "done"]
      /\ UNCHANGED <<x1, x2, x3, x4, x6, x7, x8, x9, x10>>
  BY DEF Graph!FinishNode
<1>2. /\ ItemsGrow /\ x5' \in Seq(Item) /\ DOMAIN x5' = DOMAIN x5
      /\ x5'[j].status = "done" /\ \A i \in DOMAIN x5 : i # j => x5'[i] = x5[i]
      /\ \A i \in DOMAIN x5' : x5'[i].on \subseteq 1..(i - 1)
  BY <1>1, StatusMoves DEF GraphInv
<1>3. CallerSound' /\ RunWhole'
  BY <1>1, <1>2, CallerStays, RunStays DEF GraphInv
<1>4. RowsTyped'
  BY <1>1, <1>2 DEF GraphInv, RowsTyped
<1>5. x2 # Idle
  BY DEF GraphInv, NothingAhead
<1>6. NothingAhead' /\ ChangesSound'
  BY <1>1, <1>5 DEF GraphInv, NothingAhead, ChangesSound
<1>7. \A i \in DOMAIN x5' : x5'[i].status = "cancelled" => x5[i].status = "cancelled"
  BY <1>2
<1> QED BY <1>1, <1>2, <1>3, <1>4, <1>6, <1>7, RunMoves

-----------------------------------------------------------------------------
(* Steps of the changes that leave the items alone.                        *)
LEMMA RunRests ==
  ASSUME GraphInv, UNCHANGED <<x2, x5, x6>>, x10' = 0 => x10 = 0
  PROVE  ItemsGrow /\ CallerSound' /\ RunWhole' /\ OpenedOnce' /\ \A c : Opens(c)' = Opens(c)
<1>1. ItemsGrow
  BY DEF ItemsGrow
<1>2. CallerSound' /\ RunWhole'
  BY <1>1, CallerStays, RunStays DEF GraphInv
<1>3. OpenedOnce' /\ \A c : Opens(c)' = Opens(c)
  BY DEF GraphInv, OpenedOnce, Opens
<1> QED BY <1>1, <1>2, <1>3

LEMMA ProposeChangeStep ==
  ASSUME GraphInv, NEW c \in Actors, NEW d \in Deltas, Graph!ProposeGraphChange(c, d)
  PROVE  GraphInv'
<1> DEFINE r == [at |-> "requested", delta |-> d]
<1>1. /\ x2 # Idle /\ c \notin DOMAIN x8 /\ d.skip \cap x2.protected = {}
      /\ x8' = [x \in DOMAIN x8 \cup {c} |-> IF x = c THEN r ELSE x8[x]]
      /\ UNCHANGED <<x1, x2, x3, x4, x5, x6, x7, x9, x10>>
  BY DEF Graph!ProposeGraphChange, Graph!Allowed, Graph!graph
<1>2. r \in Proposal /\ r.at = "requested" /\ r.delta = d
  BY DEF Proposal
<1> HIDE DEF r, Proposal
<1>3. /\ DOMAIN x8' = DOMAIN x8 \cup {c} /\ x8'[c] = r /\ \A x \in DOMAIN x8 : x8'[x] = x8[x]
  BY <1>1
<1>4. ItemsGrow /\ CallerSound' /\ RunWhole' /\ OpenedOnce' /\ \A x : Opens(x)' = Opens(x)
  BY <1>1, RunRests
<1>5. RowsTyped'
  <2>1. x8 \in [DOMAIN x8 -> Proposal] /\ IsFiniteSet(DOMAIN x8)
    BY DEF GraphInv, RowsTyped
  <2>2. x8' \in [DOMAIN x8' -> Proposal]
    BY <1>1, <1>2, <1>3, <2>1
  <2>3. IsFiniteSet(DOMAIN x8')
    BY <1>3, <2>1, FS_AddElement
  <2> QED BY <1>1, <1>3, <2>2, <2>3 DEF GraphInv, RowsTyped
<1>6. NothingAhead' /\ InboxSound' /\ ChangesSound'
  BY <1>1, <1>2, <1>3 DEF GraphInv, NothingAhead, InboxSound, ChangesSound
<1>7. ItemsSound'
  BY <1>1, <1>3 DEF GraphInv, ItemsSound, AtVerdict
<1>8. EngineSound'
  <2>1. PICK e : e = x7
    OBVIOUS
  <2>2. e # Idle => EngineOk(e) /\ e.change \in DOMAIN x8 /\ AtVerdict(e.change)'
    BY <1>1, <2>1 DEF GraphInv, EngineSound, EngineOk, AtVerdict
  <2>3. e # Idle => EngineOk(e)'
    BY <1>1, <1>3, <1>4, <2>2, EngineStays
  <2> HIDE DEF EngineOk
  <2> QED BY <1>1, <2>1, <2>3 DEF EngineSound
<1>9. CountSound'
  <2>1. Counted' = Counted
    BY <1>2, <1>3 DEF Counted
  <2>2. \A x \in DOMAIN x8' : x8'[x].at = "committed" => x \in DOMAIN x8 /\ x8[x].at = "committed"
    BY <1>2, <1>3
  <2>3. x7 # Idle => x8'[x7.change] = x8[x7.change]
    BY <1>3 DEF GraphInv, EngineSound, EngineOk
  <2> HIDE DEF Counted, Opens
  <2> QED BY <1>1, <1>4, <2>1, <2>2, <2>3 DEF GraphInv, CountSound
<1> QED BY <1>4, <1>5, <1>6, <1>7, <1>8, <1>9 DEF GraphInv

(* How far one change has come, while the engine rests or is at another.   *)
LEMMA ChangeMoves ==
  ASSUME GraphInv, NEW c \in DOMAIN x8,
         NEW at \in {"requested", "parked", "committed", "settled", "dropped"},
         x8' = [x8 EXCEPT ![c].at = at]
  PROVE  /\ DOMAIN x8' = DOMAIN x8 /\ x8'[c].at = at /\ x8'[c].delta = x8[c].delta
         /\ \A x \in DOMAIN x8 : x # c => x8'[x] = x8[x]
         /\ x8' \in [DOMAIN x8' -> Proposal]
<1>1. PICK g : g = x8[c]
  OBVIOUS
<1>2. x8 \in [DOMAIN x8 -> Proposal] /\ g \in Proposal
  BY <1>1 DEF GraphInv, RowsTyped
<1> DEFINE h == [g EXCEPT !.at = at]
<1>3. x8' = [x8 EXCEPT ![c] = h]
  BY <1>1
<1>4. h \in Proposal /\ h.at = at /\ h.delta = g.delta
  BY <1>2 DEF Proposal
<1> HIDE DEF h, Proposal
<1>5. DOMAIN x8' = DOMAIN x8 /\ x8'[c] = h /\ \A x \in DOMAIN x8 : x # c => x8'[x] = x8[x]
  BY <1>2, <1>3
<1> QED BY <1>1, <1>2, <1>3, <1>4, <1>5

LEMMA ParkChangeStep ==
  ASSUME GraphInv, NEW c \in Actors, Graph!ParkChange(c)
  PROVE  GraphInv'
<1>1. /\ c \in DOMAIN x8 /\ x8[c].at = "requested" /\ x8' = [x8 EXCEPT ![c].at = "parked"]
      /\ UNCHANGED <<x1, x2, x3, x4, x5, x6, x7, x9, x10>>
  BY DEF Graph!ParkChange, Graph!graph
<1>2. /\ DOMAIN x8' = DOMAIN x8 /\ x8'[c].at = "parked" /\ x8'[c].delta = x8[c].delta
      /\ \A x \in DOMAIN x8 : x # c => x8'[x] = x8[x]
      /\ x8' \in [DOMAIN x8' -> Proposal]
  BY <1>1, ChangeMoves
<1> HIDE DEF Proposal
<1>3. ItemsGrow /\ CallerSound' /\ RunWhole' /\ OpenedOnce' /\ \A x : Opens(x)' = Opens(x)
  BY <1>1, RunRests
<1>4. RowsTyped' /\ NothingAhead' /\ InboxSound' /\ ChangesSound'
  BY <1>1, <1>2 DEF GraphInv, RowsTyped, NothingAhead, InboxSound, ChangesSound
<1>5. \A j \in DOMAIN x5 : x5[j].by # c
  BY <1>1, GraphConstants DEF GraphInv, ItemsSound
<1>6. ItemsSound'
  BY <1>1, <1>2, <1>5 DEF GraphInv, ItemsSound, AtVerdict
<1>7. x7 # Idle => x7.change \in DOMAIN x8 /\ x7.change # c
  BY <1>1 DEF GraphInv, EngineSound, EngineOk
<1>8. EngineSound'
  <2>1. PICK e : e = x7
    OBVIOUS
  <2>2. e # Idle => EngineOk(e) /\ e.change \in DOMAIN x8 /\ AtVerdict(e.change)'
    BY <1>1, <2>1 DEF GraphInv, EngineSound, EngineOk, AtVerdict
  <2>3. e # Idle => EngineOk(e)'
    BY <1>1, <1>2, <1>3, <1>7, <2>1, <2>2, EngineStays
  <2> HIDE DEF EngineOk
  <2> QED BY <1>1, <2>1, <2>3 DEF EngineSound
<1>9. CountSound'
  <2>1. Counted' = Counted
    BY <1>1, <1>2 DEF Counted
  <2> HIDE DEF Counted, Opens
  <2> QED BY <1>1, <1>2, <1>3, <1>7, <2>1 DEF GraphInv, CountSound
<1> QED BY <1>3, <1>4, <1>6, <1>8, <1>9 DEF GraphInv

LEMMA ResolveChangeStep ==
  ASSUME GraphInv, NEW c \in Actors, NEW v \in {"approved", "denied"}, Graph!Resolve(c, v)
  PROVE  GraphInv'
<1> DEFINE r == [change |-> c, verdict |-> v]
<1>1. /\ c \in DOMAIN x8 /\ \A k \in DOMAIN x9 : x9[k].change # c
      /\ x8[c].at \in {"requested", "parked"} /\ x9' = Append(x9, r)
      /\ UNCHANGED <<x1, x2, x3, x4, x5, x6, x7, x8, x10>>
  BY DEF Graph!Resolve, Graph!graph
<1>2. r \in Reply /\ r.change = c
  BY DEF Reply
<1>3. x9 \in Seq(Reply)
  BY DEF GraphInv, RowsTyped
<1> HIDE DEF r, Reply
<1>4. /\ x9' \in Seq(Reply) /\ Len(x9) \in Nat /\ DOMAIN x9 = 1..Len(x9)
      /\ DOMAIN x9' = DOMAIN x9 \cup {Len(x9) + 1} /\ Len(x9) + 1 \notin DOMAIN x9
      /\ x9'[Len(x9) + 1] = r /\ \A j \in DOMAIN x9 : x9'[j] = x9[j]
  BY <1>1, <1>2, <1>3, AppendFacts
<1>5. ASSUME NEW x, AtVerdict(x) PROVE AtVerdict(x)'
  <2>1. 1 \in DOMAIN x9
    BY <1>3, <1>5, HeadAndTail DEF AtVerdict
  <2> QED BY <1>4, <1>5, <2>1 DEF AtVerdict
<1>6. ItemsGrow /\ CallerSound' /\ RunWhole' /\ OpenedOnce' /\ \A x : Opens(x)' = Opens(x)
  BY <1>1, RunRests
<1>7. RowsTyped' /\ NothingAhead' /\ ChangesSound'
  BY <1>1, <1>4 DEF GraphInv, RowsTyped, NothingAhead, ChangesSound
<1>8. InboxSound'
  BY <1>1, <1>2, <1>4 DEF GraphInv, InboxSound
<1>9. ItemsSound'
  <2> HIDE DEF AtVerdict
  <2> QED BY <1>1, <1>5 DEF GraphInv, ItemsSound
<1>10. EngineSound'
  <2>1. PICK e : e = x7
    OBVIOUS
  <2>2. e # Idle => EngineOk(e) /\ e.change \in DOMAIN x8 /\ AtVerdict(e.change)
    BY <2>1 DEF GraphInv, EngineSound, EngineOk
  <2>3. e # Idle => EngineOk(e)'
    <3> HIDE DEF EngineOk, AtVerdict
    <3> QED BY <1>1, <1>5, <1>6, <2>2, EngineStays
  <2> HIDE DEF EngineOk
  <2> QED BY <1>1, <2>1, <2>3 DEF EngineSound
<1>11. CountSound'
  <2>1. Counted' = Counted
    BY <1>1 DEF Counted
  <2> HIDE DEF Counted, Opens
  <2> QED BY <1>1, <1>6, <2>1 DEF GraphInv, CountSound
<1> QED BY <1>6, <1>7, <1>8, <1>9, <1>10, <1>11 DEF GraphInv

(* No item of a change is in the way of the verdict that is next.          *)
LEMMA DropChangeStep == ASSUME GraphInv, Graph!DropChange PROVE GraphInv'
<1>1. PICK c, v : c = x9[1].change /\ v = x9[1].verdict
  OBVIOUS
<1>2. /\ x7 = Idle /\ x9 # <<>> /\ x9' = Tail(x9)
      /\ x8[c].at \in {"parked", "committed"} => v # "approved"
      /\ IF x8[c].at \in {"parked", "committed"}
           THEN x8' = [x8 EXCEPT ![c].at = "dropped"] ELSE x8' = x8
      /\ UNCHANGED <<x1, x2, x3, x4, x5, x6, x7, x10>>
  BY <1>1 DEF Graph!DropChange, Graph!Held, Graph!Verdict, Graph!graph
<1>3. x9 \in Seq(Reply)
  BY DEF GraphInv, RowsTyped
<1>4. /\ 1 \in DOMAIN x9 /\ Tail(x9) \in Seq(Reply)
      /\ \A i \in DOMAIN Tail(x9) : i + 1 \in DOMAIN x9 /\ Tail(x9)[i] = x9[i + 1] /\ i \in Nat
  <2> HIDE DEF Reply
  <2> QED BY <1>2, <1>3, HeadAndTail
<1>5. c \in DOMAIN x8
  BY <1>1, <1>4 DEF GraphInv, InboxSound
<1>6. /\ DOMAIN x8' = DOMAIN x8 /\ \A x \in DOMAIN x8 : x # c => x8'[x] = x8[x]
      /\ x8'[c].delta = x8[c].delta /\ x8' \in [DOMAIN x8' -> Proposal]
      /\ x8'[c].at = IF x8[c].at \in {"parked", "committed"} THEN "dropped" ELSE x8[c].at
  <2>1. CASE x8[c].at \in {"parked", "committed"}
    BY <1>2, <1>5, <2>1, ChangeMoves
  <2>2. CASE x8[c].at \notin {"parked", "committed"}
    BY <1>2, <2>2 DEF GraphInv, RowsTyped
  <2> QED BY <2>1, <2>2
<1> HIDE DEF Reply, Proposal
<1>7. \A j \in DOMAIN x5 : x5[j].by # Idle => x8[x5[j].by].at \notin {"parked", "committed"}
  BY <1>1, <1>2 DEF GraphInv, ItemsSound, AtVerdict
<1>8. ItemsGrow /\ CallerSound' /\ RunWhole' /\ OpenedOnce' /\ \A x : Opens(x)' = Opens(x)
  BY <1>2, RunRests
<1>9. RowsTyped' /\ NothingAhead' /\ ChangesSound'
  BY <1>2, <1>4, <1>6 DEF GraphInv, RowsTyped, NothingAhead, ChangesSound
<1>10. InboxSound'
  <2>1. \A i \in DOMAIN x9' : x9'[i].change \in DOMAIN x8'
    BY <1>2, <1>4, <1>6 DEF GraphInv, InboxSound
  <2>2. ASSUME NEW i \in DOMAIN x9', NEW j \in DOMAIN x9', x9'[i].change = x9'[j].change
        PROVE  i = j
    <3>1. /\ i + 1 \in DOMAIN x9 /\ j + 1 \in DOMAIN x9 /\ i \in Nat /\ j \in Nat
          /\ x9[i + 1].change = x9[j + 1].change
      BY <1>2, <1>4, <2>2
    <3>2. i + 1 = j + 1
      BY <3>1 DEF GraphInv, InboxSound
    <3> QED BY <3>1, <3>2
  <2> QED BY <2>1, <2>2 DEF InboxSound
<1>11. ItemsSound'
  <2>1. \A j \in DOMAIN x5 : x5[j].status = "cancelled" => x5[j].key \notin x2.protected
    BY DEF GraphInv, ItemsSound
  <2>2. \A j \in DOMAIN x5 : x5[j].by # Idle =>
          x5[j].by \in DOMAIN x8 /\ x8'[x5[j].by].at \notin {"requested", "parked", "committed"}
    BY <1>5, <1>6, <1>7 DEF GraphInv, ItemsSound
  <2> QED BY <1>2, <1>6, <2>1, <2>2 DEF ItemsSound
<1>12. EngineSound'
  BY <1>2 DEF EngineSound
<1>13. CountSound'
  <2> SUFFICES ASSUME EachAdds
               PROVE  /\ x3 = Cardinality(Counted')
                      /\ \A x \in DOMAIN x8' : x8'[x].at = "committed" => Opens(x)' # {}
    BY <1>2 DEF CountSound
  <2>1. x8[c].at # "committed"
    <3> SUFFICES ASSUME x8[c].at = "committed" PROVE FALSE
      OBVIOUS
    <3>1. Opens(c) # {}
      BY <1>5 DEF GraphInv, CountSound
    <3>2. PICK j \in DOMAIN x5 : x5[j].by = c
      BY <3>1 DEF Opens
    <3>3. c # Idle
      BY <1>5, GraphConstants DEF GraphInv, RowsTyped
    <3> QED BY <1>7, <3>2, <3>3
  <2>2. Counted' = Counted
    BY <1>6, <2>1 DEF Counted
  <2> HIDE DEF Opens, Counted
  <2> QED BY <1>6, <1>8, <2>1, <2>2 DEF GraphInv, CountSound
<1> QED BY <1>8, <1>9, <1>10, <1>11, <1>12, <1>13 DEF GraphInv

-----------------------------------------------------------------------------
(* The engine's steps. *)

(* The live items by key. *)
LEMMA KeyGraphIsKnown ==
  ASSUME RowsTyped
  PROVE  /\ Graph!KeyGraph \in UNION {[known -> Nat] : known \in SUBSET Keys}
         /\ KnownSound(Graph!KeyGraph)
         /\ \A j \in DOMAIN x5 :
              x5[j].status # "cancelled" => x5[j].key \in DOMAIN Graph!KeyGraph
<1> DEFINE live(k) == {j \in DOMAIN x5 : x5[j].key = k /\ x5[j].status # "cancelled"}
           known == {k \in Keys : live(k) # {}}
           latest(k) == CHOOSE j \in live(k) : \A i \in live(k) : i <= j
           graph == [k \in known |-> latest(k)]
<1>0. Graph!KeyGraph = graph
  BY DEF Graph!KeyGraph
<1>1. Len(x5) \in Nat /\ DOMAIN x5 = 1..Len(x5) /\ \A j \in DOMAIN x5 : x5[j] \in Item
  <2> HIDE DEF Item
  <2> QED BY SeqItems DEF RowsTyped
<1>2. ASSUME NEW k \in known PROVE latest(k) \in live(k)
  <2> DEFINE T == {Len(x5) - j : j \in live(k)}
  <2>1. T \subseteq Nat /\ T # {}
    BY <1>1
  <2>2. PICK m \in T : \A n \in T : m <= n
    BY <2>1, LeastNat
  <2>3. PICK j \in live(k) : m = Len(x5) - j
    BY <2>2
  <2>4. \A i \in live(k) : i <= j
    <3> SUFFICES ASSUME NEW i \in live(k) PROVE i <= j
      OBVIOUS
    <3>1. Len(x5) - i \in T
      OBVIOUS
    <3>2. i \in 1..Len(x5) /\ j \in 1..Len(x5) /\ Len(x5) \in Nat
      BY <1>1
    <3> HIDE DEF T, live
    <3>3. Len(x5) - j <= Len(x5) - i
      BY <2>2, <2>3, <3>1
    <3> QED BY <3>2, <3>3
  <2> HIDE DEF live
  <2> QED BY <2>3, <2>4
<1>3. \A k \in known : latest(k) \in DOMAIN x5 /\ x5[latest(k)].key = k /\ latest(k) \in Nat
  <2> HIDE DEF latest
  <2> QED BY <1>1, <1>2
<1>4. \A j \in DOMAIN x5 : x5[j].status # "cancelled" => x5[j].key \in known
  <2> SUFFICES ASSUME NEW j \in DOMAIN x5, x5[j].status # "cancelled" PROVE x5[j].key \in known
    OBVIOUS
  <2>1. x5[j].key \in Keys
    BY <1>1 DEF Item
  <2> QED BY <2>1
<1> HIDE DEF latest
<1>5. DOMAIN graph = known /\ \A k \in known : graph[k] = latest(k)
  OBVIOUS
<1>6. known \in SUBSET Keys
  OBVIOUS
<1> HIDE DEF known
<1>7. graph \in [known -> Nat]
  BY <1>3
<1> HIDE DEF graph
<1>8. KnownSound(graph)
  BY <1>3, <1>5 DEF KnownSound
<1> QED BY <1>0, <1>4, <1>5, <1>6, <1>7, <1>8

LEMMA BeginChangeStep == ASSUME GraphInv, Graph!BeginChange PROVE GraphInv'
<1>1. PICK c, d, base, known :
        c = x9[1].change /\ d = x8[c].delta /\ base = x3 /\ known = Graph!KeyGraph
  OBVIOUS
<1> DEFINE e == [change |-> c, skip |-> d.skip, base |-> base, known |-> known,
                 job |-> Idle, written |-> FALSE]
<1>2. /\ x7 = Idle /\ x9 # <<>> /\ x9[1].verdict = "approved"
      /\ x8[c].at \in {"parked", "committed"}
      /\ d.add \cap DOMAIN known = {} /\ x7' = e
      /\ UNCHANGED <<x1, x2, x3, x4, x5, x6, x8, x9, x10>>
  <2>1. x9[1] = Head(x9)
    BY DEF Graph!BeginChange, GraphInv, RowsTyped
  <2>2. /\ x7 = Idle /\ x9 # <<>> /\ x9[1].verdict = "approved"
        /\ x8[c].at \in {"parked", "committed"} /\ d.add \cap DOMAIN Graph!KeyGraph = {}
        /\ UNCHANGED <<x1, x2, x3, x4, x5, x6, x8, x9, x10>>
    BY <1>1, <2>1 DEF Graph!BeginChange, Graph!Held, Graph!Verdict, Graph!Valid, Graph!graph
  <2>3. x7' = [change |-> c, skip |-> x8[c].delta.skip, base |-> x3, known |-> Graph!KeyGraph,
               job |-> Idle, written |-> FALSE]
    BY <1>1, <2>1 DEF Graph!BeginChange, Graph!Verdict
  <2> QED BY <1>1, <2>2, <2>3
<1>3. AtVerdict(c) /\ c \in DOMAIN x8
  <2>1. 1 \in DOMAIN x9
    BY <1>2, HeadAndTail DEF GraphInv, RowsTyped
  <2> QED BY <1>1, <1>2, <2>1 DEF AtVerdict, GraphInv, InboxSound
<1>4. /\ known \in UNION {[K -> Nat] : K \in SUBSET Keys} /\ KnownSound(known)
      /\ \A j \in DOMAIN x5 : x5[j].status # "cancelled" => x5[j].key \in DOMAIN known
  BY <1>1, KeyGraphIsKnown DEF GraphInv
<1>5. c # Idle
  BY <1>3, GraphConstants DEF GraphInv, RowsTyped
<1>6. Opens(c) = {}
  <2> SUFFICES ASSUME NEW j \in DOMAIN x5, x5[j].by = c PROVE FALSE
    BY DEF Opens
  <2>1. x5[j].status # "cancelled" /\ x5[j].key \in d.add
    BY <1>1, <1>2, <1>5 DEF GraphInv, ItemsSound
  <2> QED BY <1>2, <1>4, <2>1
<1>7. ItemsGrow /\ CallerSound' /\ RunWhole' /\ OpenedOnce' /\ \A x : Opens(x)' = Opens(x)
  BY <1>2, RunRests
<1>8. RowsTyped' /\ InboxSound' /\ ChangesSound' /\ NothingAhead'
  BY <1>2, <1>3 DEF GraphInv, RowsTyped, InboxSound, ChangesSound, NothingAhead
<1>9. ItemsSound'
  BY <1>2 DEF GraphInv, ItemsSound, AtVerdict
<1>10. EngineOk(e)
  <2>1. /\ e.change = c /\ e.skip = d.skip /\ e.base = x3 /\ e.known = known /\ e.job = Idle
        /\ e.written = FALSE
        /\ e = [change |-> e.change, skip |-> e.skip, base |-> e.base, known |-> e.known,
                job |-> e.job, written |-> e.written]
    BY <1>1
  <2> HIDE DEF e, KnownSound, AtVerdict, Opens
  <2> QED BY <1>1, <1>2, <1>3, <1>4, <1>6, <2>1 DEF EngineOk
<1>11. e.change = c /\ e.written = FALSE
  OBVIOUS
<1> HIDE DEF e
<1>12. EngineOk(e)'
  <2>1. e.change \in DOMAIN x8' /\ x8'[e.change] = x8[e.change] /\ AtVerdict(e.change)'
    BY <1>2, <1>3, <1>11 DEF AtVerdict
  <2> QED BY <1>2, <1>7, <1>10, <2>1, EngineStays
<1>13. EngineSound'
  <2> HIDE DEF EngineOk
  <2> QED BY <1>2, <1>12 DEF EngineSound
<1>14. CountSound'
  <2>1. Counted' = Counted
    BY <1>2 DEF Counted
  <2>2. EachAdds => x8[c].at = "parked"
    <3> HIDE DEF Opens
    <3> QED BY <1>2, <1>3, <1>6 DEF GraphInv, CountSound
  <2> HIDE DEF Opens, Counted
  <2> QED BY <1>2, <1>7, <1>11, <2>1, <2>2 DEF GraphInv, CountSound
<1> QED BY <1>7, <1>8, <1>9, <1>13, <1>14 DEF GraphInv

(* The engine gives up what it was at. *)
LEMMA EngineRests ==
  ASSUME GraphInv, UNCHANGED <<x1, x2, x3, x4, x5, x6, x8, x9, x10>>, x7' = Idle
  PROVE  GraphInv'
<1>1. ItemsGrow /\ CallerSound' /\ RunWhole' /\ OpenedOnce' /\ \A x : Opens(x)' = Opens(x)
  BY RunRests
<1>2. RowsTyped' /\ InboxSound' /\ ChangesSound' /\ NothingAhead' /\ EngineSound'
  BY DEF GraphInv, RowsTyped, InboxSound, ChangesSound, NothingAhead, EngineSound
<1>3. ItemsSound'
  BY DEF GraphInv, ItemsSound, AtVerdict
<1>4. CountSound'
  <2>1. Counted' = Counted
    BY DEF Counted
  <2> HIDE DEF Opens, Counted
  <2> QED BY <1>1, <2>1 DEF GraphInv, CountSound
<1> QED BY <1>1, <1>2, <1>3, <1>4 DEF GraphInv

LEMMA SkipNodeStep ==
  ASSUME GraphInv, NEW k \in Keys, Graph!SkipNode(k)
  PROVE  GraphInv'
<1>1. PICK e : e = x7
  OBVIOUS
<1>2. PICK c, n : c = e.change /\ n = e.known[k]
  OBVIOUS
<1>3. /\ e # Idle /\ k \in e.skip /\ UNCHANGED <<x1, x2, x3, x4, x6, x8, x9, x10>>
  BY <1>1 DEF Graph!SkipNode
<1>4. EngineOk(e) /\ e.job = Idle
  BY <1>1, <1>3 DEF GraphInv, EngineSound, EngineOk
<1>5. CASE k \in DOMAIN e.known /\ x5[n].status = "open"
  <2> DEFINE f == [e EXCEPT !.skip = e.skip \ {k}]
  <2>1. x5' = [x5 EXCEPT ![n].status = "cancelled"] /\ x7' = f
    BY <1>1, <1>2, <1>5 DEF Graph!SkipNode
  <2>2. n \in DOMAIN x5 /\ x5[n].key = k
    BY <1>2, <1>4, <1>5 DEF EngineOk, KnownSound
  <2>3. /\ ItemsGrow /\ x5' \in Seq(Item) /\ DOMAIN x5' = DOMAIN x5
        /\ x5'[n].status = "cancelled" /\ \A i \in DOMAIN x5 : i # n => x5'[i] = x5[i]
        /\ \A i \in DOMAIN x5' : x5'[i].on \subseteq 1..(i - 1)
    BY <2>1, <2>2, StatusMoves DEF GraphInv
  <2>4. CallerSound' /\ RunWhole'
    BY <1>3, <2>3, CallerStays, RunStays DEF GraphInv
  <2>5. \A x : Opens(x)' = Opens(x)
    BY <2>3 DEF Opens, ItemsGrow
  <2>6. OpenedOnce'
    BY <2>3 DEF GraphInv, OpenedOnce, ItemsGrow
  <2>7. x2 # Idle
    BY <2>2 DEF GraphInv, NothingAhead
  <2>8. RowsTyped' /\ InboxSound' /\ ChangesSound' /\ NothingAhead'
    BY <1>3, <2>3, <2>7 DEF GraphInv, RowsTyped, InboxSound, ChangesSound, NothingAhead
  <2>9. k \notin x2.protected
    BY <1>2, <1>3, <1>4 DEF GraphInv, ChangesSound, EngineOk
  <2>10. \A j \in DOMAIN x5 : x5[j].by # c
    <3>1. Opens(c) = {}
      BY <1>2, <1>4 DEF EngineOk
    <3> QED BY <3>1 DEF Opens
  <2>11. ItemsSound'
    <3>1. \A j \in DOMAIN x5' : x5'[j].status = "cancelled" => x5'[j].key \notin x2.protected
      BY <2>2, <2>3, <2>9 DEF GraphInv, ItemsSound, ItemsGrow
    <3>2. ASSUME NEW j \in DOMAIN x5, x5[j].by # Idle, x8[x5[j].by].at \in {"parked", "committed"}
          PROVE  j # n
      <4>1. AtVerdict(x5[j].by) /\ AtVerdict(c)
        BY <1>2, <1>4, <3>2 DEF GraphInv, ItemsSound, EngineOk
      <4> QED BY <2>10, <4>1 DEF AtVerdict
    <3>3. \A j \in DOMAIN x5' : x5'[j].by # Idle =>
            /\ x5'[j].by \in DOMAIN x8 /\ x8[x5'[j].by].at # "requested"
            /\ x8[x5'[j].by].at \in {"parked", "committed"} =>
                 /\ x5'[j].status # "cancelled" /\ AtVerdict(x5'[j].by)
                 /\ x5'[j].key \in x8[x5'[j].by].delta.add
      <4> HIDE DEF AtVerdict
      <4> QED BY <2>3, <3>2 DEF GraphInv, ItemsSound, ItemsGrow
    <3> QED BY <1>3, <3>1, <3>3 DEF ItemsSound, AtVerdict
  <2>12. /\ f.change = c /\ f.skip = e.skip \ {k} /\ f.base = e.base /\ f.known = e.known
         /\ f.job = e.job /\ f.written = e.written
         /\ f = [change |-> f.change, skip |-> f.skip, base |-> f.base, known |-> f.known,
                 job |-> f.job, written |-> f.written]
    <3>1. e = [change |-> e.change, skip |-> e.skip, base |-> e.base, known |-> e.known,
               job |-> e.job, written |-> e.written]
      BY <1>4 DEF EngineOk
    <3>2. f = [change |-> e.change, skip |-> e.skip \ {k}, base |-> e.base, known |-> e.known,
               job |-> e.job, written |-> e.written]
      BY <3>1
    <3> HIDE DEF f
    <3> QED BY <1>2, <3>2
  <2> HIDE DEF f
  <2>13. EngineOk(f)
    <3> HIDE DEF KnownSound, NodesSound, AtVerdict, Opens
    <3> QED BY <1>2, <1>4, <2>12 DEF EngineOk
  <2>14. EngineOk(f)'
    <3>1. c \in DOMAIN x8 /\ AtVerdict(c)'
      BY <1>2, <1>3, <1>4 DEF EngineOk, AtVerdict
    <3> QED BY <1>3, <2>3, <2>5, <2>12, <2>13, <3>1, EngineStays
  <2>15. EngineSound'
    <3> HIDE DEF EngineOk
    <3> QED BY <2>1, <2>14 DEF EngineSound
  <2>16. CountSound'
    <3>1. Counted' = Counted
      BY <1>3 DEF Counted
    <3> HIDE DEF Opens, Counted
    <3> QED BY <1>1, <1>2, <1>3, <2>1, <2>5, <2>12, <3>1 DEF GraphInv, CountSound
  <2> QED BY <2>4, <2>6, <2>8, <2>11, <2>15, <2>16 DEF GraphInv
<1>6. CASE ~(k \in DOMAIN e.known /\ x5[n].status = "open")
  <2>1. x7' = Idle /\ x5' = x5
    BY <1>1, <1>2, <1>6 DEF Graph!SkipNode
  <2> QED BY <1>3, <2>1, EngineRests
<1> QED BY <1>5, <1>6

(* The engine moves on, with nothing else changed but the items it opens.  *)
LEMMA EngineMoves ==
  ASSUME GraphInv, UNCHANGED <<x1, x2, x3, x4, x6, x8, x9, x10>>, ItemsGrow,
         RowsTyped', ItemsSound', OpenedOnce', x7 # Idle, NEW f, x7' = f, EngineOk(f)',
         f.change = x7.change, f.written = x7.written
  PROVE  GraphInv'
<1>1. CallerSound' /\ RunWhole'
  BY CallerStays, RunStays DEF GraphInv
<1>2. x2 # Idle
  BY DEF GraphInv, NothingAhead
<1>3. InboxSound' /\ ChangesSound' /\ NothingAhead'
  BY <1>2 DEF GraphInv, InboxSound, ChangesSound, NothingAhead
<1>4. EngineSound'
  BY DEF EngineSound
<1>5. CountSound'
  <2>1. Counted' = Counted
    BY DEF Counted
  <2>2. \A x : Opens(x) # {} => Opens(x)' # {}
    BY DEF Opens, ItemsGrow
  <2> HIDE DEF Opens, Counted
  <2> QED BY <2>1, <2>2 DEF GraphInv, CountSound
<1> QED BY <1>1, <1>3, <1>4, <1>5 DEF GraphInv

LEMMA PlanNodesStep == ASSUME GraphInv, Graph!PlanNodes PROVE GraphInv'
<1>1. PICK e : e = x7
  OBVIOUS
<1>2. PICK c : c = e.change
  OBVIOUS
<1>3. PICK add, edges : add = x8[c].delta.add /\ edges = x8[c].delta.edges
  OBVIOUS
<1>4. PICK job : job = Graph!Opening(add, edges, e.known)
  OBVIOUS
<1>5. /\ e # Idle /\ e.skip = {} /\ e.job = Idle
      /\ UNCHANGED <<x1, x2, x3, x4, x5, x6, x8, x9, x10>>
      /\ x7' = Idle \/ (job # Idle /\ x7' = [e EXCEPT !.job = job])
  BY <1>1, <1>2, <1>3, <1>4 DEF Graph!PlanNodes, Graph!graph
<1>6. EngineOk(e)
  BY <1>1, <1>5 DEF GraphInv, EngineSound
<1>7. CASE x7' = Idle
  BY <1>5, <1>7, EngineRests
<1>8. CASE job # Idle /\ x7' = [e EXCEPT !.job = job]
  <2> DEFINE f == [e EXCEPT !.job = job]
  <2>1. /\ f.change = c /\ f.skip = {} /\ f.base = e.base /\ f.known = e.known
        /\ f.job = job /\ f.written = e.written
        /\ f = [change |-> f.change, skip |-> f.skip, base |-> f.base, known |-> f.known,
                job |-> f.job, written |-> f.written]
    <3>1. e = [change |-> e.change, skip |-> e.skip, base |-> e.base, known |-> e.known,
               job |-> e.job, written |-> e.written]
      BY <1>6 DEF EngineOk
    <3>2. f = [change |-> e.change, skip |-> e.skip, base |-> e.base, known |-> e.known,
               job |-> job, written |-> e.written]
      BY <3>1
    <3> HIDE DEF f
    <3> QED BY <1>2, <1>5, <3>2
  <2> HIDE DEF f
  <2>2. x8[c].delta \in Deltas
    <3>1. c \in DOMAIN x8 /\ x8 \in [DOMAIN x8 -> Proposal]
      BY <1>2, <1>6 DEF EngineOk, GraphInv, RowsTyped
    <3>2. x8[c] \in Proposal
      BY <3>1
    <3> QED BY <3>2 DEF Proposal
  <2>3. add \subseteq Keys /\ edges \subseteq Keys \X Keys
    BY <1>3, <2>2, GraphConstants
  <2>4. NodesSound(job) /\ Waiting(job) = add
    <3>1. PICK ids : ids = e.known
      OBVIOUS
    <3>2. Index(ids) /\ KnownSound(ids)
      BY <1>6, <3>1 DEF EngineOk, Index
    <3>3. job = Graph!Opening(add, edges, ids) /\ job # Idle
      BY <1>4, <1>8, <3>1
    <3>4. Begun(job, add, edges, ids)
      BY ONLY <2>3, <3>2, <3>3, JobBegins
    <3> QED BY <3>4 DEF Begun
  <2>5. Opens(c) = {} /\ ~e.written
    BY <1>2, <1>5, <1>6 DEF EngineOk
  <2>6. EngineOk(f)
    <3> HIDE DEF KnownSound, NodesSound, AtVerdict, Opens, Waiting
    <3> QED BY <1>2, <1>3, <1>6, <1>8, <2>1, <2>4, <2>5 DEF EngineOk
  <2>7. ItemsGrow /\ \A x : Opens(x)' = Opens(x)
    BY <1>5 DEF ItemsGrow, Opens
  <2>8. EngineOk(f)'
    <3>1. c \in DOMAIN x8 /\ AtVerdict(c)'
      BY <1>2, <1>5, <1>6 DEF EngineOk, AtVerdict
    <3> QED BY <1>5, <2>1, <2>6, <2>7, <3>1, EngineStays
  <2>9. RowsTyped' /\ ItemsSound' /\ OpenedOnce'
    BY <1>5 DEF GraphInv, RowsTyped, ItemsSound, OpenedOnce, AtVerdict
  <2>10. x7' = f /\ f.change = x7.change /\ f.written = x7.written
    BY <1>1, <1>2, <1>8, <2>1 DEF f
  <2> HIDE DEF EngineOk
  <2> QED BY <1>1, <1>5, <2>7, <2>8, <2>9, <2>10, EngineMoves
<1> QED BY <1>5, <1>7, <1>8

LEMMA AddNodeStep == ASSUME GraphInv, Graph!AddNode PROVE GraphInv'
<1>1. PICK e : e = x7
  OBVIOUS
<1>2. PICK c, job : c = e.change /\ job = e.job
  OBVIOUS
<1>3. PICK new : new = Graph!Opened(job)
  OBVIOUS
<1> DEFINE k == Head(job.todo)
           n == Len(x5) + 1
           f == [e EXCEPT !.job = new]
<1>4. /\ e # Idle /\ job # Idle /\ Graph!Openable(job) /\ Graph!OpenItem(job, c) /\ x7' = f
      /\ UNCHANGED <<x1, x2, x3, x4, x6, x8, x9, x10>>
  BY <1>1, <1>2, <1>3 DEF Graph!AddNode
<1>5. EngineOk(e)
  BY <1>1, <1>4 DEF GraphInv, EngineSound
<1>6. /\ NodesSound(job) /\ e.skip = {} /\ Waiting(job) \cap Opens(c) = {}
      /\ Waiting(job) \cup Opens(c) = x8[c].delta.add /\ c \in DOMAIN x8 /\ AtVerdict(c)
      /\ x8[c].at \in {"parked", "committed"}
  BY <1>2, <1>4, <1>5 DEF EngineOk
<1>7. c \in Actors /\ c # Idle
  BY <1>6, GraphConstants DEF GraphInv, RowsTyped
<1>8. /\ ItemsGrow /\ x5' \in Seq(Item)
      /\ \A j \in DOMAIN x5' : x5'[j].on \subseteq 1..(j - 1)
      /\ DOMAIN x5' = DOMAIN x5 \cup {n} /\ n \notin DOMAIN x5
      /\ \A j \in DOMAIN x5 : x5'[j] = x5[j]
      /\ x5'[n] = NewRow(job, c)
  BY <1>4, <1>6, <1>7, ItemOpens DEF GraphInv
<1>9. /\ NodesSound(new)' /\ new # Idle
      /\ Waiting(new) = Waiting(job) \ {k} /\ k \in Waiting(job)
  BY <1>3, <1>4, <1>6, <1>7, JobMovesOn DEF GraphInv
<1>10. x5'[n].key = k /\ x5'[n].by = c /\ x5'[n].status = "open"
  BY <1>8 DEF NewRow
<1>11. /\ f.change = c /\ f.skip = {} /\ f.base = e.base /\ f.known = e.known
       /\ f.job = new /\ f.written = e.written
       /\ f = [change |-> f.change, skip |-> f.skip, base |-> f.base, known |-> f.known,
               job |-> f.job, written |-> f.written]
  <2>1. e = [change |-> e.change, skip |-> e.skip, base |-> e.base, known |-> e.known,
             job |-> e.job, written |-> e.written]
    BY <1>5 DEF EngineOk
  <2>2. f = [change |-> e.change, skip |-> e.skip, base |-> e.base, known |-> e.known,
             job |-> new, written |-> e.written]
    BY <2>1
  <2> HIDE DEF f
  <2> QED BY <1>2, <1>6, <2>2
<1> HIDE DEF n, f, k, Item
<1>12. Opens(c)' = Opens(c) \cup {k}
  <2>1. \A x : x \in Opens(c)' <=> \E j \in DOMAIN x5' : x5'[j].by = c /\ x5'[j].key = x
    BY DEF Opens
  <2>2. \A x : x \in Opens(c) <=> \E j \in DOMAIN x5 : x5[j].by = c /\ x5[j].key = x
    BY DEF Opens
  <2>3. \A x : x \in Opens(c)' <=> x \in Opens(c) \/ x = k
    BY <1>8, <1>10, <2>1, <2>2
  <2> QED BY <2>3
<1>13. RowsTyped'
  BY <1>4, <1>8 DEF GraphInv, RowsTyped
<1>14. k \in x8[c].delta.add /\ k \notin Opens(c)
  BY <1>6, <1>9
<1>15. OpenedOnce'
  <2>1. \A j \in DOMAIN x5 : x5[j].by = c => x5[j].key # k
    BY <1>14 DEF Opens
  <2> QED BY <1>8, <1>10, <2>1 DEF GraphInv, OpenedOnce
<1>16. ItemsSound'
  <2>1. \A x : AtVerdict(x) => AtVerdict(x)'
    BY <1>4 DEF AtVerdict
  <2>2. \A j \in DOMAIN x5' : x5'[j].status = "cancelled" => x5'[j].key \notin x2.protected
    BY <1>8, <1>10 DEF GraphInv, ItemsSound
  <2>3. \A j \in DOMAIN x5' : x5'[j].by # Idle =>
          /\ x5'[j].by \in DOMAIN x8 /\ x8[x5'[j].by].at # "requested"
          /\ x8[x5'[j].by].at \in {"parked", "committed"} =>
               /\ x5'[j].status # "cancelled" /\ AtVerdict(x5'[j].by)
               /\ x5'[j].key \in x8[x5'[j].by].delta.add
    <3> HIDE DEF AtVerdict
    <3> QED BY <1>6, <1>8, <1>10, <1>14 DEF GraphInv, ItemsSound
  <2> QED BY <1>4, <2>2, <2>3 DEF ItemsSound, AtVerdict
<1>17. EngineOk(f)'
  <2>1. KnownSound(e.known)'
    BY <1>5, <1>8, KnownStays DEF EngineOk
  <2>2. AtVerdict(c)'
    BY <1>4, <1>6 DEF AtVerdict
  <2>3. /\ Waiting(new) \cap Opens(c)' = {} /\ Waiting(new) \cup Opens(c)' = x8[c].delta.add
    BY <1>6, <1>9, <1>12
  <2>4. /\ f.written \in BOOLEAN
        /\ f.known \in UNION {[known -> Nat] : known \in SUBSET Keys}
        /\ DOMAIN f.known \cap x8[c].delta.add = {}
        /\ f.written => x8[c].at = "committed"
        /\ ~f.written => f.base = x3 /\ x8[c].at \in {"parked", "committed"}
    BY <1>2, <1>5, <1>11 DEF EngineOk
  <2>5. KnownSound(f.known)'
    BY <1>11, <2>1
  <2>6. NodesSound(f.job)' /\ f.job # Idle
    BY <1>9, <1>11
  <2> HIDE DEF KnownSound, NodesSound, AtVerdict, Opens
  <2>7. Waiting(f.job)' = Waiting(new)
    BY <1>11 DEF Waiting
  <2> HIDE DEF Waiting
  <2> QED BY <1>4, <1>6, <1>11, <2>2, <2>3, <2>4, <2>5, <2>6, <2>7 DEF EngineOk
<1>18. x7 # Idle /\ f.change = x7.change /\ f.written = x7.written
  BY <1>1, <1>2, <1>4, <1>11
<1> HIDE DEF EngineOk
<1> QED BY <1>4, <1>8, <1>13, <1>15, <1>16, <1>17, <1>18, EngineMoves

(* A change that is proposed adds a node, if every one that may be does.   *)
LEMMA ProposedAdds ==
  ASSUME GraphInv, EachAdds, NEW c \in DOMAIN x8
  PROVE  x8[c].delta.add # {}
<1>1. PICK d : d = x8[c].delta
  OBVIOUS
<1>2. d \in Deltas
  <2>1. x8[c] \in Proposal
    BY DEF GraphInv, RowsTyped
  <2> QED BY <1>1, <2>1 DEF Proposal
<1>3. x2 \in Templates \cup {Dynamic}
  BY DEF GraphInv, RowsTyped, NothingAhead
<1>4. d.skip \cap x2.protected = {}
  BY <1>1 DEF GraphInv, ChangesSound
<1> QED BY <1>1, <1>2, <1>3, <1>4 DEF EachAdds

LEMMA CommitChangeStep == ASSUME GraphInv, Graph!CommitChange PROVE GraphInv'
<1>1. PICK e : e = x7
  OBVIOUS
<1>2. PICK c : c = e.change
  OBVIOUS
<1> DEFINE f == [e EXCEPT !.written = TRUE]
<1>3. /\ e # Idle /\ e.job # Idle /\ e.job.todo = <<>> /\ ~e.written /\ x7' = f
      /\ x4' = x4 \cup (x8[c].delta.add \cap x8[c].delta.watched) /\ x3' = e.base + 1
      /\ x8' = [x8 EXCEPT ![c].at = "committed"]
      /\ UNCHANGED <<x1, x2, x5, x6, x9, x10>>
  BY <1>1, <1>2 DEF Graph!CommitChange, Graph!BindWatchRules
<1>4. EngineOk(e)
  BY <1>1, <1>3 DEF GraphInv, EngineSound
<1>5. /\ c \in DOMAIN x8 /\ AtVerdict(c) /\ x8[c].at \in {"parked", "committed"} /\ e.base = x3
      /\ Opens(c) = x8[c].delta.add
  <2>1. Waiting(e.job) = {}
    BY <1>3 DEF Waiting
  <2> HIDE DEF AtVerdict, Opens, Waiting
  <2> QED BY <1>2, <1>3, <1>4, <2>1 DEF EngineOk
<1>6. /\ DOMAIN x8' = DOMAIN x8 /\ x8'[c].at = "committed" /\ x8'[c].delta = x8[c].delta
      /\ \A x \in DOMAIN x8 : x # c => x8'[x] = x8[x]
      /\ x8' \in [DOMAIN x8' -> Proposal]
  BY <1>3, <1>5, ChangeMoves
<1> HIDE DEF Proposal
<1>7. ItemsGrow /\ CallerSound' /\ RunWhole' /\ OpenedOnce' /\ \A x : Opens(x)' = Opens(x)
  BY <1>3, RunRests
<1>8. x8[c].delta.add \subseteq Keys
  <2>1. x8[c] \in Proposal
    BY <1>5 DEF GraphInv, RowsTyped
  <2> QED BY <2>1, GraphConstants DEF Proposal
<1>9. RowsTyped'
  BY <1>3, <1>5, <1>6, <1>8 DEF GraphInv, RowsTyped
<1>10. InboxSound' /\ ChangesSound' /\ NothingAhead'
  BY <1>3, <1>5, <1>6 DEF GraphInv, InboxSound, ChangesSound, NothingAhead
<1>11. ItemsSound'
  BY <1>3, <1>5, <1>6 DEF GraphInv, ItemsSound, AtVerdict
<1>12. /\ f.change = c /\ f.skip = e.skip /\ f.base = e.base /\ f.known = e.known
       /\ f.job = e.job /\ f.written = TRUE
       /\ f = [change |-> f.change, skip |-> f.skip, base |-> f.base, known |-> f.known,
               job |-> f.job, written |-> f.written]
  <2>1. e = [change |-> e.change, skip |-> e.skip, base |-> e.base, known |-> e.known,
             job |-> e.job, written |-> e.written]
    BY <1>4 DEF EngineOk
  <2>2. f = [change |-> e.change, skip |-> e.skip, base |-> e.base, known |-> e.known,
             job |-> e.job, written |-> TRUE]
    <3>1. PICK v : v = TRUE
      OBVIOUS
    <3>2. [e EXCEPT !.written = v]
            = [change |-> e.change, skip |-> e.skip, base |-> e.base, known |-> e.known,
               job |-> e.job, written |-> v]
      BY ONLY <2>1
    <3> QED BY <3>1, <3>2
  <2> HIDE DEF f
  <2> QED BY <1>2, <2>2
<1> HIDE DEF f
<1>13. EngineOk(f)'
  <2>1. KnownSound(e.known)' /\ NodesSound(e.job)'
    BY <1>3, <1>4, <1>7, KnownStays, JobStays DEF EngineOk
  <2>2. AtVerdict(c)' /\ Opens(c)' = Opens(c) /\ Waiting(f.job)' = Waiting(e.job)
    BY <1>3, <1>5, <1>7, <1>12 DEF AtVerdict, Waiting
  <2>3. KnownSound(f.known)' /\ NodesSound(f.job)'
    BY <1>12, <2>1
  <2>4. f.skip = {} /\ f.job # Idle /\ e.skip = {}
    BY <1>3, <1>4, <1>12 DEF EngineOk
  <2>5. /\ Waiting(e.job) \cap Opens(c) = {} /\ Waiting(e.job) \cup Opens(c) = x8[c].delta.add
        /\ e.known \in UNION {[known -> Nat] : known \in SUBSET Keys}
        /\ DOMAIN e.known \cap x8[c].delta.add = {}
    BY <1>2, <1>3, <1>4 DEF EngineOk
  <2> HIDE DEF KnownSound, NodesSound, AtVerdict, Opens, Waiting
  <2> QED BY <1>5, <1>6, <1>12, <2>2, <2>3, <2>4, <2>5 DEF EngineOk
<1>14. EngineSound'
  <2> HIDE DEF EngineOk
  <2> QED BY <1>3, <1>13 DEF EngineSound
<1>15. CountSound'
  <2> SUFFICES ASSUME EachAdds
               PROVE  /\ x3' = Cardinality(Counted')
                      /\ \A x \in DOMAIN x8' : x8'[x].at = "committed" => Opens(x)' # {}
    BY <1>3, <1>12 DEF CountSound
  <2>1. x8[c].at = "parked" /\ x3 = Cardinality(Counted)
    BY <1>1, <1>2, <1>3 DEF GraphInv, CountSound
  <2>2. Counted' = Counted \cup {c} /\ c \notin Counted
    BY <1>5, <1>6, <2>1 DEF Counted
  <2>3. IsFiniteSet(Counted)
    BY FS_Subset DEF GraphInv, RowsTyped, Counted
  <2>4. Cardinality(Counted') = Cardinality(Counted) + 1
    BY <2>2, <2>3, FS_AddElement
  <2>5. Opens(c) # {}
    BY <1>5, ProposedAdds
  <2> HIDE DEF Opens, Counted
  <2> QED BY <1>3, <1>5, <1>6, <1>7, <2>1, <2>4, <2>5 DEF GraphInv, CountSound
<1> QED BY <1>7, <1>9, <1>10, <1>11, <1>14, <1>15 DEF GraphInv

LEMMA SettleChangeStep == ASSUME GraphInv, Graph!SettleChange PROVE GraphInv'
<1>1. PICK c : c = x7.change
  OBVIOUS
<1>2. /\ x7 # Idle /\ x7.written /\ x7' = Idle /\ x8' = [x8 EXCEPT ![c].at = "settled"]
      /\ UNCHANGED <<x1, x2, x3, x4, x5, x6, x9, x10>>
  BY <1>1 DEF Graph!SettleChange, Graph!graph
<1>3. c \in DOMAIN x8 /\ x8[c].at = "committed"
  BY <1>1, <1>2 DEF GraphInv, EngineSound, EngineOk
<1>4. /\ DOMAIN x8' = DOMAIN x8 /\ x8'[c].at = "settled" /\ x8'[c].delta = x8[c].delta
      /\ \A x \in DOMAIN x8 : x # c => x8'[x] = x8[x]
      /\ x8' \in [DOMAIN x8' -> Proposal]
  BY <1>2, <1>3, ChangeMoves
<1> HIDE DEF Proposal
<1>5. ItemsGrow /\ CallerSound' /\ RunWhole' /\ OpenedOnce' /\ \A x : Opens(x)' = Opens(x)
  BY <1>2, RunRests
<1>6. RowsTyped' /\ InboxSound' /\ ChangesSound' /\ NothingAhead' /\ EngineSound'
  BY <1>2, <1>3, <1>4
     DEF GraphInv, RowsTyped, InboxSound, ChangesSound, NothingAhead, EngineSound
<1>7. ItemsSound'
  BY <1>2, <1>3, <1>4 DEF GraphInv, ItemsSound, AtVerdict
<1>8. CountSound'
  <2>1. Counted' = Counted
    BY <1>3, <1>4 DEF Counted
  <2> HIDE DEF Opens, Counted
  <2> QED BY <1>2, <1>3, <1>4, <1>5, <2>1 DEF GraphInv, CountSound
<1> QED BY <1>5, <1>6, <1>7, <1>8 DEF GraphInv

LEMMA GraphCrashStep == ASSUME GraphInv, Graph!Crash PROVE GraphInv'
<1>1. /\ x6' = Idle /\ x7' = Idle /\ x10' = x10 + 1
      /\ UNCHANGED <<x1, x2, x3, x4, x5, x8, x9>>
  BY DEF Graph!Crash, Graph!graph
<1>2. RowsTyped' /\ InboxSound' /\ ChangesSound' /\ NothingAhead' /\ EngineSound'
      /\ CallerSound' /\ OpenedOnce'
  BY <1>1 DEF GraphInv, RowsTyped, InboxSound, ChangesSound, NothingAhead, EngineSound,
              CallerSound, OpenedOnce
<1>3. RunWhole'
  <2>1. x10' # 0
    BY <1>1 DEF GraphInv, RowsTyped
  <2> QED BY <2>1 DEF RunWhole
<1>4. ItemsSound'
  BY <1>1 DEF GraphInv, ItemsSound, AtVerdict
<1>5. CountSound'
  <2>1. Counted' = Counted /\ \A x : Opens(x)' = Opens(x)
    BY <1>1 DEF Counted, Opens
  <2> HIDE DEF Opens, Counted
  <2> QED BY <1>1, <2>1 DEF GraphInv, CountSound
<1> QED BY <1>2, <1>3, <1>4, <1>5 DEF GraphInv

LEMMA GraphBegins == Graph!Init => GraphInv
<1> SUFFICES ASSUME Graph!Init PROVE GraphInv
  OBVIOUS
<1>1. /\ x1 = {} /\ x2 = Idle /\ x3 = 0 /\ x4 = {} /\ x5 = <<>> /\ x6 = Idle /\ x7 = Idle
      /\ x8 = [c \in {} |-> Idle] /\ x9 = <<>> /\ x10 = 0
  BY DEF Graph!Init
<1>2. DOMAIN x8 = {} /\ DOMAIN x5 = {} /\ DOMAIN x9 = {} /\ IsFiniteSet({})
  BY <1>1, FS_EmptySet
<1>3. RowsTyped
  BY <1>1, <1>2 DEF RowsTyped
<1>4. CountSound
  <2>1. Counted = {}
    BY <1>2 DEF Counted
  <2> HIDE DEF Counted
  <2> QED BY <1>1, <1>2, <2>1, FS_EmptySet DEF CountSound
<1> QED BY <1>1, <1>2, <1>3, <1>4
        DEF GraphInv, NothingAhead, CallerSound, RunWhole, InboxSound, ChangesSound, ItemsSound,
            OpenedOnce, EngineSound

LEMMA GraphStep ==
  ASSUME GraphInv, [Graph!Next]_(<<x1, x2, x3, x4, x5, x6, x7, x8, x9, x10>>)
  PROVE  GraphInv'
<1>1. CASE UNCHANGED <<x1, x2, x3, x4, x5, x6, x7, x8, x9, x10>>
  <2>1. x1' \subseteq Templates /\ UNCHANGED <<x2, x3, x4, x5, x6, x7, x8, x9, x10>>
    BY <1>1 DEF GraphInv, RowsTyped
  <2> QED BY <2>1, QuietStep
<1>2. CASE Graph!Next
  <2> HIDE DEF GraphInv
  <2> QED BY <1>2, SaveTemplateStep, InstantiateStep, OpenNodeStep, InstantiatedStep,
             FinishNodeStep, ProposeChangeStep, ParkChangeStep, ResolveChangeStep, DropChangeStep,
             BeginChangeStep, SkipNodeStep, PlanNodesStep, AddNodeStep, CommitChangeStep,
             SettleChangeStep, GraphCrashStep DEF Graph!Next
<1> QED BY <1>1, <1>2

LEMMA GraphInvariant == Spec => [](service = "graph" => GraphInv)
<1> DEFINE Inv == service = "graph" => GraphInv
<1>1. Init => Inv
  BY GraphBegins DEF Init
<1>2. Inv /\ [Next]_vars => Inv'
  <2> SUFFICES ASSUME Inv, [Next]_vars, service' = "graph" PROVE GraphInv'
    OBVIOUS
  <2>1. service = "graph"
    BY DEF Next, vars
  <2>2. [Graph!Next]_(<<x1, x2, x3, x4, x5, x6, x7, x8, x9, x10>>)
    BY <2>1 DEF Next, vars
  <2> QED BY <2>1, <2>2, GraphStep
<1> QED BY <1>1, <1>2, PTL DEF Spec

LEMMA GraphTypes == ASSUME GraphInv PROVE Graph!TypeOK
<1>1. \A j \in DOMAIN x5 : x5[j] \in Item
  <2> HIDE DEF Item
  <2> QED BY SeqItems DEF GraphInv, RowsTyped
<1>2. \A j \in DOMAIN x5 :
        /\ x5[j].key \in Keys /\ x5[j].status \in {"open", "done", "cancelled"}
        /\ x5[j].by \in Actors \cup {Idle} /\ x5[j].on \subseteq 1..(j - 1)
  BY <1>1 DEF Item, GraphInv, RowsTyped
<1>3. \A c \in DOMAIN x8 :
        x8[c].at \in {"requested", "parked", "committed", "settled", "dropped"}
  BY DEF GraphInv, RowsTyped, Proposal
<1>4. x7 # Idle => x7.change \in DOMAIN x8
  BY DEF GraphInv, EngineSound, EngineOk
<1> QED BY <1>2, <1>3, <1>4 DEF GraphInv, RowsTyped, Graph!TypeOK

LEMMA WiredNodes ==
  ASSUME GraphInv PROVE Graph!OnlyCrashesLeaveHalfGraphs
<1> SUFFICES ASSUME x2 # Idle, x6 = Idle, x10 = 0, Graph!TopoOrder(x2.nodes, x2.edges) # {},
                    NEW k \in x2.nodes
             PROVE  \E j \in DOMAIN x5 :
                      /\ x5[j].key = k /\ x5[j].by = Idle
                      /\ {x5[u].key : u \in x5[j].on} = Graph!Upstreams(x2.edges, k)
  BY DEF Graph!OnlyCrashesLeaveHalfGraphs
<1>1. Wired(k)
  BY DEF GraphInv, RunWhole
<1> QED BY <1>1 DEF Wired

(* Whatever the templates and the changes are and wherever a crash cuts an *)
(* operation short: only a crash leaves a run with part of its template's  *)
(* graph, no change cancels a protected node, and none opens a node twice. *)
THEOREM GraphsStayWhole ==
  Spec => [](service = "graph" => /\ Graph!OnlyCrashesLeaveHalfGraphs
                                  /\ Graph!ProtectedNodesStay
                                  /\ OpenedOnce)
<1>1. ASSUME GraphInv PROVE Graph!ProtectedNodesStay /\ OpenedOnce
  BY <1>1 DEF GraphInv, ItemsSound, Graph!ProtectedNodesStay
<1>2. GraphInv => Graph!OnlyCrashesLeaveHalfGraphs /\ Graph!ProtectedNodesStay /\ OpenedOnce
  BY <1>1, WiredNodes
<1> QED BY <1>2, GraphInvariant, PTL

(* If every change that an agent may propose adds a node, an approved      *)
(* change counts for one revision and opens each of its nodes once,        *)
(* however often its verdict is delivered.  A change that adds none may    *)
(* find nothing in its way when it is delivered again after a crash.       *)
THEOREM GraphsChangeAsApproved ==
  ASSUME EachAdds
  PROVE  Spec => []GraphsAsApproved
<1>1. ASSUME GraphInv PROVE Graph!ChangesApplyOnce
  <2>1. x3 = Cardinality(Counted)
    BY <1>1 DEF GraphInv, CountSound
  <2>2. Graph!Cardinality(Counted) = Cardinality(Counted)
    BY DEF Graph!Cardinality, Cardinality
  <2>3. x3 = Graph!Cardinality({c \in DOMAIN x8 : x8[c].at \in {"committed", "settled"}})
    BY <2>1, <2>2 DEF Counted
  <2>4. OpenedOnce
    BY <1>1 DEF GraphInv
  <2> QED BY <2>3, <2>4 DEF Graph!ChangesApplyOnce, OpenedOnce
<1>2. ASSUME GraphInv PROVE Graph!ProtectedNodesStay
  BY <1>2 DEF GraphInv, ItemsSound, Graph!ProtectedNodesStay
<1>3. (service = "graph" => GraphInv) => GraphsAsApproved
  BY <1>1, <1>2, WiredNodes DEF GraphsAsApproved
<1> QED BY <1>3, GraphInvariant, PTL

-----------------------------------------------------------------------------
(* Every service keeps its rows, its calls in progress and its memory well *)
(* typed, however many actors race in it and wherever they die.            *)
THEOREM TypesAreKept == Spec => []TypesOK
<1>1. (service = "gate" => GateInv) => (service = "gate" => Gate!TypeOK)
  BY DEF GateInv
<1>2. (service = "boot" => StartInv) => (service = "boot" => Start!TypeOK)
  BY DEF StartInv
<1>3. (service = "skills" => SkillInv) => (service = "skills" => Skill!TypeOK)
  BY DEF SkillInv
<1>4. (service = "followups" => FollowUpInv) => (service = "followups" => FollowUp!TypeOK)
  BY DEF FollowUpInv
<1>5. (service = "sync" => SyncInv) => (service = "sync" => Sync!TypeOK)
  BY DEF SyncInv
<1>6. (service = "watch" => WatchInv) => (service = "watch" => Watch!TypeOK)
  BY DEF WatchInv
<1>7. (service = "context" => ContextInv) => (service = "context" => Context!TypeOK)
  BY DEF ContextInv
<1>8. (service = "graph" => GraphInv) => (service = "graph" => Graph!TypeOK)
  BY GraphTypes
<1>9. /\ service = "gate" => Gate!TypeOK
      /\ service = "boot" => Start!TypeOK
      /\ service = "skills" => Skill!TypeOK
      /\ service = "followups" => FollowUp!TypeOK
      /\ service = "sync" => Sync!TypeOK
      /\ service = "watch" => Watch!TypeOK
      /\ service = "context" => Context!TypeOK
      /\ service = "graph" => Graph!TypeOK
      => TypesOK
  BY DEF TypesOK
<1> QED BY <1>1, <1>2, <1>3, <1>4, <1>5, <1>6, <1>7, <1>8, <1>9, GateInvariant, StartInvariant,
           SkillInvariant, FollowUpInvariant, SyncInvariant, WatchInvariant, ContextInvariant,
           GraphInvariant, PTL
=============================================================================
