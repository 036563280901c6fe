------------------------------ MODULE FeedWatch ------------------------------
(***************************************************************************)
(* Feed expectations (apps/server/src/connections/expectations.ts): every  *)
(* orchestrator's tick reads all expectations, counts the fires of each    *)
(* cron that were missed since the feed was last seen, and announces a     *)
(* count that grew by comparing and setting missed_count.  Arrivals reset  *)
(* it meanwhile.                                                           *)
(***************************************************************************)
EXTENDS Naturals, Sequences, FiniteSets, FiniteSetsExt

CONSTANTS
  Expectations, Servers,
  Fires,     \* per expectation: the minutes its cadence fires
  Grace,     \* graceMinutes
  MaxScan,   \* MAX_SCAN_MINUTES
  MaxClock, Resting

FeedWatchAssumption ==
  /\ Fires \in [Expectations -> SUBSET Nat] /\ Grace \in [Expectations -> Nat]
  /\ MaxScan \in Nat /\ MaxClock \in Nat

VARIABLES
  seen,      \* last_seen_at, or created_at
  missed,    \* missed_count
  ticking,   \* per server: the tick's time and the rows still to handle
  flagged,   \* history: counts announced as missed since the last recovery
  clock

vars == <<seen, missed, ticking, flagged, clock>>

Init ==
  /\ seen = [e \in Expectations |-> 0]
  /\ missed = [e \in Expectations |-> 0]
  /\ ticking = [s \in Servers |-> Resting]
  /\ flagged = [e \in Expectations |-> <<>>]
  /\ clock = 0

CronMatches(e, t) == t \in Fires[e]

(* The expected arrivals whose grace has elapsed since `base'. *)
CountDueMisses(e, base, now) ==
  LET floor == Max({base, IF now > MaxScan THEN now - MaxScan ELSE 0})
  IN Cardinality({f \in (floor + 1)..now : CronMatches(e, f) /\ f + Grace[e] <= now})

(* One select of every row. *)
StartTick(s) ==
  /\ ticking[s] = Resting
  /\ ticking' = [ticking EXCEPT ![s] =
       [now |-> clock, todo |-> Expectations, seen |-> seen, missed |-> missed]]
  /\ UNCHANGED <<seen, missed, flagged, clock>>

Handled(s, e) ==
  ticking' = [ticking EXCEPT ![s] =
    IF ticking[s].todo = {e} THEN Resting ELSE [@ EXCEPT !.todo = ticking[s].todo \ {e}]]

Due(s, e) == CountDueMisses(e, ticking[s].seen[e], ticking[s].now)

(* Mutant: set without comparing. *)
FlagUnclaimed(s, e) ==
  /\ ticking[s] # Resting /\ e \in ticking[s].todo
  /\ IF Due(s, e) > ticking[s].missed[e]
       THEN /\ missed' = [missed EXCEPT ![e] = Due(s, e)]
            /\ flagged' = [flagged EXCEPT ![e] = Append(@, Due(s, e))]
       ELSE UNCHANGED <<missed, flagged>>
  /\ Handled(s, e)
  /\ UNCHANGED <<seen, clock>>

(* Compare and set: a row whose count changed since the select is left.    *)
Flag(s, e) ==
  /\ ticking[s] # Resting /\ e \in ticking[s].todo
  /\ IF Due(s, e) > ticking[s].missed[e] /\ missed[e] = ticking[s].missed[e]
       THEN /\ missed' = [missed EXCEPT ![e] = Due(s, e)]
            /\ flagged' = [flagged EXCEPT ![e] = Append(@, Due(s, e))]
       ELSE UNCHANGED <<missed, flagged>>
  /\ Handled(s, e)
  /\ UNCHANGED <<seen, clock>>

(* A statement fails or the process dies: the rest waits for a later tick. *)
TickEnds(s) ==
  /\ ticking[s] # Resting
  /\ ticking' = [ticking EXCEPT ![s] = Resting]
  /\ UNCHANGED <<seen, missed, flagged, clock>>

(* A caller reports an arrival of any earlier time: the watermark is set to*)
(* it, which also ends what was missed.                                    *)
RecordFeedSeen(e, at) ==
  /\ at <= clock
  /\ seen' = [seen EXCEPT ![e] = at]
  /\ missed' = [missed EXCEPT ![e] = 0]
  /\ flagged' = [flagged EXCEPT ![e] = <<>>]
  /\ UNCHANGED <<ticking, clock>>

Advance ==
  /\ clock < MaxClock
  /\ clock' = clock + 1
  /\ UNCHANGED <<seen, missed, ticking, flagged>>

Next ==
  \/ \E s \in Servers : StartTick(s) \/ TickEnds(s) \/ \E e \in Expectations : Flag(s, e)
  \/ \E e \in Expectations, at \in 0..MaxClock : RecordFeedSeen(e, at)
  \/ Advance

Spec == Init /\ [][Next]_vars

-----------------------------------------------------------------------------
TypeOK ==
  /\ seen \in [Expectations -> Nat] /\ missed \in [Expectations -> Nat]
  /\ flagged \in [Expectations -> Seq(Nat)]
  /\ ticking \in [Servers -> [now: Nat, todo: SUBSET Expectations, seen: [Expectations -> Nat],
                             missed: [Expectations -> Nat]] \cup {Resting}]
  /\ clock \in Nat

(* However the ticks of several orchestrators overlap, the counts that are *)
(* announced between two arrivals grow: none is announced twice, and the   *)
(* last one is the count a recovery will report.                           *)
MissesGrow ==
  \A e \in Expectations :
    /\ \A i, j \in DOMAIN flagged[e] : i < j => flagged[e][i] < flagged[e][j]
    /\ missed[e] = IF flagged[e] = <<>> THEN 0 ELSE flagged[e][Len(flagged[e])]

(* expectations.ts:11-13: a fire is missed when its grace elapsed with no  *)
(* arrival recorded after it.  It does not hold: a tick that read the row  *)
(* before an arrival finds the count it compares with reset to the same 0. *)
OnlyMissesAreFlagged ==
  \A e \in Expectations : missed[e] <= CountDueMisses(e, seen[e], clock)
=============================================================================
