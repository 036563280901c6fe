---------------------------- MODULE Connections ----------------------------
(***************************************************************************)
(* One connection (apps/server/src/connections) and the feeds its Slack    *)
(* connector pulls (extensions/connectors/slack): every orchestrator's     *)
(* tick loads the row, asks the connector for each feed in turn and then   *)
(* writes cursors and health back in one transaction; probes write health  *)
(* as well, and an operator disables the row.  Slack pages a channel's     *)
(* history from the newest message to the oldest while people post.        *)
(***************************************************************************)
EXTENDS Naturals, Sequences, FiniteSetsExt

CONSTANTS
  Servers,   \* orchestrators that tick
  Probes,    \* registry.health calls in progress
  Feeds,     \* the manifest's feeds, each the sequence of its channels
  Noise,     \* timestamps of messages that shouldIngestMessage leaves out
  Page,      \* HISTORY_PAGE_LIMIT
  Interval,  \* intervalMinutes
  MaxPosts,  \* bound on the messages of each channel
  MaxClock, MaxDisables,
  Never, Away

Channels == UNION {{Feeds[f][k] : k \in 1..Len(Feeds[f])} : f \in 1..Len(Feeds)}

ConnectionsAssumption ==
  /\ Feeds \in Seq(Seq(Channels)) /\ \A f \in 1..Len(Feeds) : Feeds[f] # <<>>
  /\ Noise \subseteq Nat /\ Page \in Nat \ {0} /\ Interval \in Nat
  /\ MaxPosts \in [Channels -> Nat] /\ MaxClock \in Nat /\ MaxDisables \in Nat /\ Never \notin Nat

VARIABLES
  status,    \* connections.status
  cursors,   \* sync_state.cursorsByFeed: per channel the watermark, 0 for none
  lastSync,  \* sync_state.lastSyncAt
  failed,    \* whether sync_state.lastError is set
  posted,    \* per channel: its messages are 1..posted
  landed,    \* the docs the sink has, each of a channel and a message
  sync,      \* per server: the syncConnection in progress
  probe,     \* per probe: the status it loaded
  clock,
  disables   \* bound: how often the operator switched it off

row  == <<status, cursors, lastSync, failed>>
vars == <<row, posted, landed, sync, probe, clock, disables>>

(* register. *)
Init ==
  /\ status = "healthy" /\ lastSync = Never /\ failed = FALSE
  /\ cursors = [c \in Channels |-> 0]
  /\ posted = [c \in Channels |-> 0]
  /\ landed = {}
  /\ sync = [s \in Servers |-> Away]
  /\ probe = [p \in Probes |-> Away]
  /\ clock = 0 /\ disables = 0

-----------------------------------------------------------------------------
(* syncConnection.  `next' is what the feed in progress will return as its *)
(* cursor; `below' bounds its next page, whose older messages come later.  *)

IsDueForSync(now) ==
  /\ status \notin {"disabled", "expired"}
  /\ (lastSync # Never => now >= lastSync + Interval)

StartFeed(job, f) ==
  [job EXCEPT !.feed = f, !.chan = 1, !.next = job.cursors, !.page = {}, !.below = Never]

StartSync(s) ==
  /\ sync[s] = Away /\ IsDueForSync(clock)
  /\ sync' = [sync EXCEPT ![s] =
       StartFeed([cursors |-> cursors, feed |-> 1, chan |-> 1, next |-> cursors,
                  page |-> {}, below |-> Never, error |-> FALSE], 1)]
  /\ UNCHANGED <<row, posted, landed, probe, clock, disables>>

Pulling(s) == sync[s] # Away /\ ~sync[s].error /\ sync[s].feed <= Len(Feeds)
Chan(s) == Feeds[sync[s].feed][sync[s].chan]
Watermark(s) == sync[s].cursors[Chan(s)]

(* conversations.history: the newest messages above the watermark that no  *)
(* earlier page had.                                                       *)
History(s) ==
  LET top == IF sync[s].below = Never THEN posted[Chan(s)] ELSE sync[s].below
      all == {m \in 1..top : m > Watermark(s)}
  IN {m \in all : Cardinality({n \in all : n > m}) < Page}

(* All of the channel was paged. *)
Paged(s) == sync[s].below # Never /\ sync[s].below <= Watermark(s)

FetchPage(s) ==
  /\ Pulling(s) /\ sync[s].page = {} /\ ~Paged(s)
  /\ LET got == History(s) c == Chan(s) IN
       sync' = [sync EXCEPT ![s] =
         [@ EXCEPT !.page = got \ Noise,
                   !.below = IF got = {} THEN 0 ELSE Min(got) - 1,
                   !.next[c] = Max(got \cup {sync[s].next[c]})]]
  /\ UNCHANGED <<row, posted, landed, probe, clock, disables>>

(* Mutant: a feed that throws leaves the watermarks it had reached. *)
FeedThrowsForward(s) ==
  /\ Pulling(s)
  /\ sync' = [sync EXCEPT ![s] = [@ EXCEPT !.error = TRUE, !.cursors = sync[s].next]]
  /\ UNCHANGED <<row, posted, landed, probe, clock, disables>>

(* A feed throws: what it pulled stays landed, its cursor does not move and*)
(* the feeds behind it are left out.  A connector that is not registered   *)
(* ends the same way.                                                      *)
FeedThrows(s) ==
  /\ Pulling(s)
  /\ sync' = [sync EXCEPT ![s].error = TRUE]
  /\ UNCHANGED <<row, posted, landed, probe, clock, disables>>

(* The oldest message of the page: its blob, and its doc, whose slug is    *)
(* unique in the tenant.                                                   *)
Ingest(s) ==
  /\ Pulling(s) /\ sync[s].page # {}
  /\ LET m == Min(sync[s].page) doc == <<Chan(s), m>> IN
       IF doc \in landed
         THEN /\ sync' = [sync EXCEPT ![s].error = TRUE]
              /\ UNCHANGED landed
         ELSE /\ sync' = [sync EXCEPT ![s].page = @ \ {m}]
              /\ landed' = landed \cup {doc}
  /\ UNCHANGED <<row, posted, probe, clock, disables>>

(* On to the next channel, or the feed returns its cursor. *)
NextChannel(s) ==
  /\ Pulling(s) /\ sync[s].page = {} /\ Paged(s)
  /\ sync' = [sync EXCEPT ![s] =
       IF @.chan < Len(Feeds[@.feed])
         THEN [@ EXCEPT !.chan = sync[s].chan + 1, !.below = Never]
         ELSE StartFeed([@ EXCEPT !.cursors = sync[s].next], @.feed + 1)]
  /\ UNCHANGED <<row, posted, landed, probe, clock, disables>>

(* The status of the row itself is not looked at. *)
ApplyHealthOutcome(ok) == status' = IF ok THEN "healthy" ELSE "degraded"

(* The one transaction of the sync. *)
FinishSync(s) ==
  /\ sync[s] # Away /\ ~Pulling(s)
  /\ cursors' = sync[s].cursors
  /\ lastSync' = clock
  /\ failed' = sync[s].error
  /\ ApplyHealthOutcome(~sync[s].error)
  /\ sync' = [sync EXCEPT ![s] = Away]
  /\ UNCHANGED <<posted, landed, probe, clock, disables>>

-----------------------------------------------------------------------------
(* registry.health: load, probe, write.  Without a probe for the slug the  *)
(* last sync's outcome answers.                                            *)

StartProbe(p) ==
  /\ probe[p] = Away /\ status # "disabled"
  /\ \E ok \in BOOLEAN : probe' = [probe EXCEPT ![p] = ok]
  /\ UNCHANGED <<row, posted, landed, sync, clock, disables>>

FinishProbe(p) ==
  /\ probe[p] # Away
  /\ ApplyHealthOutcome(probe[p])
  /\ probe' = [probe EXCEPT ![p] = Away]
  /\ UNCHANGED <<cursors, lastSync, failed, posted, landed, sync, clock, disables>>

(* The operator, in the database. *)
Disable ==
  /\ status # "disabled" /\ disables < MaxDisables
  /\ status' = "disabled" /\ disables' = disables + 1
  /\ UNCHANGED <<cursors, lastSync, failed, posted, landed, sync, probe, clock>>

Post(c) ==
  /\ posted[c] < MaxPosts[c]
  /\ posted' = [posted EXCEPT ![c] = @ + 1]
  /\ UNCHANGED <<row, landed, sync, probe, clock, disables>>

(* The process dies: nothing of the sync is written. *)
Crash(s) ==
  /\ sync[s] # Away
  /\ sync' = [sync EXCEPT ![s] = Away]
  /\ UNCHANGED <<row, posted, landed, probe, clock, disables>>

Advance ==
  /\ clock < MaxClock
  /\ clock' = clock + 1
  /\ UNCHANGED <<row, posted, landed, sync, probe, disables>>

Next ==
  \/ \E s \in Servers :
       \/ StartSync(s) \/ FetchPage(s) \/ Ingest(s) \/ NextChannel(s)
       \/ FeedThrows(s) \/ FinishSync(s) \/ Crash(s)
  \/ \E p \in Probes : StartProbe(p) \/ FinishProbe(p)
  \/ \E c \in Channels : Post(c)
  \/ Disable \/ Advance

Spec == Init /\ [][Next]_vars

-----------------------------------------------------------------------------
TypeOK ==
  /\ status \in {"healthy", "degraded", "disabled"}
  /\ cursors \in [Channels -> Nat] /\ lastSync \in Nat \cup {Never} /\ failed \in BOOLEAN
  /\ posted \in [Channels -> Nat] /\ landed \subseteq Channels \X Nat
  /\ sync \in [Servers -> [cursors: [Channels -> Nat], feed: 1..(Len(Feeds) + 1), chan: Nat,
                          next: [Channels -> Nat], page: SUBSET Nat, below: Nat \cup {Never},
                          error: BOOLEAN] \cup {Away}]
  /\ probe \in [Probes -> BOOLEAN \cup {Away}] /\ clock \in Nat /\ disables \in Nat

(* The watermark never passes a message that is not in the store, although *)
(* pages come newest first, people post between two pages, feeds throw in  *)
(* the middle and two orchestrators overwrite each other's cursors.        *)
CursorNeverSkips ==
  \A c \in Channels : \A m \in (1..cursors[c]) \ Noise : <<c, m>> \in landed

(* shared.ts:116-117: "disabled is sticky".  It does not hold: work that   *)
(* began before writes its outcome over it.                                *)
DisabledIsSticky == [][status = "disabled" => status' = "disabled"]_vars
=============================================================================
