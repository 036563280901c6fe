------------------------------- MODULE Services -------------------------------
(***************************************************************************)
(* The services around the queue, the spine and the process engine: the    *)
(* human gate, the boot of a server, skills, the follow-up cadence, the    *)
(* connections and their expectations, the context store and the graphs of *)
(* process runs.  They share no state but the spine and the clock, so a    *)
(* behaviour is one of one service, whose variables are x1 to x12.  The    *)
(* constants have the names they have in the service's module, but for the *)
(* processes and calls that race in it, which are the Actors of each.      *)
(***************************************************************************)
EXTENDS Naturals, Sequences, FiniteSets

CONSTANTS Actors, None, Idle

CONSTANTS Requests, Subjects, SlaHours, Assignees, Path, Owner, MaxTime, MaxLag

CONSTANTS Tenants, Watchers, Seeds, Plans, MaxFaults

CONSTANTS Slugs, Semvers, Manifests, Servers, Answers, Cron, Builds, MaxMinute,
          MaxRuns, MaxRestarts

CONSTANTS N, Cadence, EscalateAfter, FirstDue, MaxNow, MaxCuts

CONSTANTS Probes, Feeds, Noise, Page, Interval, MaxPosts, MaxSyncs, MaxDisables

CONSTANTS Expectations, Fires, Grace, MaxScan, MaxClock

CONSTANTS Contents, Docs, Entities, Contacts, AnswersLlm, Strength, Audiences,
          ArmLimit, SearchLimit, MaxPaths, MaxOps

CONSTANTS Keys, Templates, Dynamic, Deltas, MaxCrash

VARIABLES service, x1, x2, x3, x4, x5, x6, x7, x8, x9, x10, x11, x12

vars == <<service, x1, x2, x3, x4, x5, x6, x7, x8, x9, x10, x11, x12>>

-----------------------------------------------------------------------------
Gate == INSTANCE HumanGate WITH
  Sweepers <- Actors, NoSla <- None, NoWake <- None,
  state <- x1, subject <- x2, count <- x3, wake <- x4, assignee <- x5, now <- x6,
  sweep <- x7, begun <- x8

Start == INSTANCE Boot WITH
  Nodes <- Actors,
  phase <- x1, ledger <- x2, migrating <- x3, seedRow <- x4, seeding <- x5,
  tenants <- x6, mint <- x7, job <- x8, hosted <- x9, handled <- x10, swept <- x11,
  faults <- x12

Skill == INSTANCE Skills WITH
  Callers <- Actors, Nothing <- None, Free <- Idle,
  version <- x1, request <- x2, current <- x3, build <- x4, call <- x5, tick <- x6,
  fired <- x7, runs <- x8, minute <- x9, life <- x10, activator <- x11

FollowUp == INSTANCE FollowUps WITH
  Sweeps <- Actors, MaxClock <- MaxNow, MaxFaults <- MaxCuts, Never <- None, Away <- Idle,
  open <- x1, nextAt <- x2, contact <- x3, notice <- x4, sweep <- x5, clock <- x6,
  nudges <- x7, faults <- x8

Sync == INSTANCE Connections WITH
  Servers <- Actors, MaxClock <- MaxSyncs, Never <- None, Away <- Idle,
  status <- x1, cursors <- x2, lastSync <- x3, failed <- x4, posted <- x5, landed <- x6,
  sync <- x7, probe <- x8, clock <- x9, disables <- x10

Watch == INSTANCE FeedWatch WITH
  Servers <- Actors, Resting <- Idle,
  seen <- x1, missed <- x2, ticking <- x3, flagged <- x4, clock <- x5

Context == INSTANCE ContextStore WITH
  Calls <- Actors, Keys <- Entities, Nil <- None, Free <- Idle,
  blob <- x1, doc <- x2, degree <- x3, links <- x4, events <- x5, req <- x6,
  answered <- x7, ops <- x8

Graph == INSTANCE ProcessGraph WITH
  Changes <- Actors,
  saved <- x1, run <- x2, revision <- x3, rules <- x4, items <- x5, caller <- x6,
  engine <- x7, change <- x8, inbox <- x9, crashes <- x10

ASSUME ServicesAssumption ==
  /\ Gate!GateAssumption /\ Start!BootAssumption /\ Skill!SkillsAssumption
  /\ FollowUp!FollowUpsAssumption /\ Sync!ConnectionsAssumption
  /\ Watch!FeedWatchAssumption /\ Context!ContextAssumption /\ Graph!GraphAssumption

-----------------------------------------------------------------------------
(* A service leaves the variables it has no use for at None. *)
Init ==
  \/ service = "gate" /\ Gate!Init /\ x9 = None /\ x10 = None /\ x11 = None /\ x12 = None
  \/ service = "boot" /\ Start!Init
  \/ service = "skills" /\ Skill!Init /\ x12 = None
  \/ service = "followups" /\ FollowUp!Init
       /\ x9 = None /\ x10 = None /\ x11 = None /\ x12 = None
  \/ service = "sync" /\ Sync!Init /\ x11 = None /\ x12 = None
  \/ service = "watch" /\ Watch!Init
       /\ x6 = None /\ x7 = None /\ x8 = None
       /\ x9 = None /\ x10 = None /\ x11 = None /\ x12 = None
  \/ service = "context" /\ Context!Init
       /\ x9 = None /\ x10 = None /\ x11 = None /\ x12 = None
  \/ service = "graph" /\ Graph!Init /\ x11 = None /\ x12 = None

Next ==
  /\ UNCHANGED service
  /\ \/ service = "gate" /\ Gate!Next /\ UNCHANGED <<x9, x10, x11, x12>>
     \/ service = "boot" /\ Start!Next
     \/ service = "skills" /\ Skill!Next /\ UNCHANGED x12
     \/ service = "followups" /\ FollowUp!Next /\ UNCHANGED <<x9, x10, x11, x12>>
     \/ service = "sync" /\ Sync!Next /\ UNCHANGED <<x11, x12>>
     \/ service = "watch" /\ Watch!Next
          /\ UNCHANGED <<x6, x7, x8, x9, x10, x11, x12>>
     \/ service = "context" /\ Context!Next /\ UNCHANGED <<x9, x10, x11, x12>>
     \/ service = "graph" /\ Graph!Next /\ UNCHANGED <<x11, x12>>

Spec == Init /\ [][Next]_vars

-----------------------------------------------------------------------------
(* Every service keeps its rows, its calls in progress and its memory well *)
(* typed.                                                                  *)
TypesOK ==
  /\ service = "gate" => Gate!TypeOK
  /\ service = "boot" => Start!TypeOK
  /\ service = "skills" => Skill!TypeOK
  /\ service = "followups" => FollowUp!TypeOK
  /\ service = "sync" => Sync!TypeOK
  /\ service = "watch" => Watch!TypeOK
  /\ service = "context" => Context!TypeOK
  /\ service = "graph" => Graph!TypeOK

(* Human gate: the escalation ladder is climbed rung by rung, each a full  *)
(* SLA after the one before, to its end, and no pending request with an    *)
(* SLA is left without a next follow-up.                                   *)
LadderClimbed ==
  service = "gate" => Gate!EveryRungTakesAnSla /\ Gate!LadderClimbed /\ Gate!NoRequestForgotten

(* Human gate: a request that was answered, superseded or has expired is   *)
(* not chased by a sweep that scanned it before.                           *)
SettledIsNotChased == [][service = "gate" => Gate!NotChased]_vars

(* Boot: however many servers migrate at once and die on the way, every    *)
(* file is applied once, in order, before a server goes on.                *)
MigratedOnce == service = "boot" => Start!MigratedOnce

(* Boot: a server that is up covers the tenants it listed, and what other  *)
(* servers leave half made is left by faults only.                         *)
FleetsAreWhole ==
  service = "boot" => Start!UpServersCoverTenants /\ Start!OnlyFaultsLeaveOrphans

(* Skills: whatever activations overlap, the version a skill points to is  *)
(* active.                                                                 *)
CurrentIsActive == service = "skills" => Skill!CurrentIsActive

(* Skills: what runs was approved, is the approved code while the server   *)
(* that activated it lives, and fires once in a minute of one server.      *)
SkillsRunAsApproved ==
  service = "skills" => /\ Skill!OnlyApprovedVersionsRun
                        /\ Skill!ActivatorRunsApprovedCode
                        /\ Skill!FiresOnceAMinute

(* Follow-ups: a recorded contact was made, and overlapping sweeps raise   *)
(* no more notices than they are.                                          *)
FollowUpsWereMade ==
  service = "followups" => FollowUp!ContactsWereMade /\ FollowUp!EscalationsBounded

(* Connections: no watermark passes a message that is not in the store.    *)
CursorNeverSkips == service = "sync" => Sync!CursorNeverSkips

(* Expectations: overlapping ticks announce each count of misses once.     *)
MissesGrow == service = "watch" => Watch!MissesGrow

(* Context store: racing puts, ingests and distills write once.            *)
WrittenOnce == service = "context" => Context!WrittenOnce

(* Context store: what is known to be prospect material when a search or   *)
(* an introduction begins is not in its answer.                            *)
ProspectsStayOut ==
  service = "context" => Context!ProspectsStayOut /\ Context!IntroductionsAreKnown

(* Process graphs: a change is applied once and spares protected nodes,    *)
(* and only a crash leaves a run with part of its template's graph.        *)
GraphsAsApproved ==
  service = "graph" => /\ Graph!ChangesApplyOnce
                       /\ Graph!ProtectedNodesStay
                       /\ Graph!OnlyCrashesLeaveHalfGraphs
=============================================================================
