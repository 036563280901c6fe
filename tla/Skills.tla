------------------------------- MODULE Skills -------------------------------
(***************************************************************************)
(* The skill registry and invoker (apps/server/src/skills): versions are   *)
(* proposed, approved by a person and activated against the manifest that  *)
(* this server build registered; the clock and agents' tool calls run the  *)
(* active version.  Several servers share the registry and may run         *)
(* different builds; a restart may bring another build.  A row of          *)
(* skills.skill_versions is named by its unique <<slug, semver>>.          *)
(***************************************************************************)
EXTENDS Naturals, Sequences, HumanRequest

CONSTANTS
  Slugs, Semvers,
  Manifests,     \* what a build can register; its checksum is itself
  Servers,
  Callers,       \* API requests and agents' tool calls in progress
  Answers,       \* verdicts a reviewer gives
  Cron,          \* per manifest: the minutes its schedule matches
  Builds,        \* what a server build registers: slug -> manifest or Nothing
  MaxMinute, MaxRuns, MaxRestarts,
  Nothing, Free

Versions == Slugs \X Semvers

Rows == [status: {"proposed", "active", "retired"}, manifest: Manifests, linked: BOOLEAN]

SkillsAssumption ==
  /\ Answers \subseteq Verdicts /\ Cron \in [Manifests -> SUBSET Nat]
  /\ Builds \subseteq [Slugs -> Manifests \cup {Nothing}] /\ Builds # {}
  /\ Nothing \notin Manifests \cup Rows \cup (Servers \X Nat) \cup Nat
  /\ MaxMinute \in Nat /\ MaxRuns \in Nat /\ MaxRestarts \in Nat

VARIABLES
  version,   \* skill_versions: [status, manifest, linked], or Nothing
  request,   \* the skill_change request of a version; "absent" until asked
  current,   \* skills.current_version_id per slug
  build,     \* what each server registered when it started
  call,      \* API and tool calls in progress
  tick,      \* per server: the scheduled runs of the tick in progress
  fired,     \* per server: lastFiredMinute, in memory
  runs,      \* skill_runs
  minute,    \* the clock
  life,      \* how often each server was restarted
  activator  \* history: the server and life that activated each version last

registry == <<version, request, current>>
vars == <<registry, build, call, tick, fired, runs, minute, life, activator>>

Init ==
  /\ version = [v \in Versions |-> Nothing]
  /\ request = [v \in Versions |-> "absent"]
  /\ current = [s \in Slugs |-> Nothing]
  /\ build \in [Servers -> Builds]
  /\ call = [c \in Callers |-> Free]
  /\ tick = [s \in Servers |-> Free]
  /\ fired = [s \in Servers |-> [g \in Slugs |-> Nothing]]
  /\ runs = <<>>
  /\ minute = 0
  /\ life = [s \in Servers |-> 0]
  /\ activator = [v \in Versions |-> Nothing]

Hold(c, op, s, v) == call' = [call EXCEPT ![c] = [op |-> op, on |-> s, v |-> v, run |-> 0]]
Return(c)   == call' = [call EXCEPT ![c] = Free]
Holds(c, op) == call[c] # Free /\ call[c].op = op

-----------------------------------------------------------------------------
(* propose: the version, then the human request, then the link to it.      *)

(* A second version with this semver violates the unique key and throws. *)
Propose(c, s, v, m) ==
  /\ call[c] = Free /\ version[v] = Nothing
  /\ version' = [version EXCEPT ![v] = [status |-> "proposed", manifest |-> m, linked |-> FALSE]]
  /\ Hold(c, "ask", s, v)
  /\ UNCHANGED <<request, current, build, tick, fired, runs, minute, life, activator>>

AskApproval(c) ==
  /\ Holds(c, "ask")
  /\ request' = [request EXCEPT ![call[c].v] = "pending"]
  /\ Hold(c, "link", call[c].on, call[c].v)
  /\ UNCHANGED <<version, current, build, tick, fired, runs, minute, life, activator>>

LinkApproval(c) ==
  /\ Holds(c, "link")
  /\ version' = [version EXCEPT ![call[c].v].linked = TRUE]
  /\ Return(c)
  /\ UNCHANGED <<request, current, build, tick, fired, runs, minute, life, activator>>

Resolve(v, verdict) ==
  /\ request[v] # "absent" /\ verdict \in RequestTransitions(request[v])
  /\ request' = [request EXCEPT ![v] = verdict]
  /\ UNCHANGED <<version, current, build, call, tick, fired, runs, minute, life, activator>>

-----------------------------------------------------------------------------
(* activate: three reads and checks, then a transaction that looks at      *)
(* none of them again.                                                     *)

LoadVersion(c, s, v) ==
  /\ call[c] = Free /\ version[v] # Nothing
  /\ version[v].status \in {"proposed", "approved"} /\ version[v].linked
  /\ Hold(c, "check", s, v)
  /\ UNCHANGED <<registry, build, tick, fired, runs, minute, life, activator>>

(* Mutant: any answer will do. *)
CheckAnswered(c) ==
  /\ Holds(c, "check")
  /\ LET v == call[c].v IN
       IF request[v] # "pending" /\ build[call[c].on][v[1]] = version[v].manifest
         THEN Hold(c, "retire", call[c].on, v)
         ELSE Return(c)
  /\ UNCHANGED <<registry, build, tick, fired, runs, minute, life, activator>>

(* The request must be approved, and the approved manifest be the one this *)
(* build registered.                                                       *)
CheckApproved(c) ==
  /\ Holds(c, "check")
  /\ LET v == call[c].v IN
       IF request[v] = "approved" /\ build[call[c].on][v[1]] = version[v].manifest
         THEN Hold(c, "retire", call[c].on, v)
         ELSE Return(c)
  /\ UNCHANGED <<registry, build, tick, fired, runs, minute, life, activator>>

ActiveVersions(g) ==
  {v \in Versions : v[1] = g /\ version[v] # Nothing /\ version[v].status = "active"}

(* Row locks: the transaction of c holds the versions it retired. *)
Locked(c) == IF Holds(c, "switch") THEN call[c].v[2] ELSE {}

(* First statement of the transaction: it will touch what its snapshot     *)
(* shows as active.                                                        *)
RetireActive(c) ==
  /\ Holds(c, "retire")
  /\ LET v == call[c].v IN Hold(c, "wait", call[c].on, <<v, ActiveVersions(v[1])>>)
  /\ UNCHANGED <<registry, build, tick, fired, runs, minute, life, activator>>

(* It waits for the rows that another transaction holds and looks at their *)
(* status again; a version activated since the snapshot is not seen.       *)
LockActive(c) ==
  /\ Holds(c, "wait")
  /\ LET v == call[c].v[1] snapshot == call[c].v[2] IN
       /\ \A d \in Callers \ {c} : Locked(d) \cap snapshot = {}
       /\ Hold(c, "switch", call[c].on, <<v, snapshot \cap ActiveVersions(v[1])>>)
  /\ UNCHANGED <<registry, build, tick, fired, runs, minute, life, activator>>

(* Mutant: the version's own row is updated before the pointer, which      *)
(* keeps an older value if it has one.                                     *)
SwitchFirstOnly(c) ==
  /\ Holds(c, "switch")
  /\ LET v == call[c].v[1] old == call[c].v[2] IN
       /\ \A d \in Callers \ {c} : v \notin Locked(d)
       /\ version' = [w \in Versions |->
            IF w = v THEN [version[w] EXCEPT !.status = "active"]
            ELSE IF w \in old THEN [version[w] EXCEPT !.status = "retired"]
            ELSE version[w]]
       /\ current' = [current EXCEPT ![v[1]] = IF old = {} THEN v ELSE @]
       /\ activator' = [activator EXCEPT ![v] = <<call[c].on, life[call[c].on]>>]
  /\ Return(c)
  /\ UNCHANGED <<request, build, tick, fired, runs, minute, life>>

(* The other two statements and the commit. *)
Switch(c) ==
  /\ Holds(c, "switch")
  /\ LET v == call[c].v[1] old == call[c].v[2] IN
       /\ \A d \in Callers \ {c} : v \notin Locked(d)
       /\ version' = [w \in Versions |->
            IF w = v THEN [version[w] EXCEPT !.status = "active"]
            ELSE IF w \in old THEN [version[w] EXCEPT !.status = "retired"]
            ELSE version[w]]
       /\ current' = [current EXCEPT ![v[1]] = v]
       /\ activator' = [activator EXCEPT ![v] = <<call[c].on, life[call[c].on]>>]
  /\ Return(c)
  /\ UNCHANGED <<request, build, tick, fired, runs, minute, life>>

-----------------------------------------------------------------------------
(* invoke: a run row and its event, the registered code, the outcome.      *)

StartRun(s, v, trigger, at) ==
  /\ Len(runs) < MaxRuns
  /\ runs' = Append(runs, [version |-> v, trigger |-> trigger, at |-> at,
                           by |-> <<s, life[s]>>, code |-> build[s][v[1]],
                           status |-> "running"])

(* A slug this build never registered is a failed run. *)
FinishRun(i, status) ==
  /\ runs[i].code = Nothing => status = "failed"
  /\ runs' = [runs EXCEPT ![i].status = status]

(* The production listActive. *)
ListActive == {current[g] : g \in {h \in Slugs : current[h] # Nothing}}

CronMatches(m, t) == t \in Cron[m]

Due(s, v) == CronMatches(version[v].manifest, minute) /\ fired[s][v[1]] # minute

(* The tick of the clock; the memory changes only inside it. *)
StartTick(s) ==
  /\ tick[s] = Free /\ \E v \in ListActive : Due(s, v)
  /\ tick' = [tick EXCEPT ![s] =
       [at |-> minute, todo |-> {v \in ListActive : Due(s, v)}, run |-> 0]]
  /\ UNCHANGED <<registry, build, call, fired, runs, minute, life, activator>>

Fire(s, v) ==
  /\ tick[s] # Free /\ tick[s].run = 0 /\ v \in tick[s].todo
  /\ fired' = [fired EXCEPT ![s][v[1]] = tick[s].at]
  /\ StartRun(s, v, "schedule", tick[s].at)
  /\ tick' = [tick EXCEPT ![s] = [@ EXCEPT !.todo = tick[s].todo \ {v}, !.run = Len(runs')]]
  /\ UNCHANGED <<registry, build, call, minute, life, activator>>

FinishScheduled(s, status) ==
  /\ tick[s] # Free /\ tick[s].run # 0
  /\ FinishRun(tick[s].run, status)
  /\ tick' = [tick EXCEPT ![s] = IF @.todo = {} THEN Free ELSE [@ EXCEPT !.run = 0]]
  /\ UNCHANGED <<registry, build, call, fired, minute, life, activator>>

(* A statement fails: the clock logs it, the rest of the tick is lost. *)
TickThrows(s) ==
  /\ tick[s] # Free
  /\ tick' = [tick EXCEPT ![s] = Free]
  /\ \/ UNCHANGED fired
     \/ /\ tick[s].run = 0
        /\ \E v \in tick[s].todo : fired' = [fired EXCEPT ![s][v[1]] = tick[s].at]
  /\ UNCHANGED <<registry, build, call, runs, minute, life, activator>>

(* An agent's tool call finds the registered slug and its active version. *)
CallTool(c, s, g) ==
  /\ call[c] = Free /\ build[s][g] # Nothing /\ current[g] # Nothing
  /\ Hold(c, "invoke", s, current[g])
  /\ UNCHANGED <<registry, build, tick, fired, runs, minute, life, activator>>

RunTool(c) ==
  /\ Holds(c, "invoke") /\ call[c].run = 0
  /\ StartRun(call[c].on, call[c].v, "tool", minute)
  /\ call' = [call EXCEPT ![c].run = Len(runs')]
  /\ UNCHANGED <<registry, build, tick, fired, minute, life, activator>>

FinishTool(c, status) ==
  /\ Holds(c, "invoke") /\ call[c].run # 0
  /\ FinishRun(call[c].run, status)
  /\ Return(c)
  /\ UNCHANGED <<registry, build, tick, fired, minute, life, activator>>

-----------------------------------------------------------------------------
(* A statement of a call fails and its error is returned. *)
CallFails(c) ==
  /\ call[c] # Free
  /\ Return(c)
  /\ UNCHANGED <<registry, build, tick, fired, runs, minute, life, activator>>

(* A server dies or is deployed anew: memory and calls are gone. *)
Restart(s, b) ==
  /\ life[s] < MaxRestarts
  /\ build' = [build EXCEPT ![s] = b]
  /\ call' = [c \in Callers |-> IF call[c] # Free /\ call[c].on = s THEN Free ELSE call[c]]
  /\ tick' = [tick EXCEPT ![s] = Free]
  /\ fired' = [fired EXCEPT ![s] = [g \in Slugs |-> Nothing]]
  /\ life' = [life EXCEPT ![s] = @ + 1]
  /\ UNCHANGED <<registry, runs, minute, activator>>

NextMinute ==
  /\ minute < MaxMinute
  /\ minute' = minute + 1
  /\ UNCHANGED <<registry, build, call, tick, fired, runs, life, activator>>

Next ==
  \/ \E c \in Callers, s \in Servers, v \in Versions :
       \/ LoadVersion(c, s, v)
       \/ \E m \in Manifests : Propose(c, s, v, m)
  \/ \E c \in Callers : \/ AskApproval(c) \/ LinkApproval(c) \/ CheckApproved(c)
                        \/ RetireActive(c) \/ LockActive(c) \/ Switch(c)
                        \/ RunTool(c) \/ CallFails(c)
  \/ \E c \in Callers, s \in Servers, g \in Slugs : CallTool(c, s, g)
  \/ \E c \in Callers, status \in {"succeeded", "failed"} : FinishTool(c, status)
  \/ \E v \in Versions, verdict \in Answers : Resolve(v, verdict)
  \/ \E s \in Servers : StartTick(s) \/ TickThrows(s)
  \/ \E s \in Servers, v \in Versions : Fire(s, v)
  \/ \E s \in Servers, status \in {"succeeded", "failed"} : FinishScheduled(s, status)
  \/ \E s \in Servers, b \in Builds : Restart(s, b)
  \/ NextMinute

Spec == Init /\ [][Next]_vars

-----------------------------------------------------------------------------
TypeOK ==
  /\ version \in [Versions -> Rows \cup {Nothing}]
  /\ request \in [Versions -> RequestStates \cup {"absent"}]
  /\ current \in [Slugs -> Versions \cup {Nothing}]
  /\ build \in [Servers -> Builds]
  /\ call \in [Callers ->
       [op: {"ask", "link", "check", "retire", "invoke"}, on: Servers, v: Versions, run: Nat]
         \cup [op: {"wait", "switch"}, on: Servers, v: Versions \X SUBSET Versions, run: Nat]
         \cup {Free}]
  /\ tick \in [Servers -> [at: Nat, todo: SUBSET Versions, run: Nat] \cup {Free}]
  /\ fired \in [Servers -> [Slugs -> Nat \cup {Nothing}]]
  /\ minute \in Nat /\ life \in [Servers -> Nat]
  /\ activator \in [Versions -> (Servers \X Nat) \cup {Nothing}]
  /\ runs \in Seq([version: Versions, trigger: {"schedule", "tool"}, at: Nat,
                   by: Servers \X Nat, code: Manifests \cup {Nothing},
                   status: {"running", "succeeded", "failed"}])

(* Whatever activations overlap, the version a skill points to is active:  *)
(* it is never one that another activation retired.                        *)
CurrentIsActive ==
  \A g \in Slugs : current[g] # Nothing => current[g] \in ActiveVersions(g)

(* The gate holds for everything that ever runs: a version with a run was  *)
(* approved by a person, even if the approval, the activation and the run  *)
(* are seen by different servers and calls.                                *)
OnlyApprovedVersionsRun ==
  \A i \in 1..Len(runs) : request[runs[i].version] \in {"approved", "superseded"}

(* However often the clock ticks in a minute and whatever is activated     *)
(* meanwhile, one life of one server fires a skill once in it.             *)
FiresOnceAMinute ==
  \A i, j \in 1..Len(runs) :
    /\ runs[i].trigger = "schedule" /\ runs[j].trigger = "schedule"
    /\ runs[i].at = runs[j].at /\ runs[i].by = runs[j].by
    /\ runs[i].version[1] = runs[j].version[1]
    => i = j

(* As long as the server that activated a version lives, what it runs      *)
(* under that version is what was approved.  (Another server, or the same  *)
(* one after a deployment, is not held to it: see RunsApprovedCode.)       *)
ActivatorRunsApprovedCode ==
  \A i \in 1..Len(runs) :
    LET v == runs[i].version
    IN runs[i].by = activator[v] => runs[i].code = version[v].manifest

(* service.ts:31-34: "registry state and shipped code cannot silently      *)
(* drift", so every run that succeeded ran the approved manifest.  It does *)
(* not hold: invoke compares no checksum.                                  *)
RunsApprovedCode ==
  \A i \in 1..Len(runs) :
    runs[i].status = "succeeded" => runs[i].code = version[runs[i].version].manifest

(* One version of a skill is active.  It does not hold when two activations*)
(* overlap: neither sees the other's version as active.                    *)
OneActiveVersion == \A g \in Slugs : \A v, w \in ActiveVersions(g) : v = w
=============================================================================
