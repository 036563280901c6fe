-------------------------------- MODULE Boot --------------------------------
(***************************************************************************)
(* Start-up (apps/server/src/main.ts boot) of servers that share a         *)
(* database: the migrations, the dev seed of the skills, the sentinel's    *)
(* sweep that gives every tenant its watchers, and then the consumer that  *)
(* does the same for tenants created later.  Every statement or            *)
(* transaction is a step, an error that reaches boot ends the process, and *)
(* a supervisor starts it again.                                           *)
(***************************************************************************)
EXTENDS Naturals, Sequences, FiniteSetsExt

CONSTANTS
  Nodes,       \* server processes, each with the orchestrator's role
  Tenants,
  Watchers,    \* defaultWatcherCharters
  Seeds,       \* DEV_SEED_SKILL_SLUGS, in order; the dev seed exists
  Plans,       \* collectMigrations() of every build: each module's files in order
  MaxFaults,
  Idle

(* What a server has in memory of the seeds, and of a tenant's fleet. *)
SeedJobs == [todo: SUBSET (1..Len(Seeds)),
             step: {"none", "proposed", "asked", "linked", "approved"}]

TenantJobs ==
  [kind: {"boot", "event"}, rest: SUBSET Tenants, t: Tenants, todo: SUBSET Watchers,
   w: Watchers \cup {Idle}, step: {"pick", "principal", "charter", "prompt", "mint"}]

(* A migration file: its module and name, and the checksum of its text.    *)
Files == [name: Nat, sum: Nat]

BootAssumption ==
  /\ Idle \notin SeedJobs \cup TenantJobs
  /\ Plans \subseteq Seq(Seq(Files)) /\ MaxFaults \in Nat
  /\ \A p \in Plans : \A m, n \in 1..Len(p) : \A i \in 1..Len(p[m]), j \in 1..Len(p[n]) :
       p[m][i].name = p[n][j].name => m = n /\ i = j

VARIABLES
  phase,     \* how far boot is: down, migrate, seed, sweep, up
  ledger,    \* lithis_migrations, in commit order
  migrating, \* per server: [its build's plan, module, file, new files, applying one]
  seedRow,   \* the seeded version of a skill: none, proposed, asked, linked, approved, active
  seeding,   \* per server: the seeds to come and how far the first is
  tenants,   \* iam.tenants
  mint,      \* per tenant and watcher: which of its three rows exist
  job,       \* per server: the ensureTenant in progress
  hosted,    \* per server: watchers resident in memory
  handled,   \* tenants behind the cursor of sentinel.tenants
  swept,     \* history: per server, the tenants its sweep listed
  faults     \* history

vars == <<phase, ledger, migrating, seedRow, seeding, tenants, mint, job,
          hosted, handled, swept, faults>>

NoRows == [principal |-> FALSE, prompt |-> FALSE, charter |-> FALSE]

Init ==
  /\ phase = [s \in Nodes |-> "down"]
  /\ ledger = <<>>
  /\ migrating = [s \in Nodes |-> Idle]
  /\ seedRow = [i \in 1..Len(Seeds) |-> "none"]
  /\ seeding = [s \in Nodes |-> Idle]
  /\ tenants \in SUBSET Tenants
  /\ mint = [t \in Tenants |-> [w \in Watchers |-> NoRows]]
  /\ job = [s \in Nodes |-> Idle]
  /\ hosted = [s \in Nodes |-> {}]
  /\ handled = {}
  /\ swept = [s \in Nodes |-> {}]
  /\ faults = 0

(* The process is gone; its open transaction rolls back. *)
Down(s) ==
  /\ phase' = [phase EXCEPT ![s] = "down"]
  /\ migrating' = [migrating EXCEPT ![s] = Idle]
  /\ seeding' = [seeding EXCEPT ![s] = Idle]
  /\ job' = [job EXCEPT ![s] = Idle]
  /\ hosted' = [hosted EXCEPT ![s] = {}]
  /\ swept' = [swept EXCEPT ![s] = {}]

(* Whatever build is deployed. *)
StartNode(s) ==
  /\ phase[s] = "down"
  /\ phase' = [phase EXCEPT ![s] = "migrate"]
  /\ \E p \in Plans :
       migrating' = [migrating EXCEPT ![s] =
         [plan |-> p, m |-> 1, f |-> 1, new |-> <<>>, apply |-> FALSE]]
  /\ UNCHANGED <<ledger, seedRow, seeding, tenants, mint, job, hosted, handled, swept, faults>>

Crash(s) ==
  /\ phase[s] # "down" /\ faults < MaxFaults
  /\ faults' = faults + 1
  /\ Down(s)
  /\ UNCHANGED <<ledger, seedRow, tenants, mint, handled>>

-----------------------------------------------------------------------------
(* applyMigrations: one transaction per module, one ledger row per file.   *)

FileAt(s) == migrating[s].plan[migrating[s].m][migrating[s].f]

InLedger(name) == \E i \in 1..Len(ledger) : ledger[i].name = name

OthersNew(s) ==
  UNION {{migrating[q].new[i].name : i \in 1..Len(migrating[q].new)} :
           q \in {p \in Nodes \ {s} : migrating[p] # Idle}}

(* A file that was edited after it was applied throws. *)
ReadLedger(s) ==
  /\ migrating[s] # Idle /\ ~migrating[s].apply
  /\ migrating[s].m <= Len(migrating[s].plan)
  /\ migrating[s].f <= Len(migrating[s].plan[migrating[s].m])
  /\ LET my == migrating[s] file == FileAt(s) IN
       IF \E i \in 1..Len(ledger) : ledger[i].name = file.name /\ ledger[i].sum # file.sum
         THEN Down(s)
         ELSE /\ migrating' = [migrating EXCEPT ![s] =
                   IF InLedger(file.name) THEN [my EXCEPT !.f = my.f + 1]
                   ELSE [my EXCEPT !.apply = TRUE]]
              /\ UNCHANGED <<phase, seeding, job, hosted, swept>>
  /\ UNCHANGED <<ledger, seedRow, tenants, mint, handled, faults>>

(* What the open transaction of s holds when it has written a file. *)
Applied(s) ==
  [migrating[s] EXCEPT !.f = migrating[s].f + 1, !.apply = FALSE,
                       !.new = Append(migrating[s].new, FileAt(s))]

(* Mutant: the ledger's primary key is gone, the row written on conflict.  *)
ApplyAnyway(s) ==
  /\ migrating[s] # Idle /\ migrating[s].apply
  /\ migrating' = [migrating EXCEPT ![s] = Applied(s)]
  /\ UNCHANGED <<phase, ledger, seedRow, seeding, tenants, mint, job, hosted, handled, swept, faults>>

(* The file's statements and its row, which waits while another open       *)
(* transaction holds the same key, and violates it if that one committed.  *)
ApplyFile(s) ==
  /\ migrating[s] # Idle /\ migrating[s].apply
  /\ FileAt(s).name \notin OthersNew(s)
  /\ IF InLedger(FileAt(s).name)
       THEN Down(s)
       ELSE /\ migrating' = [migrating EXCEPT ![s] = Applied(s)]
            /\ UNCHANGED <<phase, seeding, job, hosted, swept>>
  /\ UNCHANGED <<ledger, seedRow, tenants, mint, handled, faults>>

CommitModule(s) ==
  /\ migrating[s] # Idle /\ migrating[s].m <= Len(migrating[s].plan)
  /\ migrating[s].f > Len(migrating[s].plan[migrating[s].m])
  /\ ledger' = ledger \o migrating[s].new
  /\ migrating' = [migrating EXCEPT ![s] =
       [plan |-> @.plan, m |-> @.m + 1, f |-> 1, new |-> <<>>, apply |-> FALSE]]
  /\ UNCHANGED <<phase, seedRow, seeding, tenants, mint, job, hosted, handled, swept, faults>>

Migrated(s) ==
  /\ phase[s] = "migrate" /\ migrating[s] # Idle /\ migrating[s].m > Len(migrating[s].plan)
  /\ seeding' = [seeding EXCEPT ![s] =
       [todo |-> {g \in 1..Len(Seeds) : seedRow[g] # "active"}, step |-> "none"]]
  /\ phase' = [phase EXCEPT ![s] = "seed"]
  /\ UNCHANGED <<ledger, migrating, seedRow, tenants, mint, job, hosted, handled, swept, faults>>

-----------------------------------------------------------------------------
(* ensureDevSkillsSeed: each seed is proposed, its request asked and       *)
(* linked, approved, and the version activated.                            *)

After(step) ==
  CASE step = "none"     -> "proposed"
    [] step = "proposed" -> "asked"
    [] step = "asked"    -> "linked"
    [] step = "linked"   -> "approved"
    [] step = "approved" -> "active"

NoSeeds == [todo |-> {}, step |-> "none"]

(* The seed at hand: they are taken in the order of the list. *)
Seed(s) == Min(seeding[s].todo)

(* A version 0.1.0 that is there already makes propose throw: the error is *)
(* caught in boot, and the seeds behind it are left out.                   *)
SeedSkill(s) ==
  /\ phase[s] = "seed" /\ seeding[s].todo # {}
  /\ LET g == Seed(s) step == seeding[s].step next == After(step) IN
       IF step = "none" /\ seedRow[g] # "none"
         THEN /\ seeding' = [seeding EXCEPT ![s] = NoSeeds]
              /\ UNCHANGED seedRow
         ELSE /\ seedRow' = [seedRow EXCEPT ![g] = next]
              /\ seeding' = [seeding EXCEPT ![s] =
                   IF next = "active" THEN [todo |-> @.todo \ {g}, step |-> "none"]
                   ELSE [todo |-> @.todo, step |-> next]]
  /\ UNCHANGED <<phase, ledger, migrating, tenants, mint, job, hosted, handled, swept, faults>>

-----------------------------------------------------------------------------
(* ensureTenant: the three rows of every watcher, looked up before they    *)
(* are created, and then their residency.                                  *)

StartTenant(t, rest, kind) ==
  [kind |-> kind, rest |-> rest, t |-> t, todo |-> Watchers, w |-> Idle, step |-> "pick"]

(* The sweep lists the tenants; without any the server is up. *)
SweepTenants(s) ==
  /\ phase[s] = "seed" /\ seeding[s].todo = {}
  /\ seeding' = [seeding EXCEPT ![s] = Idle]
  /\ swept' = [swept EXCEPT ![s] = tenants]
  /\ IF tenants = {}
       THEN phase' = [phase EXCEPT ![s] = "up"] /\ UNCHANGED job
       ELSE /\ phase' = [phase EXCEPT ![s] = "sweep"]
            /\ \E t \in tenants :
                 job' = [job EXCEPT ![s] = StartTenant(t, tenants \ {t}, "boot")]
  /\ UNCHANGED <<ledger, migrating, seedRow, tenants, mint, hosted, handled, faults>>

(* sentinel.tenants meets a tenant its cursor has not passed. *)
HandleTenant(s, t) ==
  /\ phase[s] = "up" /\ job[s] = Idle /\ t \in tenants \ handled
  /\ job' = [job EXCEPT ![s] = StartTenant(t, {}, "event")]
  /\ UNCHANGED <<phase, ledger, migrating, seedRow, seeding, tenants, mint, hosted, handled, swept, faults>>

(* The tenant is done: on to the next one, or up, or the cursor moves. *)
NextTenant(s) ==
  IF job[s].rest # {}
    THEN /\ \E t \in job[s].rest :
              job' = [job EXCEPT ![s] = StartTenant(t, @.rest \ {t}, @.kind)]
         /\ UNCHANGED <<phase, handled>>
    ELSE /\ job' = [job EXCEPT ![s] = Idle]
         /\ IF job[s].kind = "boot"
              THEN phase' = [phase EXCEPT ![s] = "up"] /\ UNCHANGED handled
              ELSE handled' = handled \cup {job[s].t} /\ UNCHANGED phase

(* Mutant: the sweep catches its errors and goes on. *)
ThrowAndGoOn(s) ==
  NextTenant(s) /\ UNCHANGED <<migrating, seeding, hosted, swept>>

(* An error of the sweep ends the process; one of the consumer leaves the  *)
(* event to be delivered again.                                            *)
Throw(s) ==
  IF job[s].kind = "boot"
    THEN Down(s) /\ UNCHANGED handled
    ELSE /\ job' = [job EXCEPT ![s] = Idle]
         /\ UNCHANGED <<phase, migrating, seeding, hosted, swept, handled>>

Row(s) == mint[job[s].t][job[s].w]
Insert(s, col) == mint' = [mint EXCEPT ![job[s].t][job[s].w][col] = TRUE]
Steps(s, step) == job[s] # Idle /\ job[s].step = step
Goto(s, step) ==
  /\ job' = [job EXCEPT ![s].step = step]
  /\ UNCHANGED <<phase, migrating, seeding, hosted, swept, handled>>

(* getPrincipalBySlug. *)
LookUpPrincipal(s, w) ==
  /\ Steps(s, "pick") /\ w \in job[s].todo
  /\ job' = [job EXCEPT ![s] =
       [@ EXCEPT !.w = w, !.todo = job[s].todo \ {w},
                 !.step = IF mint[job[s].t][w].principal THEN "charter" ELSE "principal"]]
  /\ UNCHANGED <<phase, ledger, migrating, seedRow, seeding, tenants, mint, hosted, handled, swept, faults>>

CreatePrincipal(s) ==
  /\ Steps(s, "principal")
  /\ IF Row(s).principal THEN Throw(s) /\ UNCHANGED mint
     ELSE Insert(s, "principal") /\ Goto(s, "charter")
  /\ UNCHANGED <<ledger, seedRow, tenants, faults>>

(* getCharter: a watcher that has one is complete. *)
LookUpCharter(s) ==
  /\ Steps(s, "charter")
  /\ Goto(s, IF Row(s).charter THEN "pick" ELSE "prompt")
  /\ UNCHANGED <<ledger, seedRow, tenants, mint, faults>>

(* The prompt's blob (idempotent) and its doc, whose slug is unique. *)
IngestPrompt(s) ==
  /\ Steps(s, "prompt")
  /\ IF Row(s).prompt THEN Throw(s) /\ UNCHANGED mint
     ELSE Insert(s, "prompt") /\ Goto(s, "mint")
  /\ UNCHANGED <<ledger, seedRow, tenants, faults>>

(* The notebook's blob (idempotent) and the charter. *)
CreateCharter(s) ==
  /\ Steps(s, "mint")
  /\ IF Row(s).charter THEN Throw(s) /\ UNCHANGED mint
     ELSE Insert(s, "charter") /\ Goto(s, "pick")
  /\ UNCHANGED <<ledger, seedRow, tenants, faults>>

(* agentHost.ensure of the tenant's watchers; one without charter throws. *)
HostTenant(s) ==
  /\ Steps(s, "pick") /\ job[s].todo = {}
  /\ IF \E w \in Watchers : ~mint[job[s].t][w].charter
       THEN Throw(s)
       ELSE /\ hosted' = [hosted EXCEPT ![s] = @ \cup ({job[s].t} \X Watchers)]
            /\ NextTenant(s)
            /\ UNCHANGED <<migrating, seeding, swept>>
  /\ UNCHANGED <<ledger, seedRow, tenants, mint, faults>>

CreateTenant(t) ==
  /\ t \notin tenants
  /\ tenants' = tenants \cup {t}
  /\ UNCHANGED <<phase, ledger, migrating, seedRow, seeding, mint, job, hosted, handled, swept, faults>>

(* A statement of ensureTenant fails. *)
StatementFails(s) ==
  /\ job[s] # Idle /\ faults < MaxFaults
  /\ faults' = faults + 1
  /\ Throw(s)
  /\ UNCHANGED <<ledger, seedRow, tenants, mint>>

-----------------------------------------------------------------------------
NodeStep(s) ==
  \/ StartNode(s) \/ ReadLedger(s) \/ ApplyFile(s) \/ CommitModule(s) \/ Migrated(s)
  \/ SeedSkill(s) \/ SweepTenants(s)
  \/ \E t \in Tenants : HandleTenant(s, t)
  \/ \E w \in Watchers : LookUpPrincipal(s, w)
  \/ CreatePrincipal(s) \/ LookUpCharter(s) \/ IngestPrompt(s) \/ CreateCharter(s)
  \/ HostTenant(s)

Next ==
  \/ \E s \in Nodes : NodeStep(s) \/ Crash(s) \/ StatementFails(s)
  \/ \E t \in Tenants : CreateTenant(t)

Spec == Init /\ [][Next]_vars

(* The supervisor restarts a process that ended and a process goes on.     *)
FairSpec == Spec /\ \A s \in Nodes : WF_vars(NodeStep(s))

-----------------------------------------------------------------------------
TypeOK ==
  /\ phase \in [Nodes -> {"down", "migrate", "seed", "sweep", "up"}]
  /\ ledger \in Seq(Files)
  /\ migrating \in [Nodes ->
       [plan: Plans, m: Nat, f: Nat, new: Seq(Files), apply: BOOLEAN] \cup {Idle}]
  /\ seedRow \in [1..Len(Seeds) ->
       {"none", "proposed", "asked", "linked", "approved", "active"}]
  /\ seeding \in [Nodes -> SeedJobs \cup {Idle}] /\ job \in [Nodes -> TenantJobs \cup {Idle}]
  /\ tenants \subseteq Tenants /\ handled \subseteq tenants
  /\ mint \in [Tenants -> [Watchers -> [principal: BOOLEAN, prompt: BOOLEAN, charter: BOOLEAN]]]
  /\ hosted \in [Nodes -> SUBSET (Tenants \X Watchers)]
  /\ swept \in [Nodes -> SUBSET Tenants] /\ faults \in Nat

(* Everything a plan puts before the f-th file of its m-th module is there. *)
Behind(p, m, f, there) ==
  \A n \in 1..Len(p) : \A k \in 1..Len(p[n]) :
    n < m \/ (n = m /\ k < f) => p[n][k] \in there

(* However many servers of whatever builds migrate at once and die on the  *)
(* way, a file is applied once and in one text only, and after all that    *)
(* some build puts before it; and a server that goes on has the whole      *)
(* schema that its own build was written for.                              *)
MigratedOnce ==
  /\ \A i, j \in 1..Len(ledger) : ledger[i].name = ledger[j].name => i = j
  /\ \A i \in 1..Len(ledger) :
       \E p \in Plans : \E m \in 1..Len(p) : \E f \in 1..Len(p[m]) :
         ledger[i] = p[m][f] /\ Behind(p, m, f, {ledger[j] : j \in 1..(i - 1)})
  /\ \A s \in Nodes : phase[s] \in {"seed", "sweep", "up"} =>
       /\ migrating[s] # Idle
       /\ Behind(migrating[s].plan, Len(migrating[s].plan) + 1, 1,
                 {ledger[j] : j \in 1..Len(ledger)})

(* A server that came up covers every tenant its sweep listed: a resident  *)
(* watcher with a charter for each, although tenants appear meanwhile and  *)
(* others mint the same fleet.                                             *)
UpServersCoverTenants ==
  \A s \in Nodes : phase[s] = "up" =>
    \A t \in swept[s], w \in Watchers : <<t, w>> \in hosted[s] /\ mint[t][w].charter

(* Half-made watchers and seeds, which no later boot completes, are left   *)
(* by faults only: an error that a race with another server causes leaves *)
(* the other one to finish.                                                *)
OnlyFaultsLeaveOrphans ==
  faults = 0 =>
    /\ \A t \in Tenants, w \in Watchers :
         mint[t][w].prompt /\ ~mint[t][w].charter
           => \E s \in Nodes : Steps(s, "mint") /\ job[s].t = t /\ job[s].w = w
    /\ \A g \in 1..Len(Seeds) :
         seedRow[g] \notin {"none", "active"}
           => \E s \in Nodes : /\ seeding[s] # Idle /\ seeding[s].todo # {}
                               /\ Seed(s) = g /\ seeding[s].step = seedRow[g]

(* sentinel/service.ts:25-26: ensureDefaults is safe to run on every boot, *)
(* so a server that keeps being started comes up for good.                 *)
BootsSucceed == \A s \in Nodes : <>[](phase[s] = "up")
=============================================================================
