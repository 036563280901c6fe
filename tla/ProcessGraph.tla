---------------------------- MODULE ProcessGraph ----------------------------
(***************************************************************************)
(* How a process run gets its graph (apps/server/src/processes): a saved   *)
(* template, or a list of nodes for a dynamic run, is instantiated into    *)
(* work items wired by depends_on edges, and approved graph changes skip   *)
(* nodes and hang new ones off the live graph.                             *)
(*                                                                         *)
(* The run, its watch rules and each of its items are transactions of      *)
(* their own, so that agents, reviewers, workers and a crash fall between  *)
(* them.  Of an item's status only done and cancelled matter here; module  *)
(* Processes has the others, and the cascades.                             *)
(***************************************************************************)
EXTENDS Naturals, Sequences, FiniteSets, SequencesExt

CONSTANTS
  Keys,       \* node keys
  Templates,  \* authored: nodes, edges <<dependent, upstream>>, watched, policy
  Dynamic,    \* the same of a run without a template
  Changes,    \* ids of the requests that hold a graph change
  Deltas,     \* the changes agents propose: add, edges, watched, skip
  MaxCrash,   \* bound on crashes
  Idle        \* no operation in progress

(* Nodes to open, in order, their edges, and the items these may lead to.  *)
Jobs ==
  [todo: Seq(Keys), edges: SUBSET (Keys \X Keys),
   ids: UNION {[known -> Nat] : known \in SUBSET Keys}]

(* A template's schema refuses an edge to a node it has not.               *)
GraphAssumption ==
  /\ IsFiniteSet(Keys)
  /\ \A t \in Templates \cup {Dynamic} :
       t.nodes \subseteq Keys /\ t.edges \subseteq t.nodes \X t.nodes
  /\ \A d \in Deltas : d.add \subseteq Keys /\ d.edges \subseteq Keys \X Keys
  /\ Idle \notin Templates \cup {Dynamic} \cup Changes \cup Jobs
  /\ MaxCrash \in Nat

VARIABLES
  saved,     \* processes.process_templates
  run,       \* the run's template, or Dynamic; Idle before it is inserted
  revision,  \* its graph_revision
  rules,     \* node keys of its watch rules
  items,     \* its work items: key, upstream items, status, who opened it
  caller,    \* instantiate in progress
  engine,    \* the settling of an approved change in progress
  change,    \* each proposed change: its delta and how far it has come
  inbox,     \* verdicts the engine's subscription has still to handle
  crashes    \* crashes so far

graph == <<run, revision, rules, items>>
vars  == <<saved, graph, caller, engine, change, inbox, crashes>>

Init ==
  /\ saved = {} /\ run = Idle /\ revision = 0 /\ rules = {} /\ items = <<>>
  /\ caller = Idle /\ engine = Idle
  /\ change = [c \in {} |-> Idle]
  /\ inbox = <<>> /\ crashes = 0

-----------------------------------------------------------------------------
(* The graph. *)

Upstreams(edges, k) == {e[2] : e \in {f \in edges : f[1] = k}}

(* The orders of keys with every upstream before its dependents (the code  *)
(* takes the first of them by key); none when the edges go round.          *)
TopoOrder(keys, edges) ==
  {s \in SetToSeqs(keys) :
     \A j, k \in DOMAIN s : s[k] \in Upstreams(edges, s[j]) => k < j}

(* The live items by key: a cancelled item has left the graph, and of two  *)
(* with one key the later counts.                                          *)
KeyGraph ==
  LET live(k) == {j \in DOMAIN items : items[j].key = k /\ items[j].status # "cancelled"}
  IN [k \in {x \in Keys : live(x) # {}} |->
        CHOOSE j \in live(k) : \A i \in live(k) : i <= j]

(* The job of opening nodes; there is none when their edges go round.      *)
Opening(keys, edges, ids) ==
  LET among == {e \in edges : e[2] \in keys}
  IN IF TopoOrder(keys, among) = {} THEN Idle
     ELSE [todo |-> CHOOSE s \in TopoOrder(keys, among) : TRUE,
           edges |-> edges, ids |-> ids]

(* An edge from nowhere throws. *)
Openable(job) ==
  job.todo # <<>> /\ Upstreams(job.edges, Head(job.todo)) \subseteq DOMAIN job.ids

(* The head of the list becomes an item, wired to its upstreams. *)
OpenItem(job, by) ==
  LET k == Head(job.todo)
  IN items' = Append(items,
       [key |-> k, status |-> "open", by |-> by,
        on |-> {job.ids[u] : u \in Upstreams(job.edges, k)}])

Opened(job) ==
  LET new == Head(job.todo)
  IN [todo  |-> Tail(job.todo),
      edges |-> job.edges,
      ids   |-> [k \in DOMAIN job.ids \cup {new} |->
                   IF k = new THEN Len(items) + 1 ELSE job.ids[k]]]

-----------------------------------------------------------------------------
(* Templates and runs. *)

(* The nodes with a selector of documents or entities get watch rules.     *)
BindWatchRules(nodes, watched) == nodes \cap watched

SaveTemplate(t) ==
  /\ t \notin saved
  /\ saved' = saved \cup {t}
  /\ UNCHANGED <<graph, caller, engine, change, inbox, crashes>>

(* The run and its watch rules; the items follow one by one, or not at all *)
(* if the template's edges go round.                                       *)
Instantiate(t) ==
  /\ run = Idle /\ t \in saved \cup {Dynamic}
  /\ run' = t
  /\ rules' = BindWatchRules(t.nodes, t.watched)
  /\ caller' = Opening(t.nodes, t.edges, [k \in {} |-> 0])
  /\ UNCHANGED <<saved, revision, items, engine, change, inbox, crashes>>

OpenNode ==
  /\ caller # Idle /\ Openable(caller)
  /\ OpenItem(caller, Idle)
  /\ caller' = Opened(caller)
  /\ UNCHANGED <<saved, run, revision, rules, engine, change, inbox, crashes>>

(* All are open, or one has an upstream that is not: instantiate throws.   *)
Instantiated ==
  /\ caller # Idle /\ ~Openable(caller)
  /\ caller' = Idle
  /\ UNCHANGED <<saved, graph, engine, change, inbox, crashes>>

(* A worker finishes a node whose upstreams are done; a cancelled upstream *)
(* never is.                                                               *)
FinishNode(j) ==
  /\ items[j].status = "open"
  /\ \A u \in items[j].on : items[u].status = "done"
  /\ items' = [items EXCEPT ![j].status = "done"]
  /\ UNCHANGED <<saved, run, revision, rules, caller, engine, change, inbox, crashes>>

-----------------------------------------------------------------------------
(* Graph changes. *)

(* What the template's policy and the live graph let an agent propose. *)
Allowed(d) ==
  /\ run.mode # "fixed"
  /\ d.add # {} => run.allowAdd
  /\ d.skip # {} => run.allowSkip
  /\ d.skip \cap run.protected = {}
  /\ d.skip \subseteq DOMAIN KeyGraph

(* The request for the change; its row follows. *)
ProposeGraphChange(c, d) ==
  /\ run # Idle /\ c \notin DOMAIN change /\ Allowed(d)
  /\ change' = [x \in DOMAIN change \cup {c} |->
                  IF x = c THEN [at |-> "requested", delta |-> d] ELSE change[x]]
  /\ UNCHANGED <<saved, graph, caller, engine, inbox, crashes>>

ParkChange(c) ==
  /\ c \in DOMAIN change /\ change[c].at = "requested"
  /\ change' = [change EXCEPT ![c].at = "parked"]
  /\ UNCHANGED <<saved, graph, caller, engine, inbox, crashes>>

Resolve(c, verdict) ==
  /\ c \in DOMAIN change /\ \A k \in DOMAIN inbox : inbox[k].change # c
  /\ change[c].at \in {"requested", "parked"}
  /\ inbox' = Append(inbox, [change |-> c, verdict |-> verdict])
  /\ UNCHANGED <<saved, graph, caller, engine, change, crashes>>

(* The engine's subscription: one verdict at a time. *)
Verdict == Head(inbox)
Held    == change[Verdict.change].at \in {"parked", "committed"}

(* Denied, or with no row (yet, or any more): the verdict is done with. *)
DropChange ==
  /\ engine = Idle /\ inbox # <<>>
  /\ Held => Verdict.verdict # "approved"
  /\ IF Held THEN change' = [change EXCEPT ![Verdict.change].at = "dropped"]
             ELSE UNCHANGED change
  /\ inbox' = Tail(inbox)
  /\ UNCHANGED <<saved, graph, caller, engine, crashes>>

(* Mutant: the live graph is not looked at again. *)
ValidAsProposed(d) == \A e \in d.edges : e[1] \in d.add

(* Against the live graph: the keys to add are free, and edges run from    *)
(* new nodes to known ones.                                                *)
Valid(d) ==
  /\ d.add \cap DOMAIN KeyGraph = {}
  /\ \A e \in d.edges : e[1] \in d.add /\ e[2] \in d.add \cup DOMAIN KeyGraph

(* An approved change begins; one that is not valid throws, and its        *)
(* verdict is delivered again for ever.                                    *)
BeginChange ==
  /\ engine = Idle /\ inbox # <<>> /\ Held /\ Verdict.verdict = "approved"
  /\ LET d == change[Verdict.change].delta
     IN /\ Valid(d)
        /\ engine' = [change |-> Verdict.change, skip |-> d.skip, base |-> revision,
                      known |-> KeyGraph, job |-> Idle, written |-> FALSE]
  /\ UNCHANGED <<saved, graph, caller, change, inbox, crashes>>

(* Skips first, one transaction each, of nodes as they were read. *)
SkipNode(k) ==
  /\ engine # Idle /\ k \in engine.skip
  /\ IF k \in DOMAIN engine.known /\ items[engine.known[k]].status = "open"
       THEN /\ items' = [items EXCEPT ![engine.known[k]].status = "cancelled"]
            /\ engine' = [engine EXCEPT !.skip = engine.skip \ {k}]
       ELSE engine' = Idle /\ UNCHANGED items
  /\ UNCHANGED <<saved, run, revision, rules, caller, change, inbox, crashes>>

(* Then the new nodes; edges that go round, and nodes without a live item  *)
(* to inherit an owner from, throw.                                        *)
PlanNodes ==
  /\ engine # Idle /\ engine.skip = {} /\ engine.job = Idle
  /\ LET d   == change[engine.change].delta
         job == Opening(d.add, d.edges, engine.known)
     IN engine' = IF job = Idle \/ (d.add # {} /\ DOMAIN engine.known = {})
                    THEN Idle ELSE [engine EXCEPT !.job = job]
  /\ UNCHANGED <<saved, graph, caller, change, inbox, crashes>>

AddNode ==
  /\ engine # Idle /\ engine.job # Idle /\ Openable(engine.job)
  /\ OpenItem(engine.job, engine.change)
  /\ engine' = [engine EXCEPT !.job = Opened(engine.job)]
  /\ UNCHANGED <<saved, run, revision, rules, caller, change, inbox, crashes>>

(* Last, the watch rules of the new nodes and the new revision. *)
CommitChange ==
  /\ engine # Idle /\ engine.job # Idle /\ engine.job.todo = <<>>
  /\ ~engine.written /\ engine' = [engine EXCEPT !.written = TRUE]
  /\ LET d == change[engine.change].delta
     IN rules' = rules \cup BindWatchRules(d.add, d.watched)
  /\ revision' = engine.base + 1
  /\ change' = [change EXCEPT ![engine.change].at = "committed"]
  /\ UNCHANGED <<saved, run, items, caller, inbox, crashes>>

(* The row is deleted; the verdict goes with the next cursor. *)
SettleChange ==
  /\ engine # Idle /\ engine.written
  /\ change' = [change EXCEPT ![engine.change].at = "settled"]
  /\ engine' = Idle
  /\ UNCHANGED <<saved, graph, caller, inbox, crashes>>

Crash ==
  /\ crashes < MaxCrash /\ (caller # Idle \/ engine # Idle)
  /\ crashes' = crashes + 1
  /\ caller' = Idle /\ engine' = Idle
  /\ UNCHANGED <<saved, graph, change, inbox>>

-----------------------------------------------------------------------------
Next ==
  \/ \E t \in Templates : SaveTemplate(t)
  \/ \E t \in Templates \cup {Dynamic} : Instantiate(t)
  \/ OpenNode
  \/ Instantiated
  \/ \E j \in DOMAIN items : FinishNode(j)
  \/ \E c \in Changes, d \in Deltas : ProposeGraphChange(c, d)
  \/ \E c \in Changes : ParkChange(c)
  \/ \E c \in Changes, v \in {"approved", "denied"} : Resolve(c, v)
  \/ DropChange
  \/ BeginChange
  \/ \E k \in Keys : SkipNode(k)
  \/ PlanNodes
  \/ AddNode
  \/ CommitChange
  \/ SettleChange
  \/ Crash

Spec == Init /\ [][Next]_vars

-----------------------------------------------------------------------------
(* Templates, the run's rows and the operations in progress have their types. *)
TypeOK ==
  /\ saved \subseteq Templates /\ run \in Templates \cup {Dynamic, Idle}
  /\ revision \in Nat /\ rules \subseteq Keys
  /\ \A j \in DOMAIN items :
       /\ items[j].key \in Keys /\ items[j].status \in {"open", "done", "cancelled"}
       /\ items[j].by \in Changes \cup {Idle} /\ items[j].on \subseteq 1..(j - 1)
  /\ DOMAIN change \subseteq Changes
  /\ \A c \in DOMAIN change :
       change[c].at \in {"requested", "parked", "committed", "settled", "dropped"}
  /\ engine # Idle => engine.change \in DOMAIN change

(* However often its approval is delivered, and wherever a crash cut its   *)
(* handling short, a graph change opens each of its nodes once and counts  *)
(* for one revision.                                                       *)
ChangesApplyOnce ==
  /\ revision = Cardinality({c \in DOMAIN change : change[c].at \in {"committed", "settled"}})
  /\ \A j, k \in DOMAIN items :
       j # k /\ items[j].by # Idle /\ items[j].by = items[k].by
         => items[j].key # items[k].key

(* A template without a cycle is opened in full, each node wired to items  *)
(* that exist: only a crash leaves a run with part of its graph.           *)
OnlyCrashesLeaveHalfGraphs ==
  run # Idle /\ caller = Idle /\ crashes = 0 /\ TopoOrder(run.nodes, run.edges) # {}
    => \A k \in run.nodes :
         \E j \in DOMAIN items :
           /\ items[j].key = k /\ items[j].by = Idle
           /\ {items[u].key : u \in items[j].on} = Upstreams(run.edges, k)

(* A graph change cancels no node that the template protects. *)
ProtectedNodesStay ==
  \A j \in DOMAIN items : items[j].status = "cancelled" => items[j].key \notin run.protected

(* Documentation: what does not hold.  A change that adds a node whose     *)
(* template item a slow instantiate has still to open gives the key two    *)
(* live items; the rules of a run half open name nodes with no item.       *)
OneLiveItemPerKey ==
  \A j, k \in DOMAIN items :
    items[j].key = items[k].key /\ "cancelled" \notin {items[j].status, items[k].status}
      => j = k
=============================================================================
