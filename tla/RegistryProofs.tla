---------------------------- MODULE RegistryProofs ----------------------------
(***************************************************************************)
(* Proofs about what several servers keep in shared tables: the schema and *)
(* the fleets at start-up, the skills, the context store and the graphs of *)
(* process runs.                                                           *)
(***************************************************************************)
EXTENDS Services, FoldFacts

-----------------------------------------------------------------------------
(* Start-up: x1 is phase, x2 ledger, x3 migrating, x4 seedRow, x5 seeding, *)
(* x6 tenants, x7 mint, x8 job, x9 hosted, x10 handled, x11 swept, x12     *)
(* faults.                                                                 *)

MigrationRow == [plan: Plans, m: Nat, f: Nat, new: Seq(Start!Files), apply: BOOLEAN]

MintRow == [principal: BOOLEAN, prompt: BOOLEAN, charter: BOOLEAN]

SeedStates == {"none", "proposed", "asked", "linked", "approved", "active"}

(* The files of the ledger, and the first of those that a migration has    *)
(* written in its open transaction.                                        *)
Written == {x2[i] : i \in 1..Len(x2)}

FirstNew(r, n) == {r.new[h] : h \in 1..n}

NewNames(s) == IF x3[s] = Idle THEN {} ELSE {x3[s].new[i].name : i \in 1..Len(x3[s].new)}

(* A file of a sequence comes after all that some build puts before it.    *)
Built(q, i) ==
  \E p \in Plans : \E m \in 1..Len(p) : \E f \in 1..Len(p[m]) :
    q[i] = p[m][f] /\ Start!Behind(p, m, f, {q[h] : h \in 1..(i - 1)})

LedgerSound(q) ==
  /\ \A i, j \in 1..Len(q) : q[i].name = q[j].name => i = j
  /\ \A i \in 1..Len(q) : Built(q, i)

(* A file of the open transaction stands in the module at hand, and what   *)
(* the plan puts before it is in the ledger w or in the transaction.       *)
NewSound(r, i, w) ==
  \E k \in 1..Len(r.plan[r.m]) :
    k < r.f /\ r.new[i] = r.plan[r.m][k] /\ Start!Behind(r.plan, r.m, k, w \cup FirstNew(r, i - 1))

(* A migration has behind it every file before the one it is at, in the    *)
(* ledger w or in its own transaction, whose files are not in the ledger.  *)
RowSound(r, w) ==
  /\ r.m \in 1..(Len(r.plan) + 1) /\ r.f \in Nat \ {0}
  /\ r.m = Len(r.plan) + 1 => r.new = <<>>
  /\ r.apply => r.m <= Len(r.plan) /\ r.f <= Len(r.plan[r.m])
  /\ \A i, j \in 1..Len(r.new) : r.new[i].name = r.new[j].name => i = j
  /\ \A i \in 1..Len(r.new) : \A x \in w : x.name # r.new[i].name
  /\ \A i \in 1..Len(r.new) : NewSound(r, i, w)
  /\ Start!Behind(r.plan, r.m, r.f, w \cup FirstNew(r, Len(r.new)))

MigrationSound(s) == x3[s] # Idle => x1[s] # "down" /\ RowSound(x3[s], Written)

Apart == \A s, q \in Actors : s # q => NewNames(s) \cap NewNames(q) = {}

Up == {"seed", "sweep", "up"}

SchemaWhole ==
  \A s \in Actors : x1[s] \in Up => x3[s] # Idle /\ x3[s].m = Len(x3[s].plan) + 1

SchemaInv == LedgerSound(x2) /\ Apart /\ SchemaWhole /\ \A s \in Actors : MigrationSound(s)

(* A seed that is half way belongs to one server.                          *)
SeedingSound(s) ==
  /\ x1[s] = "seed" <=> x5[s] # Idle
  /\ x5[s] # Idle /\ x5[s].step # "none" =>
       x5[s].todo # {} /\ x4[Start!Seed(s)] = x5[s].step

OneSeeder ==
  \A s, q \in Actors :
    /\ x5[s] # Idle /\ x5[s].step # "none" /\ x5[q] # Idle /\ x5[q].step # "none"
    /\ Start!Seed(s) = Start!Seed(q)
    => s = q

SeedsOwned ==
  x12 = 0 => \A g \in 1..Len(Seeds) :
    x4[g] \notin {"none", "active"} =>
      \E s \in Actors : /\ x5[s] # Idle /\ x5[s].todo # {}
                        /\ Start!Seed(s) = g /\ x5[s].step = x4[g]

SeedInv == OneSeeder /\ SeedsOwned /\ \A s \in Actors : SeedingSound(s)

(* A sweep has covered the tenants that are neither its current one nor    *)
(* still to come.                                                          *)
Covering(s, t) ==
  \A w \in Watchers : <<t, w>> \in x9[s] /\ x7[t][w].charter

JobSound(s) ==
  /\ x8[s] # Idle =>
       /\ x1[s] \in {"sweep", "up"} /\ (x8[s].kind = "boot" <=> x1[s] = "sweep")
       /\ x8[s].step # "pick" => x8[s].w \in Watchers
       /\ x8[s].t \in x6 /\ x8[s].rest \subseteq x6
  /\ x1[s] = "sweep" =>
       \A t \in x11[s] : t = x8[s].t \/ t \in x8[s].rest \/ Covering(s, t)
  /\ x1[s] = "up" => \A t \in x11[s] : Covering(s, t)

FleetsOwned ==
  x12 = 0 => \A t \in Tenants, w \in Watchers :
    x7[t][w].prompt /\ ~x7[t][w].charter =>
      \E s \in Actors : x8[s] # Idle /\ x8[s].step = "mint" /\ x8[s].t = t /\ x8[s].w = w

FleetInv == FleetsOwned /\ \A s \in Actors : JobSound(s)

StartInv == Start!TypeOK /\ SchemaInv /\ SeedInv /\ FleetInv

LEMMA StartTypes ==
  ASSUME Start!TypeOK
  PROVE  /\ x1 \in [Actors -> {"down", "migrate", "seed", "sweep", "up"}]
         /\ x2 \in Seq(Start!Files) /\ x3 \in [Actors -> MigrationRow \cup {Idle}]
         /\ x4 \in [1..Len(Seeds) -> SeedStates]
         /\ x5 \in [Actors -> Start!SeedJobs \cup {Idle}]
         /\ x6 \subseteq Tenants /\ x10 \subseteq x6
         /\ x7 \in [Tenants -> [Watchers -> MintRow]]
         /\ x8 \in [Actors -> Start!TenantJobs \cup {Idle}]
         /\ x9 \in [Actors -> SUBSET (Tenants \X Watchers)]
         /\ x11 \in [Actors -> SUBSET Tenants] /\ x12 \in Nat
BY DEF Start!TypeOK, MigrationRow, MintRow, SeedStates

LEMMA StartConstants ==
  /\ Idle \notin Start!SeedJobs /\ Idle \notin Start!TenantJobs /\ MaxFaults \in Nat
  /\ \A p \in Plans :
       /\ p \in Seq(Seq(Start!Files)) /\ Len(p) \in Nat
       /\ \A m \in 1..Len(p) :
            /\ p[m] \in Seq(Start!Files) /\ Len(p[m]) \in Nat
            /\ \A f \in 1..Len(p[m]) : p[m][f] \in Start!Files
<1>1. /\ Idle \notin Start!SeedJobs /\ Idle \notin Start!TenantJobs /\ MaxFaults \in Nat
      /\ Plans \subseteq Seq(Seq(Start!Files))
  BY ServicesAssumption DEF Start!BootAssumption
<1>2. ASSUME NEW p \in Plans
      PROVE  /\ p \in Seq(Seq(Start!Files)) /\ Len(p) \in Nat
             /\ \A m \in 1..Len(p) :
                  /\ p[m] \in Seq(Start!Files) /\ Len(p[m]) \in Nat
                  /\ \A f \in 1..Len(p[m]) : p[m][f] \in Start!Files
  BY <1>1
<1> QED BY <1>1, <1>2

(* A name stands for one file of a plan. *)
LEMMA PlanNames ==
  ASSUME NEW p \in Plans, NEW m \in 1..Len(p), NEW f \in 1..Len(p[m]), NEW k \in 1..Len(p[m]),
         p[m][f].name = p[m][k].name
  PROVE  f = k
BY ServicesAssumption DEF Start!BootAssumption

(* More files leave no less behind. *)
LEMMA BehindGrows ==
  ASSUME NEW p, NEW m, NEW f, NEW v, NEW w, Start!Behind(p, m, f, v), v \subseteq w
  PROVE  Start!Behind(p, m, f, w)
BY DEF Start!Behind

(* What others commit does not disturb a migration that holds other names. *)
LEMMA RowStays ==
  ASSUME NEW r, NEW v, NEW w, RowSound(r, v), v \subseteq w,
         \A x \in w \ v : \A i \in 1..Len(r.new) : x.name # r.new[i].name
  PROVE  RowSound(r, w)
<1>1. \A i \in 1..Len(r.new) : NewSound(r, i, w)
  <2> TAKE i \in 1..Len(r.new)
  <2>1. PICK k \in 1..Len(r.plan[r.m]) :
          k < r.f /\ r.new[i] = r.plan[r.m][k]
          /\ Start!Behind(r.plan, r.m, k, v \cup FirstNew(r, i - 1))
    BY DEF RowSound, NewSound
  <2>2. Start!Behind(r.plan, r.m, k, w \cup FirstNew(r, i - 1))
    <3>1. v \cup FirstNew(r, i - 1) \subseteq w \cup FirstNew(r, i - 1)
      OBVIOUS
    <3> QED BY <2>1, <3>1, BehindGrows
  <2> QED BY <2>1, <2>2 DEF NewSound
<1>2. Start!Behind(r.plan, r.m, r.f, w \cup FirstNew(r, Len(r.new)))
  <2>1. v \cup FirstNew(r, Len(r.new)) \subseteq w \cup FirstNew(r, Len(r.new))
    OBVIOUS
  <2>2. Start!Behind(r.plan, r.m, r.f, v \cup FirstNew(r, Len(r.new)))
    BY DEF RowSound
  <2> QED BY <2>1, <2>2, BehindGrows
<1>3. \A i \in 1..Len(r.new) : \A x \in w : x.name # r.new[i].name
  BY DEF RowSound
<1> HIDE DEF NewSound
<1> QED BY <1>1, <1>2, <1>3 DEF RowSound

(* The smallest seed to come is one of them.                               *)
LEMMA SeedIsToCome ==
  ASSUME Start!TypeOK, NEW s \in Actors, x5[s] # Idle, x5[s].todo # {}
  PROVE  Start!Seed(s) \in x5[s].todo /\ Start!Seed(s) \in 1..Len(Seeds)
<1> DEFINE T == x5[s].todo
<1>1. T \subseteq 1..Len(Seeds) /\ T \subseteq Nat /\ T # {}
  BY StartTypes DEF Start!SeedJobs
<1> HIDE DEF T
<1>2. PICK x \in T : \A y \in T : x <= y
  BY <1>1, LeastNat
<1>3. Start!Min(T) \in T
  BY <1>2 DEF Start!Min
<1> QED BY <1>1, <1>3 DEF Start!Seed, T

LEMMA StartBegins == Start!Init => StartInv
<1> SUFFICES ASSUME Start!Init PROVE StartInv
  OBVIOUS
<1>1. Start!TypeOK
  BY DEF Start!Init, Start!TypeOK, Start!NoRows
<1>2. x2 = <<>> /\ Len(x2) = 0 /\ (\A i \in 1..Len(x2) : FALSE) /\ Written = {}
  BY DEF Start!Init, Written
<1>3. SchemaInv
  BY <1>2 DEF Start!Init, SchemaInv, LedgerSound, Apart, NewNames, SchemaWhole, Up, MigrationSound
<1>4. SeedInv
  BY DEF Start!Init, SeedInv, OneSeeder, SeedsOwned, SeedingSound
<1>5. FleetInv
  BY DEF Start!Init, FleetInv, FleetsOwned, JobSound, Start!NoRows
<1> QED BY <1>1, <1>3, <1>4, <1>5 DEF StartInv

-----------------------------------------------------------------------------
(* The schema. *)

(* Servers go down, or on without touching their migration.                *)
LEMMA SchemaStays ==
  ASSUME SchemaInv, x2' = x2,
         \A s \in Actors :
           \/ x3'[s] = Idle /\ x1'[s] \notin Up
           \/ /\ x3'[s] = x3[s] /\ (x1[s] # "down" => x1'[s] # "down")
              /\ x1'[s] \in Up => x1[s] \in Up
  PROVE  SchemaInv'
<1>1. Written' = Written
  BY DEF Written
<1>2. \A s \in Actors : NewNames(s)' = {} \/ NewNames(s)' = NewNames(s)
  BY DEF NewNames
<1>3. LedgerSound(x2)' /\ SchemaWhole'
  BY DEF SchemaInv, SchemaWhole
<1>4. Apart'
  BY <1>2 DEF SchemaInv, Apart
<1>5. \A s \in Actors : MigrationSound(s)'
  <2> TAKE s \in Actors
  <2>1. CASE x3'[s] = Idle
    BY <2>1 DEF MigrationSound
  <2>2. CASE x3'[s] = x3[s] /\ (x1[s] # "down" => x1'[s] # "down")
    BY <1>1, <2>2 DEF SchemaInv, MigrationSound
  <2> QED BY <2>1, <2>2
<1> QED BY <1>3, <1>4, <1>5 DEF SchemaInv

(* A step of one migration that leaves the ledger alone.                   *)
LEMMA MigrationMoves ==
  ASSUME SchemaInv, x3 \in [Actors -> MigrationRow \cup {Idle}],
         NEW s \in Actors, NEW new, x3' = [x3 EXCEPT ![s] = new], x2' = x2,
         \A q \in Actors \ {s} : x1'[q] = x1[q],
         x1'[s] \notin Up \cup {"down"}, RowSound(new, Written),
         \A q \in Actors \ {s} : NewNames(s)' \cap NewNames(q) = {}
  PROVE  SchemaInv'
<1>1. Written' = Written
  BY DEF Written
<1>2. x3'[s] = new /\ \A q \in Actors \ {s} : x3'[q] = x3[q]
  OBVIOUS
<1>3. \A q \in Actors \ {s} : NewNames(q)' = NewNames(q)
  BY <1>2 DEF NewNames
<1>4. LedgerSound(x2)'
  BY DEF SchemaInv
<1>5. SchemaWhole'
  BY <1>2 DEF SchemaInv, SchemaWhole
<1>6. Apart'
  BY <1>3 DEF SchemaInv, Apart
<1>7. \A q \in Actors : MigrationSound(q)'
  BY <1>1, <1>2 DEF SchemaInv, MigrationSound
<1> QED BY <1>4, <1>5, <1>6, <1>7 DEF SchemaInv

(* A migration that has written the file f.                                *)
Grown(r, f) == [r EXCEPT !.f = r.f + 1, !.apply = FALSE, !.new = Append(r.new, f)]

(* It is as sound as before, when no file of that name was committed.      *)
LEMMA RowApplied ==
  ASSUME NEW r, r \in MigrationRow, NEW w, RowSound(r, w), r.apply,
         NEW f, f = r.plan[r.m][r.f], \A x \in w : x.name # f.name,
         NEW e, e = Grown(r, f)
  PROVE  e \in MigrationRow /\ RowSound(e, w) /\ e.new = Append(r.new, f)
<1> DEFINE p == r.plan m == r.m k == r.f
<1>1. /\ p \in Plans /\ m \in 1..Len(p) /\ k \in 1..Len(p[m]) /\ Len(p) \in Nat /\ k \in Nat
      /\ Len(p[m]) \in Nat /\ f \in Start!Files
  <2>1. p \in Plans
    BY DEF MigrationRow
  <2>2. m \in 1..Len(p) /\ Len(p) \in Nat /\ k \in Nat \ {0} /\ k <= Len(p[m])
    BY <2>1, StartConstants DEF RowSound
  <2> QED BY <2>1, <2>2, StartConstants
<1>2. PICK q \in Seq(Start!Files) : q = r.new
  BY DEF MigrationRow
<1> DEFINE a == Append(q, f)
<1>3. /\ a \in Seq(Start!Files) /\ Len(a) = Len(q) + 1 /\ Len(q) \in Nat /\ a[Len(q) + 1] = f
      /\ \A i \in 1..Len(q) : a[i] = q[i]
  BY <1>1, <1>2
<1> HIDE DEF a
<1>4. e \in MigrationRow /\ e.plan = p /\ e.m = m /\ e.f = k + 1 /\ e.new = a /\ e.apply = FALSE
  <2>1. k + 1 \in Nat
    BY <1>1
  <2>2. e = [r EXCEPT !.f = k + 1, !.apply = FALSE, !.new = a]
    BY <1>2 DEF a, Grown
  <2> HIDE DEF k
  <2> QED BY <1>3, <2>1, <2>2 DEF MigrationRow
<1>5. \A i \in 1..Len(a) : i \in 1..Len(q) \/ i = Len(q) + 1
  BY <1>3
<1>6. \A n \in 0..Len(q) : FirstNew(e, n) = FirstNew(r, n)
  <2> TAKE n \in 0..Len(q)
  <2>1. \A h \in 1..n : a[h] = q[h]
    BY <1>3
  <2> QED BY <1>2, <1>4, <2>1 DEF FirstNew
<1>7. FirstNew(e, Len(a)) = FirstNew(r, Len(q)) \cup {f}
  <2>1. \A h \in 1..Len(a) : h \in 1..Len(q) \/ h = Len(q) + 1
    BY <1>5
  <2>2. 1..Len(q) \subseteq 1..Len(a) /\ Len(q) + 1 \in 1..Len(a)
    BY <1>3
  <2> QED BY <1>2, <1>3, <1>4, <2>1, <2>2 DEF FirstNew
<1>8. /\ Start!Behind(p, m, k, w \cup FirstNew(r, Len(q)))
      /\ \A i \in 1..Len(q) : NewSound(r, i, w)
      /\ \A i \in 1..Len(q) : \A x \in w : x.name # q[i].name
      /\ \A i, j \in 1..Len(q) : q[i].name = q[j].name => i = j
  BY <1>2 DEF RowSound
<1>9. \A i \in 1..Len(q) : q[i].name # f.name
  <2> TAKE i \in 1..Len(q)
  <2>1. PICK l \in 1..Len(p[m]) : l < k /\ q[i] = p[m][l]
    BY <1>2, <1>8 DEF NewSound
  <2>2. p[m][l].name = p[m][k].name => l = k
    BY <1>1, PlanNames
  <2> QED BY <1>1, <2>1, <2>2
<1>10. \A i, j \in 1..Len(a) : a[i].name = a[j].name => i = j
  BY <1>3, <1>5, <1>8, <1>9
<1>11. \A i \in 1..Len(a) : \A x \in w : x.name # a[i].name
  BY <1>3, <1>5, <1>8
<1>12. \A i \in 1..Len(a) : NewSound(e, i, w)
  <2> TAKE i \in 1..Len(a)
  <2>1. CASE i \in 1..Len(q)
    <3>1. PICK l \in 1..Len(p[m]) :
            l < k /\ q[i] = p[m][l] /\ Start!Behind(p, m, l, w \cup FirstNew(r, i - 1))
      BY <1>2, <1>8, <2>1 DEF NewSound
    <3>2. FirstNew(e, i - 1) = FirstNew(r, i - 1)
      BY <1>3, <1>6, <2>1
    <3>3. l < k + 1 /\ a[i] = q[i]
      BY <1>1, <1>3, <2>1, <3>1
    <3> HIDE DEF p, m, k
    <3> QED BY <1>4, <3>1, <3>2, <3>3 DEF NewSound
  <2>2. CASE i = Len(q) + 1
    <3>1. i - 1 = Len(q) /\ FirstNew(e, i - 1) = FirstNew(r, Len(q)) /\ a[i] = f
      BY <1>3, <1>6, <2>2
    <3>2. k < k + 1 /\ f = p[m][k]
      BY <1>1
    <3>3. Start!Behind(p, m, k, w \cup FirstNew(e, i - 1))
      BY <1>8, <3>1
    <3> HIDE DEF p, m, k
    <3> QED BY <1>1, <1>4, <3>1, <3>2, <3>3 DEF NewSound
  <2> QED BY <1>5, <2>1, <2>2
<1>13. Start!Behind(p, m, k + 1, w \cup FirstNew(e, Len(a)))
  <2> SUFFICES ASSUME NEW n \in 1..Len(p), NEW l \in 1..Len(p[n]), n < m \/ (n = m /\ l < k + 1)
               PROVE  p[n][l] \in w \cup FirstNew(e, Len(a))
    BY DEF Start!Behind
  <2>1. (n < m \/ (n = m /\ l < k)) \/ (n = m /\ l = k)
    <3>1. Len(p[n]) \in Nat
      BY <1>1, StartConstants
    <3> QED BY <1>1, <3>1
  <2>2. CASE n < m \/ (n = m /\ l < k)
    <3>1. p[n][l] \in w \cup FirstNew(r, Len(q))
      BY <1>8, <2>2 DEF Start!Behind
    <3> QED BY <1>7, <3>1
  <2>3. CASE n = m /\ l = k
    BY <1>7, <2>3
  <2> QED BY <2>1, <2>2, <2>3
<1>14. m \in 1..(Len(p) + 1) /\ k + 1 \in Nat \ {0} /\ m # Len(p) + 1
  BY <1>1
<1>15. RowSound(e, w)
  <2> HIDE DEF p, m, k, NewSound
  <2>1. e.m \in 1..(Len(e.plan) + 1) /\ e.f \in Nat \ {0} /\ e.m # Len(e.plan) + 1
    BY <1>4, <1>14
  <2>n. \A i, j \in 1..Len(e.new) : e.new[i].name = e.new[j].name => i = j
    BY <1>4, <1>10, Zenon
  <2>a. ~e.apply
    BY <1>4
  <2>2. \A i \in 1..Len(e.new) : \A x \in w : x.name # e.new[i].name
    BY <1>4, <1>11
  <2>3. \A i \in 1..Len(e.new) : NewSound(e, i, w)
    BY <1>4, <1>12
  <2>4. Start!Behind(e.plan, e.m, e.f, w \cup FirstNew(e, Len(e.new)))
    BY <1>4, <1>13
  <2> QED BY <2>1, <2>2, <2>3, <2>4, <2>n, <2>a DEF RowSound
<1> QED BY <1>2, <1>4, <1>15 DEF a

(* A commit adds files that nobody else holds, behind all the others.      *)
LEMMA CommitSchema ==
  ASSUME Start!TypeOK, SchemaInv, NEW s \in Actors, Start!CommitModule(s)
  PROVE  SchemaInv' /\ x3' \in [Actors -> MigrationRow \cup {Idle}] /\ x2' \in Seq(Start!Files)
<1> DEFINE r == x3[s] p == r.plan m == r.m
           next == [plan |-> p, m |-> m + 1, f |-> 1, new |-> <<>>, apply |-> FALSE]
<1>1. /\ r # Idle /\ m <= Len(p) /\ r.f > Len(p[m]) /\ x2' = x2 \o r.new
      /\ x3' = [x3 EXCEPT ![s] = next] /\ x1' = x1
  BY DEF Start!CommitModule
<1>2. /\ r \in MigrationRow /\ x3 \in [Actors -> MigrationRow \cup {Idle}]
      /\ x2 \in Seq(Start!Files) /\ x1[s] # "down" /\ RowSound(r, Written)
  BY <1>1, StartTypes DEF SchemaInv, MigrationSound
<1>3. /\ p \in Plans /\ m \in 1..Len(p) /\ Len(p) \in Nat /\ r.f \in Nat /\ Len(p[m]) \in Nat
  <2>1. p \in Plans
    BY <1>2 DEF MigrationRow
  <2> QED BY <1>1, <1>2, <2>1, StartConstants DEF RowSound
<1>4. PICK q \in Seq(Start!Files) : q = r.new
  BY <1>2 DEF MigrationRow
<1>5. /\ x2' \in Seq(Start!Files) /\ Len(x2') = Len(x2) + Len(q) /\ Len(x2) \in Nat /\ Len(q) \in Nat
      /\ \A i \in 1..Len(x2) : x2'[i] = x2[i]
      /\ \A j \in 1..Len(q) : x2'[Len(x2) + j] = q[j]
  BY <1>1, <1>2, <1>4
<1>6. \A i \in 1..Len(x2') : i \in 1..Len(x2) \/ \E j \in 1..Len(q) : i = Len(x2) + j
  <2> TAKE i \in 1..Len(x2')
  <2>1. i \notin 1..Len(x2) => i - Len(x2) \in 1..Len(q) /\ i = Len(x2) + (i - Len(x2))
    BY <1>5
  <2> QED BY <2>1
<1>7. \A n \in 0..Len(q) :
        {x2'[h] : h \in 1..(Len(x2) + n)} = Written \cup FirstNew(r, n)
  <2> TAKE n \in 0..Len(q)
  <2>1. \A h \in 1..(Len(x2) + n) : h \in 1..Len(x2) \/ \E j \in 1..n : h = Len(x2) + j
    <3> TAKE h \in 1..(Len(x2) + n)
    <3>1. h \notin 1..Len(x2) => h - Len(x2) \in 1..n /\ h = Len(x2) + (h - Len(x2))
      BY <1>5
    <3> QED BY <3>1
  <2>2. \A h \in 1..(Len(x2) + n) : x2'[h] \in Written \cup FirstNew(r, n)
    <3> TAKE h \in 1..(Len(x2) + n)
    <3>1. CASE h \in 1..Len(x2)
      BY <1>5, <3>1 DEF Written
    <3>2. CASE h \notin 1..Len(x2)
      <4>1. PICK j \in 1..n : h = Len(x2) + j
        BY <2>1, <3>2
      <4>2. j \in 1..Len(q)
        BY <1>5, <4>1
      <4>3. x2'[h] = r.new[j]
        BY <1>4, <1>5, <4>1, <4>2
      <4> QED BY <4>1, <4>3 DEF FirstNew
    <3> QED BY <3>1, <3>2
  <2>3. \A i \in 1..Len(x2) : i \in 1..(Len(x2) + n) /\ x2'[i] = x2[i]
    BY <1>5
  <2>4. \A j \in 1..n : Len(x2) + j \in 1..(Len(x2) + n) /\ x2'[Len(x2) + j] = r.new[j]
    BY <1>4, <1>5
  <2>5. \A x \in Written \cup FirstNew(r, n) : \E h \in 1..(Len(x2) + n) : x = x2'[h]
    BY <2>3, <2>4 DEF Written, FirstNew
  <2> QED BY <2>2, <2>5
<1>8. Written' = Written \cup FirstNew(r, Len(q))
  BY <1>5, <1>7 DEF Written
<1>9. /\ Start!Behind(p, m, r.f, Written \cup FirstNew(r, Len(q)))
      /\ \A i \in 1..Len(q) : NewSound(r, i, Written)
      /\ \A i \in 1..Len(q) : \A x \in Written : x.name # q[i].name
      /\ \A i, j \in 1..Len(q) : q[i].name = q[j].name => i = j
  BY <1>2, <1>4 DEF RowSound
<1>10. /\ next \in MigrationRow /\ next.plan = p /\ next.m = m + 1 /\ next.f = 1
       /\ next.new = <<>> /\ ~next.apply
  <2>1. <<>> \in Seq(Start!Files) /\ m + 1 \in Nat
    BY <1>3
  <2> QED BY <1>3, <2>1 DEF MigrationRow
<1> HIDE DEF next
<1>11. x3'[s] = next /\ x3' \in [Actors -> MigrationRow \cup {Idle}]
       /\ \A a \in Actors \ {s} : x3'[a] = x3[a]
  BY <1>1, <1>2, <1>10
<1>12. \A i, j \in 1..Len(x2') : x2'[i].name = x2'[j].name => i = j
  <2> SUFFICES ASSUME NEW i \in 1..Len(x2'), NEW j \in 1..Len(x2'), x2'[i].name = x2'[j].name
               PROVE  i = j
    OBVIOUS
  <2>1. CASE i \in 1..Len(x2) /\ j \in 1..Len(x2)
    BY <1>5, <2>1 DEF SchemaInv, LedgerSound
  <2>2. CASE i \in 1..Len(x2) /\ j \notin 1..Len(x2)
    <3>1. PICK b \in 1..Len(q) : j = Len(x2) + b
      BY <1>6, <2>2
    <3>2. x2[i] \in Written /\ x2'[i] = x2[i] /\ x2'[j] = q[b]
      BY <1>5, <2>2, <3>1 DEF Written
    <3> QED BY <1>9, <3>2
  <2>3. CASE i \notin 1..Len(x2) /\ j \in 1..Len(x2)
    <3>1. PICK b \in 1..Len(q) : i = Len(x2) + b
      BY <1>6, <2>3
    <3>2. x2[j] \in Written /\ x2'[j] = x2[j] /\ x2'[i] = q[b]
      BY <1>5, <2>3, <3>1 DEF Written
    <3> QED BY <1>9, <3>2
  <2>4. CASE i \notin 1..Len(x2) /\ j \notin 1..Len(x2)
    <3>1. PICK a \in 1..Len(q), b \in 1..Len(q) : i = Len(x2) + a /\ j = Len(x2) + b
      BY <1>6, <2>4
    <3>2. x2'[i] = q[a] /\ x2'[j] = q[b]
      BY <1>5, <3>1
    <3>3. a = b
      BY <1>9, <3>2
    <3> QED BY <3>1, <3>3
  <2> QED BY <2>1, <2>2, <2>3, <2>4
<1>13. \A i \in 1..Len(x2') : Built(x2', i)
  <2> TAKE i \in 1..Len(x2')
  <2>1. CASE i \in 1..Len(x2)
    <3>1. Built(x2, i)
      BY <2>1 DEF SchemaInv, LedgerSound
    <3>2. x2'[i] = x2[i] /\ \A h \in 1..(i - 1) : x2'[h] = x2[h]
      BY <1>5, <2>1
    <3>3. {x2'[h] : h \in 1..(i - 1)} = {x2[h] : h \in 1..(i - 1)}
      BY <3>2
    <3> QED BY <3>1, <3>2, <3>3 DEF Built
  <2>2. CASE i \notin 1..Len(x2)
    <3>1. PICK j \in 1..Len(q) : i = Len(x2) + j
      BY <1>6, <2>2
    <3>2. PICK k \in 1..Len(p[m]) :
            q[j] = p[m][k] /\ Start!Behind(p, m, k, Written \cup FirstNew(r, j - 1))
      BY <1>4, <1>9 DEF NewSound
    <3>3. j - 1 \in 0..Len(q) /\ i - 1 = Len(x2) + (j - 1)
      BY <1>5, <3>1
    <3>4. {x2'[h] : h \in 1..(i - 1)} = Written \cup FirstNew(r, j - 1)
      BY <1>7, <3>3
    <3>5. x2'[i] = p[m][k]
      BY <1>5, <3>1, <3>2
    <3> HIDE DEF p, m
    <3> QED BY <1>3, <3>2, <3>4, <3>5 DEF Built
  <2> QED BY <2>1, <2>2
<1>14. LedgerSound(x2')
  BY <1>12, <1>13 DEF LedgerSound
<1>15. /\ NewNames(s)' = {} /\ \A a \in Actors \ {s} : NewNames(a)' = NewNames(a)
       /\ NewNames(s) = {q[i].name : i \in 1..Len(q)}
  <2>1. \A i \in 1..Len(<<>>) : FALSE
    OBVIOUS
  <2>2. \A x : x \notin NewNames(s)'
    BY <1>10, <1>11, <2>1 DEF NewNames
  <2>3. \A a \in Actors \ {s} : NewNames(a)' = NewNames(a)
    BY <1>11 DEF NewNames
  <2> QED BY <1>1, <1>4, <2>2, <2>3 DEF NewNames
<1>16. Apart'
  BY <1>15 DEF SchemaInv, Apart
<1>17. x1[s] \notin Up
  <2>1. x1[s] \in Up => m = Len(p) + 1
    BY DEF SchemaInv, SchemaWhole
  <2> QED BY <1>3, <2>1
<1>18. SchemaWhole'
  BY <1>1, <1>11, <1>17 DEF SchemaInv, SchemaWhole
<1>19. RowSound(next, Written')
  <2>1. Start!Behind(p, m + 1, 1, Written' \cup FirstNew(next, Len(next.new)))
    <3> SUFFICES ASSUME NEW n \in 1..Len(p), NEW k \in 1..Len(p[n]),
                        n < m + 1 \/ (n = m + 1 /\ k < 1)
                 PROVE  p[n][k] \in Written'
      BY DEF Start!Behind
    <3>1. Len(p[n]) \in Nat
      BY <1>3, StartConstants
    <3>2. n < m \/ (n = m /\ k < r.f)
      BY <1>1, <1>3, <3>1
    <3> QED BY <1>8, <1>9, <3>2 DEF Start!Behind
  <2>2. m + 1 \in 1..(Len(p) + 1) /\ 1 \in Nat \ {0}
    BY <1>3
  <2>3. \A i \in 1..Len(next.new) : FALSE
    BY <1>10
  <2> HIDE DEF p, m
  <2> QED BY <1>10, <2>1, <2>2, <2>3 DEF RowSound
<1>20. \A a \in Actors \ {s} : MigrationSound(a)'
  <2> TAKE a \in Actors \ {s}
  <2> SUFFICES ASSUME x3[a] # Idle PROVE x1[a] # "down" /\ RowSound(x3[a], Written')
    BY <1>1, <1>11 DEF MigrationSound
  <2>1. x1[a] # "down" /\ RowSound(x3[a], Written)
    BY DEF SchemaInv, MigrationSound
  <2>2. \A x \in Written' \ Written : \A i \in 1..Len(x3[a].new) : x.name # x3[a].new[i].name
    <3> TAKE x \in Written' \ Written
    <3> TAKE i \in 1..Len(x3[a].new)
    <3>1. x3[a].new[i].name \in NewNames(a)
      BY DEF NewNames
    <3>2. x.name \in NewNames(s)
      BY <1>4, <1>8, <1>15 DEF FirstNew
    <3>3. NewNames(a) \cap NewNames(s) = {}
      BY DEF SchemaInv, Apart
    <3> QED BY <3>1, <3>2, <3>3
  <2>3. Written \subseteq Written'
    BY <1>8
  <2> QED BY <2>1, <2>2, <2>3, RowStays
<1>21. MigrationSound(s)'
  BY <1>1, <1>2, <1>11, <1>19 DEF MigrationSound
<1> QED BY <1>5, <1>11, <1>14, <1>16, <1>18, <1>20, <1>21 DEF SchemaInv

-----------------------------------------------------------------------------
(* Seeds and fleets. *)

(* Servers that have no claim on a seed leave the seeding.                 *)
LEMMA SeedStays ==
  ASSUME SeedInv, x4' = x4, x12' = 0 => x12 = 0,
         \A s \in Actors :
           \/ x5'[s] = x5[s] /\ (x1'[s] = "seed" <=> x1[s] = "seed")
           \/ /\ x5'[s] = Idle /\ x1'[s] # "seed"
              /\ x12' = 0 => x5[s] = Idle \/ x5[s].todo = {}
  PROVE  SeedInv'
<1>1. \A s \in Actors : SeedingSound(s)'
  BY DEF SeedInv, SeedingSound, Start!Seed
<1>2. OneSeeder'
  BY DEF SeedInv, OneSeeder, Start!Seed
<1>3. SeedsOwned'
  <2> SUFFICES ASSUME x12' = 0, NEW g \in 1..Len(Seeds), x4[g] \notin {"none", "active"}
               PROVE  \E s \in Actors : /\ x5'[s] # Idle /\ x5'[s].todo # {}
                                        /\ Start!Min(x5'[s].todo) = g /\ x5'[s].step = x4[g]
    BY DEF SeedsOwned, Start!Seed
  <2>1. PICK s \in Actors : /\ x5[s] # Idle /\ x5[s].todo # {}
                           /\ Start!Min(x5[s].todo) = g /\ x5[s].step = x4[g]
    BY DEF SeedInv, SeedsOwned, Start!Seed
  <2>2. x5'[s] = x5[s]
    BY <2>1
  <2> QED BY <2>1, <2>2
<1> QED BY <1>1, <1>2, <1>3 DEF SeedInv

(* The server s is about to create the charter of a watcher.               *)
Minting(s, t, w) ==
  x8[s] # Idle /\ x8[s].step = "mint" /\ x8[s].t = t /\ x8[s].w = w

(* One server's fleet work; half a watcher is left to whoever mints it.    *)
LEMMA FleetMoves ==
  ASSUME FleetInv, NEW s \in Actors,
         \A q \in Actors \ {s} :
           x8'[q] = x8[q] /\ x1'[q] = x1[q] /\ x9'[q] = x9[q] /\ x11'[q] = x11[q],
         x11 \in [Actors -> SUBSET Tenants], x6 \subseteq x6',
         \A t \in Tenants, w \in Watchers : x7[t][w].charter => x7'[t][w].charter,
         JobSound(s)', x12' = 0 => x12 = 0,
         x12' = 0 => \A t \in Tenants, w \in Watchers :
           x7'[t][w].prompt /\ ~x7'[t][w].charter =>
             \/ Minting(s, t, w)'
             \/ x7[t][w].prompt /\ ~x7[t][w].charter /\ ~Minting(s, t, w)
  PROVE  FleetInv'
<1>1. \A q \in Actors \ {s} : JobSound(q)'
  <2> TAKE q \in Actors \ {s}
  <2>1. JobSound(q)
    BY DEF FleetInv
  <2>2. x11[q] \subseteq Tenants
    OBVIOUS
  <2>3. \A t \in x11[q] : Covering(q, t) => Covering(q, t)'
    BY <2>2 DEF Covering
  <2> QED BY <2>1, <2>3 DEF JobSound
<1>2. FleetsOwned'
  <2> SUFFICES ASSUME x12' = 0, NEW t \in Tenants, NEW w \in Watchers,
                      x7'[t][w].prompt, ~x7'[t][w].charter
               PROVE  \E q \in Actors : Minting(q, t, w)'
    BY DEF FleetsOwned, Minting
  <2>1. CASE Minting(s, t, w)'
    BY <2>1
  <2>2. CASE x7[t][w].prompt /\ ~x7[t][w].charter /\ ~Minting(s, t, w)
    <3>1. PICK q \in Actors : Minting(q, t, w)
      BY <2>2 DEF FleetInv, FleetsOwned, Minting
    <3>2. x8'[q] = x8[q]
      BY <2>2, <3>1
    <3> QED BY <3>1, <3>2 DEF Minting
  <2> QED BY <2>1, <2>2
<1> QED BY <1>1, <1>2 DEF FleetInv

(* A server goes down that, unless of a fault, has nothing half made.      *)
LEMMA DownStep ==
  ASSUME StartInv, NEW s \in Actors, Start!Down(s), UNCHANGED <<x2, x4, x6, x7, x10>>,
         x12' \in Nat,
         x12' = 0 => /\ x12 = 0 /\ x5[s] = Idle
                     /\ \A t \in Tenants, w \in Watchers : Minting(s, t, w) => x7[t][w].charter
  PROVE  StartInv'
<1>0. Start!TypeOK
  BY DEF StartInv
<1>1. /\ x1' = [x1 EXCEPT ![s] = "down"] /\ x3' = [x3 EXCEPT ![s] = Idle]
      /\ x5' = [x5 EXCEPT ![s] = Idle] /\ x8' = [x8 EXCEPT ![s] = Idle]
      /\ x9' = [x9 EXCEPT ![s] = {}] /\ x11' = [x11 EXCEPT ![s] = {}]
  BY DEF Start!Down
<1>2. Start!TypeOK'
  BY <1>0, <1>1, StartTypes DEF Start!TypeOK
<1>3. /\ x1'[s] = "down" /\ x3'[s] = Idle /\ x5'[s] = Idle /\ x8'[s] = Idle
      /\ \A q \in Actors \ {s} : /\ x1'[q] = x1[q] /\ x3'[q] = x3[q] /\ x5'[q] = x5[q]
                                  /\ x8'[q] = x8[q] /\ x9'[q] = x9[q] /\ x11'[q] = x11[q]
  BY <1>0, <1>1, StartTypes
<1>4. SchemaInv'
  BY <1>3, SchemaStays DEF StartInv, Up
<1>5. SeedInv'
  BY <1>3, SeedStays DEF StartInv
<1>6. JobSound(s)'
  BY <1>3 DEF JobSound
<1>7. FleetInv'
  BY <1>0, <1>3, <1>6, FleetMoves, StartTypes DEF StartInv
<1> QED BY <1>2, <1>4, <1>5, <1>7 DEF StartInv

LEMMA ThrowStep ==
  ASSUME StartInv, NEW s \in Actors, x8[s] # Idle, Start!Throw(s), UNCHANGED <<x2, x4, x6, x7>>,
         x12' \in Nat,
         x12' = 0 => /\ x12 = 0
                     /\ \A t \in Tenants, w \in Watchers : Minting(s, t, w) => x7[t][w].charter
  PROVE  StartInv'
<1>0. Start!TypeOK /\ JobSound(s) /\ SeedingSound(s)
  BY DEF StartInv, FleetInv, SeedInv
<1>1. CASE x8[s].kind = "boot"
  <2>1. Start!Down(s) /\ x10' = x10
    BY <1>1 DEF Start!Throw
  <2>2. x5[s] = Idle
    BY <1>0, <1>1 DEF JobSound, SeedingSound
  <2> QED BY <2>1, <2>2, DownStep
<1>2. CASE x8[s].kind # "boot"
  <2>1. x8' = [x8 EXCEPT ![s] = Idle] /\ UNCHANGED <<x1, x3, x5, x9, x10, x11>>
    BY <1>2 DEF Start!Throw
  <2>2. Start!TypeOK'
    BY <1>0, <2>1, StartTypes DEF Start!TypeOK
  <2>3. x8'[s] = Idle /\ \A q \in Actors \ {s} : x8'[q] = x8[q]
    BY <1>0, <2>1, StartTypes
  <2>4. SchemaInv' /\ SeedInv'
    BY <2>1, SchemaStays, SeedStays DEF StartInv
  <2>5. JobSound(s)'
    BY <1>0, <1>2, <2>1, <2>3 DEF JobSound, Covering
  <2>6. FleetInv'
    BY <1>0, <2>1, <2>3, <2>5, FleetMoves, StartTypes DEF StartInv
  <2> QED BY <2>2, <2>4, <2>6 DEF StartInv
<1> QED BY <1>1, <1>2

(* A step of ensureTenant that goes on with its tenant.                    *)
LEMMA JobGoesOn ==
  ASSUME StartInv, NEW s \in Actors, x8[s] # Idle, NEW new \in Start!TenantJobs,
         x8' = [x8 EXCEPT ![s] = new],
         new.kind = x8[s].kind, new.t = x8[s].t, new.rest = x8[s].rest,
         new.step # "pick" => new.w \in Watchers,
         x7' \in [Tenants -> [Watchers -> MintRow]],
         UNCHANGED <<x1, x2, x3, x4, x5, x6, x9, x10, x11, x12>>,
         \A t \in Tenants, w \in Watchers :
           /\ x7[t][w].charter => x7'[t][w].charter
           /\ x7'[t][w].prompt /\ ~x7'[t][w].charter =>
                \/ new.step = "mint" /\ new.t = t /\ new.w = w
                \/ x7[t][w].prompt /\ ~x7[t][w].charter /\ ~Minting(s, t, w)
  PROVE  StartInv'
<1>0. Start!TypeOK /\ JobSound(s)
  BY DEF StartInv, FleetInv
<1>1. x8' \in [Actors -> Start!TenantJobs \cup {Idle}]
  BY <1>0, StartTypes
<1>2. Start!TypeOK'
  BY <1>0, <1>1 DEF Start!TypeOK, MintRow
<1>3. x8'[s] = new /\ new # Idle /\ \A q \in Actors \ {s} : x8'[q] = x8[q]
  BY <1>0, StartTypes, StartConstants
<1>4. SchemaInv' /\ SeedInv'
  BY SchemaStays, SeedStays DEF StartInv
<1>5. JobSound(s)'
  <2>1. x11[s] \subseteq Tenants
    BY <1>0, StartTypes
  <2>2. \A t \in x11[s] : Covering(s, t) => Covering(s, t)'
    BY <2>1 DEF Covering
  <2> QED BY <1>0, <1>3, <2>2 DEF JobSound
<1>6. \A t \in Tenants, w \in Watchers :
        new.step = "mint" /\ new.t = t /\ new.w = w => Minting(s, t, w)'
  BY <1>3 DEF Minting
<1>7. FleetInv'
  BY <1>0, <1>3, <1>5, <1>6, FleetMoves, StartTypes DEF StartInv
<1> QED BY <1>2, <1>4, <1>7 DEF StartInv

LEMMA StartNodeStep ==
  ASSUME StartInv, NEW s \in Actors, Start!StartNode(s)
  PROVE  StartInv'
<1>0. Start!TypeOK /\ SeedingSound(s) /\ JobSound(s)
  BY DEF StartInv, SeedInv, FleetInv
<1>p. PICK p \in Plans :
        x3' = [x3 EXCEPT ![s] = [plan |-> p, m |-> 1, f |-> 1, new |-> <<>>, apply |-> FALSE]]
  BY DEF Start!StartNode
<1> DEFINE new == [plan |-> p, m |-> 1, f |-> 1, new |-> <<>>, apply |-> FALSE]
<1>1. /\ x1[s] = "down" /\ x1' = [x1 EXCEPT ![s] = "migrate"] /\ x3' = [x3 EXCEPT ![s] = new]
      /\ UNCHANGED <<x2, x4, x5, x6, x7, x8, x9, x10, x11, x12>>
  BY <1>p DEF Start!StartNode
<1>2. new \in MigrationRow /\ new.plan = p /\ new.m = 1 /\ new.f = 1 /\ new.new = <<>> /\ ~new.apply
  BY DEF MigrationRow
<1> HIDE DEF new
<1>3. /\ x1'[s] = "migrate" /\ x3'[s] = new /\ x3' \in [Actors -> MigrationRow \cup {Idle}]
      /\ \A q \in Actors \ {s} : x1'[q] = x1[q]
  BY <1>0, <1>1, <1>2, StartTypes
<1>4. Start!TypeOK'
  BY <1>0, <1>1, <1>3, StartTypes DEF Start!TypeOK, MigrationRow
<1>5. \A x : x \notin NewNames(s)'
  <2>1. \A i \in 1..Len(<<>>) : FALSE
    OBVIOUS
  <2> QED BY <1>2, <1>3, <2>1 DEF NewNames
<1>6. RowSound(new, Written)
  <2>1. \A n \in 1..Len(p) : \A k \in 1..Len(p[n]) : ~(n < 1 \/ (n = 1 /\ k < 1))
    <3> TAKE n \in 1..Len(p)
    <3> TAKE k \in 1..Len(p[n])
    <3>1. Len(p) \in Nat /\ Len(p[n]) \in Nat
      BY StartConstants
    <3> QED BY <3>1
  <2>2. 1 \in 1..(Len(p) + 1) /\ 1 \in Nat \ {0} /\ \A i \in 1..Len(<<>>) : FALSE
    BY StartConstants
  <2>3. Start!Behind(p, 1, 1, Written \cup FirstNew(new, Len(new.new)))
    BY <2>1 DEF Start!Behind
  <2>4. \A i \in 1..Len(new.new) : FALSE
    BY <1>2, <2>2
  <2> QED BY <1>2, <2>2, <2>3, <2>4 DEF RowSound
<1>7. SchemaInv'
  <2>1. \A q \in Actors \ {s} : NewNames(s)' \cap NewNames(q) = {}
    BY <1>5
  <2>2. x3 \in [Actors -> MigrationRow \cup {Idle}]
    BY <1>0, StartTypes
  <2>3. x1'[s] \notin Up \cup {"down"}
    BY <1>3 DEF Up
  <2> QED BY <1>1, <1>3, <1>6, <2>1, <2>2, <2>3, MigrationMoves DEF StartInv
<1>8. SeedInv'
  BY <1>1, <1>3, SeedStays DEF StartInv
<1>9. JobSound(s)'
  BY <1>0, <1>1, <1>3 DEF JobSound
<1>10. FleetInv'
  <2>1. \A t \in Tenants, w \in Watchers : Minting(s, t, w)' = Minting(s, t, w)
    BY <1>1 DEF Minting
  <2>2. \A t \in Tenants, w \in Watchers : ~Minting(s, t, w)
    BY <1>0, <1>1 DEF Minting, JobSound
  <2> QED BY <1>0, <1>1, <1>3, <1>9, <2>2, FleetMoves, StartTypes DEF StartInv
<1> QED BY <1>4, <1>7, <1>8, <1>10 DEF StartInv

(* Only the migration of s moves. *)
LEMMA MigrationOnly ==
  ASSUME StartInv, SchemaInv', x3' \in [Actors -> MigrationRow \cup {Idle}],
         x2' \in Seq(Start!Files), UNCHANGED <<x1, x4, x5, x6, x7, x8, x9, x10, x11, x12>>
  PROVE  StartInv'
<1>1. Start!TypeOK'
  BY DEF StartInv, Start!TypeOK, MigrationRow
<1>2. SeedInv'
  BY SeedStays DEF StartInv
<1>3. FleetInv'
  BY DEF StartInv, FleetInv, FleetsOwned, JobSound, Covering
<1> QED BY <1>1, <1>2, <1>3 DEF StartInv

LEMMA LedgerNames ==
  ASSUME NEW name
  PROVE  Start!InLedger(name) <=> \E x \in Written : x.name = name
BY DEF Start!InLedger, Written

(* A server whose migration is not through is busy with nothing else. *)
LEMMA OnlyMigrates ==
  ASSUME StartInv, NEW s \in Actors, x3[s] # Idle, x3[s].m <= Len(x3[s].plan)
  PROVE  /\ x1[s] \notin Up \cup {"down"} /\ x5[s] = Idle /\ x8[s] = Idle
         /\ x3[s] \in MigrationRow /\ RowSound(x3[s], Written)
         /\ x3[s].plan \in Plans /\ Len(x3[s].plan) \in Nat
<1>1. x3[s] \in MigrationRow /\ RowSound(x3[s], Written) /\ x1[s] # "down"
  BY StartTypes DEF StartInv, SchemaInv, MigrationSound
<1>2. x3[s].plan \in Plans /\ Len(x3[s].plan) \in Nat
  BY <1>1, StartConstants DEF MigrationRow
<1>3. x1[s] \notin Up
  <2>1. x1[s] \in Up => x3[s].m = Len(x3[s].plan) + 1
    BY DEF StartInv, SchemaInv, SchemaWhole
  <2> QED BY <1>2, <2>1
<1>4. x5[s] = Idle /\ x8[s] = Idle
  BY <1>3 DEF StartInv, SeedInv, FleetInv, SeedingSound, JobSound, Up
<1> QED BY <1>1, <1>2, <1>3, <1>4

LEMMA ReadLedgerStep ==
  ASSUME StartInv, NEW s \in Actors, Start!ReadLedger(s)
  PROVE  StartInv'
<1> DEFINE r == x3[s] p == r.plan m == r.m k == r.f f == Start!FileAt(s)
           known == Start!InLedger(f.name)
           new == IF known THEN [r EXCEPT !.f = k + 1] ELSE [r EXCEPT !.apply = TRUE]
           edited == \E i \in 1..Len(x2) : x2[i].name = f.name /\ x2[i].sum # f.sum
<1>0. Start!TypeOK /\ SchemaInv
  BY DEF StartInv
<1>1. /\ r # Idle /\ ~r.apply /\ m <= Len(p) /\ k <= Len(p[m])
      /\ UNCHANGED <<x2, x4, x6, x7, x10, x12>>
  BY DEF Start!ReadLedger
<1>2. /\ x1[s] \notin Up \cup {"down"} /\ x5[s] = Idle /\ x8[s] = Idle
      /\ r \in MigrationRow /\ RowSound(r, Written) /\ p \in Plans /\ Len(p) \in Nat
  BY <1>1, OnlyMigrates
<1>3. CASE edited
  <2>1. Start!Down(s)
    BY <1>3 DEF Start!ReadLedger
  <2>2. x12' \in Nat
    BY <1>0, <1>1, StartTypes
  <2> QED BY <1>1, <1>2, <2>1, <2>2, DownStep DEF Minting
<1>4. CASE ~edited
  <2>1. x3' = [x3 EXCEPT ![s] = new] /\ UNCHANGED <<x1, x5, x8, x9, x11>>
    BY <1>4 DEF Start!ReadLedger
  <2>2. /\ m \in 1..Len(p) /\ k \in 1..Len(p[m]) /\ k \in Nat /\ Len(p[m]) \in Nat
        /\ f = p[m][k] /\ f \in Start!Files
    <3>1. m \in 1..Len(p) /\ k \in Nat \ {0}
      BY <1>1, <1>2 DEF RowSound
    <3>2. Len(p[m]) \in Nat
      BY <1>2, <3>1, StartConstants
    <3>3. k \in 1..Len(p[m])
      BY <1>1, <3>1, <3>2
    <3> QED BY <1>2, <3>1, <3>2, <3>3, StartConstants DEF Start!FileAt
  <2>3. known => f \in Written
    <3> HAVE known
    <3>1. PICK i \in 1..Len(x2) : x2[i].name = f.name
      BY DEF Start!InLedger
    <3>2. x2[i].sum = f.sum
      BY <1>4, <3>1
    <3>3. x2[i] \in Start!Files
      BY <1>0, StartTypes
    <3>4. \A x, y \in Start!Files : x.name = y.name /\ x.sum = y.sum => x = y
      BY DEF Start!Files
    <3>5. x2[i] = f
      BY <2>2, <3>1, <3>2, <3>3, <3>4
    <3> QED BY <3>5 DEF Written
  <2>4. /\ new \in MigrationRow /\ new.plan = p /\ new.m = m /\ new.new = r.new
        /\ (known => new.f = k + 1 /\ ~new.apply) /\ (~known => new.f = k /\ new.apply)
    <3>1. CASE known
      <4>1. k + 1 \in Nat
        BY <2>2
      <4> QED BY <1>1, <1>2, <3>1, <4>1 DEF MigrationRow
    <3>2. CASE ~known
      BY <1>2, <3>2 DEF MigrationRow
    <3> QED BY <3>1, <3>2
  <2> HIDE DEF new, known, edited
  <2>5. \A n : FirstNew(new, n) = FirstNew(r, n)
    BY <2>4 DEF FirstNew
  <2>6. Start!Behind(p, m, k, Written \cup FirstNew(r, Len(r.new)))
    BY <1>2 DEF RowSound
  <2>7. Start!Behind(p, m, new.f, Written \cup FirstNew(new, Len(new.new)))
    <3> SUFFICES ASSUME NEW n \in 1..Len(p), NEW l \in 1..Len(p[n]),
                        n < m \/ (n = m /\ l < new.f)
                 PROVE  p[n][l] \in Written \cup FirstNew(r, Len(r.new))
      BY <2>4, <2>5 DEF Start!Behind
    <3>1. Len(p[n]) \in Nat
      BY <1>2, StartConstants
    <3>2. (n < m \/ (n = m /\ l < k)) \/ (known /\ n = m /\ l = k)
      BY <2>2, <2>4, <3>1
    <3>3. CASE n < m \/ (n = m /\ l < k)
      BY <2>6, <3>3 DEF Start!Behind
    <3>4. CASE known /\ n = m /\ l = k
      BY <2>2, <2>3, <3>4
    <3> QED BY <3>2, <3>3, <3>4
  <2>8. \A i \in 1..Len(r.new) : NewSound(new, i, Written)
    <3> TAKE i \in 1..Len(r.new)
    <3>1. PICK l \in 1..Len(p[m]) :
            l < k /\ r.new[i] = p[m][l]
            /\ Start!Behind(p, m, l, Written \cup FirstNew(r, i - 1))
      BY <1>2 DEF RowSound, NewSound
    <3>2. l < new.f
      BY <2>2, <2>4, <3>1
    <3> HIDE DEF p, m, k, r
    <3> QED BY <2>4, <2>5, <3>1, <3>2 DEF NewSound
  <2>9. new.f \in Nat \ {0} /\ new.m \in 1..(Len(p) + 1) /\ new.m # Len(p) + 1
        /\ (new.apply => new.m <= Len(p) /\ new.f <= Len(p[m]))
    BY <1>2, <2>2, <2>4
  <2>10. RowSound(new, Written)
    <3>1. /\ \A i, j \in 1..Len(r.new) : r.new[i].name = r.new[j].name => i = j
          /\ \A i \in 1..Len(r.new) : \A x \in Written : x.name # r.new[i].name
      BY <1>2 DEF RowSound
    <3> HIDE DEF p, m, k, r
    <3> QED BY <2>4, <2>7, <2>8, <2>9, <3>1 DEF RowSound
  <2>11. x3 \in [Actors -> MigrationRow \cup {Idle}] /\ x3'[s] = new
         /\ x3' \in [Actors -> MigrationRow \cup {Idle}]
    BY <1>0, <2>1, <2>4, StartTypes
  <2>12. \A q \in Actors \ {s} : NewNames(s)' \cap NewNames(q) = {}
    <3>1. NewNames(s)' \subseteq NewNames(s)
      BY <1>1, <2>4, <2>11 DEF NewNames
    <3> QED BY <1>0, <3>1 DEF SchemaInv, Apart
  <2>13. SchemaInv'
    BY <1>0, <1>1, <1>2, <2>1, <2>10, <2>11, <2>12, MigrationMoves
  <2> QED BY <1>0, <1>1, <2>1, <2>11, <2>13, MigrationOnly, StartTypes
<1> QED BY <1>3, <1>4

LEMMA ApplyFileStep ==
  ASSUME StartInv, NEW s \in Actors, Start!ApplyFile(s)
  PROVE  StartInv'
<1> DEFINE f == Start!FileAt(s) r == x3[s]
<1>0. Start!TypeOK /\ SchemaInv
  BY DEF StartInv
<1>1. r # Idle /\ r.apply /\ f.name \notin Start!OthersNew(s)
      /\ UNCHANGED <<x2, x4, x6, x7, x10, x12>>
  BY DEF Start!ApplyFile
<1>2. r.m <= Len(r.plan)
  BY <1>0, <1>1 DEF SchemaInv, MigrationSound, RowSound
<1>3. /\ x1[s] \notin Up \cup {"down"} /\ x5[s] = Idle /\ x8[s] = Idle
      /\ r \in MigrationRow /\ RowSound(r, Written)
  BY <1>1, <1>2, OnlyMigrates
<1>4. CASE Start!InLedger(f.name)
  <2>1. Start!Down(s)
    BY <1>4 DEF Start!ApplyFile
  <2>2. x12' \in Nat
    BY <1>0, <1>1, StartTypes
  <2> QED BY <1>1, <1>3, <2>1, <2>2, DownStep DEF Minting
<1>5. CASE ~Start!InLedger(f.name)
  <2>1. x3' = [x3 EXCEPT ![s] = Start!Applied(s)] /\ UNCHANGED <<x1, x5, x8, x9, x11>>
    BY <1>5 DEF Start!ApplyFile
  <2>2. \A x \in Written : x.name # f.name
    BY <1>5, LedgerNames
  <2> DEFINE e == Start!Applied(s)
  <2>3. e \in MigrationRow /\ RowSound(e, Written) /\ e.new = Append(r.new, f)
    <3>1. f = r.plan[r.m][r.f]
      BY DEF Start!FileAt
    <3>2. e = Grown(r, f)
      BY DEF Start!Applied, Grown
    <3>3. r \in MigrationRow /\ RowSound(r, Written) /\ r.apply
      BY <1>1, <1>3
    <3> HIDE DEF e, f, r
    <3> QED BY <2>2, <3>1, <3>2, <3>3, RowApplied
  <2> HIDE DEF e, f
  <2>4. x3 \in [Actors -> MigrationRow \cup {Idle}] /\ x3'[s] = e
        /\ x3' \in [Actors -> MigrationRow \cup {Idle}]
    BY <1>0, <2>1, <2>3, StartTypes DEF e
  <2>5. NewNames(s)' \subseteq NewNames(s) \cup {f.name}
    <3>1. PICK q \in Seq(Start!Files) : q = r.new
      BY <1>3 DEF MigrationRow
    <3>2. \A i \in 1..Len(Append(q, f)) :
            (i \in 1..Len(q) /\ Append(q, f)[i] = q[i]) \/ Append(q, f)[i] = f
      OBVIOUS
    <3>3. NewNames(s) = {q[i].name : i \in 1..Len(q)}
      BY <1>1, <3>1 DEF NewNames
    <3>4. \A x \in NewNames(s)' : \E i \in 1..Len(Append(q, f)) : x = Append(q, f)[i].name
      BY <2>3, <2>4, <3>1 DEF NewNames
    <3> QED BY <3>2, <3>3, <3>4
  <2>6. \A q \in Actors \ {s} : NewNames(s)' \cap NewNames(q) = {}
    <3> TAKE q \in Actors \ {s}
    <3>1. NewNames(q) \subseteq Start!OthersNew(s)
      BY DEF Start!OthersNew, NewNames
    <3>2. NewNames(s) \cap NewNames(q) = {}
      BY <1>0 DEF SchemaInv, Apart
    <3> QED BY <1>1, <2>5, <3>1, <3>2
  <2>7. SchemaInv'
    BY <1>0, <1>1, <1>3, <2>1, <2>3, <2>4, <2>6, MigrationMoves DEF e
  <2> QED BY <1>0, <1>1, <2>1, <2>4, <2>7, MigrationOnly, StartTypes
<1> QED BY <1>4, <1>5

LEMMA CommitModuleStep ==
  ASSUME StartInv, NEW s \in Actors, Start!CommitModule(s)
  PROVE  StartInv'
<1>1. UNCHANGED <<x1, x4, x5, x6, x7, x8, x9, x10, x11, x12>>
  BY DEF Start!CommitModule
<1>2. Start!TypeOK /\ SchemaInv
  BY DEF StartInv
<1> QED BY <1>1, <1>2, CommitSchema, MigrationOnly

LEMMA MigratedStep ==
  ASSUME StartInv, NEW s \in Actors, Start!Migrated(s)
  PROVE  StartInv'
<1> DEFINE new == [todo |-> {g \in 1..Len(Seeds) : x4[g] # "active"}, step |-> "none"]
<1>0. Start!TypeOK /\ SchemaInv /\ SeedingSound(s) /\ JobSound(s)
  BY DEF StartInv, SchemaInv, SeedInv, FleetInv
<1>1. /\ x1[s] = "migrate" /\ x3[s] # Idle /\ x3[s].m > Len(x3[s].plan)
      /\ x5' = [x5 EXCEPT ![s] = new] /\ x1' = [x1 EXCEPT ![s] = "seed"]
      /\ UNCHANGED <<x2, x3, x4, x6, x7, x8, x9, x10, x11, x12>>
  BY DEF Start!Migrated
<1>2. new \in Start!SeedJobs /\ new.step = "none"
  BY DEF Start!SeedJobs
<1> HIDE DEF new
<1>3. /\ x1'[s] = "seed" /\ x5'[s] = new /\ new # Idle
      /\ \A q \in Actors \ {s} : x1'[q] = x1[q] /\ x5'[q] = x5[q]
  BY <1>0, <1>1, <1>2, StartTypes, StartConstants
<1>4. Start!TypeOK'
  <2>1. x5' \in [Actors -> Start!SeedJobs \cup {Idle}]
    BY <1>0, <1>1, <1>2, StartTypes
  <2> QED BY <1>0, <1>1, <2>1, StartTypes DEF Start!TypeOK
<1>5. x5[s] = Idle /\ x8[s] = Idle
  BY <1>0, <1>1 DEF SeedingSound, JobSound
<1>6. x3[s] # Idle /\ x3[s].m = Len(x3[s].plan) + 1
  <2>1. x3[s].plan \in Plans /\ Len(x3[s].plan) \in Nat
    <3>1. x3[s] \in MigrationRow
      BY <1>0, <1>1, StartTypes
    <3> QED BY <3>1, StartConstants DEF MigrationRow
  <2>2. x3[s].m \in 1..(Len(x3[s].plan) + 1)
    BY <1>0, <1>1 DEF SchemaInv, MigrationSound, RowSound
  <2> QED BY <1>1, <2>1, <2>2
<1>7. SchemaInv'
  <2>1. Written' = Written /\ \A q \in Actors : NewNames(q)' = NewNames(q)
    BY <1>1 DEF Written, NewNames
  <2>2. LedgerSound(x2)' /\ Apart'
    BY <1>0, <1>1, <2>1 DEF SchemaInv, Apart
  <2>3. SchemaWhole'
    BY <1>0, <1>1, <1>3, <1>6 DEF SchemaInv, SchemaWhole
  <2>4. \A q \in Actors : MigrationSound(q)'
    BY <1>0, <1>1, <1>3, <2>1 DEF SchemaInv, MigrationSound
  <2> QED BY <2>2, <2>3, <2>4 DEF SchemaInv
<1>8. SeedInv'
  <2>1. \A q \in Actors : SeedingSound(q)'
    <3> TAKE q \in Actors
    <3>1. SeedingSound(q)
      BY DEF StartInv, SeedInv
    <3> QED BY <1>1, <1>2, <1>3, <3>1 DEF SeedingSound, Start!Seed
  <2>2. OneSeeder'
    BY <1>2, <1>3 DEF StartInv, SeedInv, OneSeeder, Start!Seed
  <2>3. SeedsOwned'
    <3> SUFFICES ASSUME x12' = 0, NEW g \in 1..Len(Seeds), x4[g] \notin {"none", "active"}
                 PROVE  \E q \in Actors : /\ x5'[q] # Idle /\ x5'[q].todo # {}
                                          /\ Start!Min(x5'[q].todo) = g /\ x5'[q].step = x4[g]
      BY <1>1 DEF SeedsOwned, Start!Seed
    <3>1. PICK q \in Actors : /\ x5[q] # Idle /\ x5[q].todo # {}
                             /\ Start!Min(x5[q].todo) = g /\ x5[q].step = x4[g]
      BY <1>1 DEF StartInv, SeedInv, SeedsOwned, Start!Seed
    <3>2. q # s
      BY <1>5, <3>1
    <3> QED BY <1>3, <3>1, <3>2
  <2> QED BY <2>1, <2>2, <2>3 DEF SeedInv
<1>9. JobSound(s)'
  BY <1>1, <1>3, <1>5 DEF JobSound
<1>10. FleetInv'
  <2>1. \A t \in Tenants, w \in Watchers : ~Minting(s, t, w)
    BY <1>5 DEF Minting
  <2> QED BY <1>0, <1>1, <1>3, <1>9, <2>1, FleetMoves, StartTypes DEF StartInv
<1> QED BY <1>4, <1>7, <1>8, <1>10 DEF StartInv

LEMMA SeedSkillStep ==
  ASSUME StartInv, NEW s \in Actors, Start!SeedSkill(s)
  PROVE  StartInv'
<1> DEFINE g == Start!Seed(s)
           step == x5[s].step
           next == Start!After(step)
           old == x5[s]
<1>0. Start!TypeOK /\ SchemaInv /\ SeedInv /\ SeedingSound(s)
  BY DEF StartInv, SeedInv
<1>1. /\ x1[s] = "seed" /\ old # Idle /\ old.todo # {}
      /\ UNCHANGED <<x1, x2, x3, x6, x7, x8, x9, x10, x11, x12>>
  BY <1>0 DEF Start!SeedSkill, SeedingSound
<1>2. old \in Start!SeedJobs /\ x5 \in [Actors -> Start!SeedJobs \cup {Idle}]
      /\ x4 \in [1..Len(Seeds) -> SeedStates]
  BY <1>0, <1>1, StartTypes
<1>3. g \in old.todo /\ g \in 1..Len(Seeds)
  BY <1>0, <1>1, SeedIsToCome
<1>4. /\ step \in {"none", "proposed", "asked", "linked", "approved"}
      /\ next \in SeedStates \ {"none"}
  BY <1>2 DEF Start!After, Start!SeedJobs, SeedStates
<1>5. step # "none" => x4[g] = step
  BY <1>0, <1>1 DEF SeedingSound
<1>6. SchemaInv' /\ FleetInv'
  <2>1. SchemaInv'
    BY <1>0, <1>1, SchemaStays
  <2> QED BY <1>1, <2>1 DEF StartInv, FleetInv, FleetsOwned, JobSound, Covering
<1>7. SUFFICES SeedInv' /\ x4' \in [1..Len(Seeds) -> SeedStates]
               /\ x5' \in [Actors -> Start!SeedJobs \cup {Idle}]
  <2>1. Start!TypeOK'
    BY <1>0, <1>1, <1>7 DEF Start!TypeOK, SeedStates
  <2> QED BY <1>6, <1>7, <2>1 DEF StartInv
<1>8. CASE step = "none" /\ x4[g] # "none"
  <2>1. x5' = [x5 EXCEPT ![s] = Start!NoSeeds] /\ x4' = x4
    BY <1>8 DEF Start!SeedSkill
  <2>2. Start!NoSeeds \in Start!SeedJobs /\ Start!NoSeeds.step = "none"
    BY DEF Start!NoSeeds, Start!SeedJobs
  <2>3. x5'[s] = Start!NoSeeds /\ \A q \in Actors \ {s} : x5'[q] = x5[q]
    BY <1>2, <2>1
  <2>4. \A q \in Actors : SeedingSound(q)'
    <3> TAKE q \in Actors
    <3>1. SeedingSound(q) /\ Start!NoSeeds # Idle
      BY <2>2, StartConstants DEF StartInv, SeedInv
    <3> QED BY <1>1, <2>1, <2>2, <2>3, <3>1 DEF SeedingSound, Start!Seed
  <2>5. OneSeeder'
    BY <2>2, <2>3 DEF StartInv, SeedInv, OneSeeder, Start!Seed
  <2>6. SeedsOwned'
    <3> SUFFICES ASSUME x12' = 0, NEW h \in 1..Len(Seeds), x4[h] \notin {"none", "active"}
                 PROVE  \E q \in Actors : /\ x5'[q] # Idle /\ x5'[q].todo # {}
                                          /\ Start!Min(x5'[q].todo) = h /\ x5'[q].step = x4[h]
      BY <2>1 DEF SeedsOwned, Start!Seed
    <3>1. PICK q \in Actors : /\ x5[q] # Idle /\ x5[q].todo # {}
                             /\ Start!Min(x5[q].todo) = h /\ x5[q].step = x4[h]
      BY <1>1 DEF StartInv, SeedInv, SeedsOwned, Start!Seed
    <3>2. q # s
      BY <1>8, <3>1
    <3> QED BY <2>3, <3>1, <3>2
  <2>7. x5' \in [Actors -> Start!SeedJobs \cup {Idle}]
    BY <1>2, <2>1, <2>2
  <2> QED BY <1>2, <2>1, <2>4, <2>5, <2>6, <2>7 DEF SeedInv
<1>9. CASE ~(step = "none" /\ x4[g] # "none")
  <2> DEFINE new == IF next = "active" THEN [todo |-> old.todo \ {g}, step |-> "none"]
                    ELSE [todo |-> old.todo, step |-> next]
  <2>1. x4' = [x4 EXCEPT ![g] = next] /\ x5' = [x5 EXCEPT ![s] = new]
    BY <1>9 DEF Start!SeedSkill
  <2>2. /\ new \in Start!SeedJobs
        /\ next = "active" => new.step = "none"
        /\ next # "active" => new.step = next /\ new.todo = old.todo
    <3>1. next # "active" => next \in {"none", "proposed", "asked", "linked", "approved"}
      BY <1>4 DEF SeedStates
    <3>2. old.todo \subseteq 1..Len(Seeds)
      BY <1>2 DEF Start!SeedJobs
    <3> QED BY <3>1, <3>2 DEF Start!SeedJobs
  <2>3. step = "none" => x4[g] = "none"
    BY <1>9
  <2> HIDE DEF new, next
  <2>4. /\ x5'[s] = new /\ new # Idle /\ \A q \in Actors \ {s} : x5'[q] = x5[q]
        /\ x5' \in [Actors -> Start!SeedJobs \cup {Idle}]
    BY <1>2, <2>1, <2>2, StartConstants
  <2>5. /\ x4'[g] = next /\ x4' \in [1..Len(Seeds) -> SeedStates]
        /\ \A h \in 1..Len(Seeds) : h # g => x4'[h] = x4[h]
    BY <1>2, <1>3, <1>4, <2>1
  <2>6. next # "active" => new.todo # {} /\ Start!Min(new.todo) = g
    BY <1>1, <2>2 DEF Start!Seed
  <2>7. \A q \in Actors \ {s} : x5[q] # Idle /\ x5[q].step # "none" => Start!Seed(q) # g
    <3> SUFFICES ASSUME NEW q \in Actors \ {s}, x5[q] # Idle, x5[q].step # "none",
                        Start!Seed(q) = g
                 PROVE  FALSE
      OBVIOUS
    <3>1. x4[g] = x5[q].step
      BY <1>0 DEF SeedInv, SeedingSound
    <3>2. step # "none"
      BY <2>3, <3>1
    <3> QED BY <1>0, <1>1, <3>2 DEF SeedInv, OneSeeder
  <2>8. \A q \in Actors : SeedingSound(q)'
    <3> TAKE q \in Actors
    <3>1. SeedingSound(q) /\ (x1'[q] = x1[q])
      BY <1>0, <1>1 DEF SeedInv
    <3>2. CASE q = s
      BY <1>1, <2>2, <2>4, <2>5, <2>6, <3>2 DEF SeedingSound, Start!Seed
    <3>3. CASE q # s
      <4>1. x5'[q] = x5[q]
        BY <2>4, <3>3
      <4>2. ASSUME x5[q] # Idle, x5[q].step # "none"
            PROVE  x5[q].todo # {} /\ x4'[Start!Min(x5[q].todo)] = x5[q].step
        <5>1. x5[q].todo # {} /\ x4[Start!Seed(q)] = x5[q].step /\ Start!Seed(q) # g
          BY <2>7, <3>1, <3>3, <4>2 DEF SeedingSound
        <5>2. Start!Seed(q) \in 1..Len(Seeds)
          BY <1>0, <4>2, <5>1, SeedIsToCome
        <5> QED BY <2>5, <5>1, <5>2 DEF Start!Seed
      <4> QED BY <3>1, <4>1, <4>2 DEF SeedingSound, Start!Seed
    <3> QED BY <3>2, <3>3
  <2>9. OneSeeder'
    <3> SUFFICES ASSUME NEW p \in Actors, NEW q \in Actors,
                        x5'[p] # Idle, x5'[p].step # "none", x5'[q] # Idle, x5'[q].step # "none",
                        Start!Min(x5'[p].todo) = Start!Min(x5'[q].todo)
                 PROVE  p = q
      BY DEF OneSeeder, Start!Seed
    <3>1. \A r \in Actors \ {s} :
            x5'[r] # Idle /\ x5'[r].step # "none" => Start!Min(x5'[r].todo) # g
      BY <2>4, <2>7 DEF Start!Seed
    <3>2. x5'[s].step # "none" => Start!Min(x5'[s].todo) = g
      BY <2>2, <2>4, <2>6
    <3>3. CASE p # s /\ q # s
      <4>1. x5'[p] = x5[p] /\ x5'[q] = x5[q]
        BY <2>4, <3>3
      <4> QED BY <1>0, <4>1 DEF SeedInv, OneSeeder, Start!Seed
    <3> QED BY <3>1, <3>2, <3>3
  <2>10. SeedsOwned'
    <3> SUFFICES ASSUME x12 = 0, NEW h \in 1..Len(Seeds), x4'[h] \notin {"none", "active"}
                 PROVE  \E q \in Actors : /\ x5'[q] # Idle /\ x5'[q].todo # {}
                                          /\ Start!Min(x5'[q].todo) = h /\ x5'[q].step = x4'[h]
      BY <1>1 DEF SeedsOwned, Start!Seed
    <3>1. CASE h = g
      BY <2>2, <2>4, <2>5, <2>6, <3>1
    <3>2. CASE h # g
      <4>1. PICK q \in Actors : /\ x5[q] # Idle /\ x5[q].todo # {}
                               /\ Start!Seed(q) = h /\ x5[q].step = x4[h]
        BY <1>0, <2>5, <3>2 DEF SeedInv, SeedsOwned
      <4>2. q # s
        BY <3>2, <4>1
      <4> QED BY <2>4, <2>5, <3>2, <4>1, <4>2 DEF Start!Seed
    <3> QED BY <3>1, <3>2
  <2> QED BY <2>4, <2>5, <2>8, <2>9, <2>10 DEF SeedInv
<1> QED BY <1>8, <1>9

(* The records of ensureTenant.                                            *)
LEMMA TenantStarts ==
  ASSUME NEW t \in Tenants, NEW rest \in SUBSET Tenants, NEW kind \in {"boot", "event"}
  PROVE  LET j == Start!StartTenant(t, rest, kind) IN
           /\ j \in Start!TenantJobs /\ j # Idle
           /\ j.kind = kind /\ j.rest = rest /\ j.t = t /\ j.step = "pick"
BY StartConstants DEF Start!StartTenant, Start!TenantJobs

LEMMA SweepTenantsStep ==
  ASSUME StartInv, NEW s \in Actors, Start!SweepTenants(s)
  PROVE  StartInv'
<1>0. Start!TypeOK /\ SeedingSound(s) /\ JobSound(s)
  BY DEF StartInv, SeedInv, FleetInv
<1>1. /\ x1[s] = "seed" /\ x5[s] # Idle /\ x5[s].todo = {} /\ x8[s] = Idle
      /\ x5' = [x5 EXCEPT ![s] = Idle] /\ x11' = [x11 EXCEPT ![s] = x6]
      /\ UNCHANGED <<x2, x3, x4, x6, x7, x9, x10, x12>>
  BY <1>0 DEF Start!SweepTenants, SeedingSound, JobSound
<1>2. \/ x6 = {} /\ x1' = [x1 EXCEPT ![s] = "up"] /\ x8' = x8
      \/ /\ x1' = [x1 EXCEPT ![s] = "sweep"]
         /\ \E t \in x6 : x8' = [x8 EXCEPT ![s] = Start!StartTenant(t, x6 \ {t}, "boot")]
  BY DEF Start!SweepTenants
<1>3. \/ x6 = {} /\ x1'[s] = "up" /\ x8'[s] = Idle
      \/ /\ x1'[s] = "sweep" /\ x8'[s] \in Start!TenantJobs /\ x8'[s] # Idle
         /\ x8'[s].kind = "boot" /\ x8'[s].rest = x6 \ {x8'[s].t} /\ x8'[s].t \in x6 /\ x8'[s].step = "pick"
  <2>1. CASE x1' = [x1 EXCEPT ![s] = "sweep"]
             /\ \E t \in x6 : x8' = [x8 EXCEPT ![s] = Start!StartTenant(t, x6 \ {t}, "boot")]
    <3>1. PICK t \in x6 : x8' = [x8 EXCEPT ![s] = Start!StartTenant(t, x6 \ {t}, "boot")]
      BY <2>1
    <3>2. t \in Tenants /\ x6 \ {t} \in SUBSET Tenants
      BY <1>0, StartTypes
    <3>3. x8'[s] = Start!StartTenant(t, x6 \ {t}, "boot") /\ x1'[s] = "sweep"
      BY <1>0, <2>1, <3>1, StartTypes
    <3> QED BY <3>2, <3>3, TenantStarts
  <2>2. CASE x6 = {} /\ x1' = [x1 EXCEPT ![s] = "up"] /\ x8' = x8
    BY <1>0, <1>1, <2>2, StartTypes
  <2> QED BY <1>2, <2>1, <2>2
<1>4. /\ x1' \in [Actors -> {"down", "migrate", "seed", "sweep", "up"}]
      /\ x8' \in [Actors -> Start!TenantJobs \cup {Idle}]
      /\ \A q \in Actors \ {s} : x1'[q] = x1[q] /\ x8'[q] = x8[q]
  <2>1. x8 \in [Actors -> Start!TenantJobs \cup {Idle}]
        /\ x1 \in [Actors -> {"down", "migrate", "seed", "sweep", "up"}]
    BY <1>0, StartTypes
  <2>2. CASE x1' = [x1 EXCEPT ![s] = "sweep"]
             /\ \E t \in x6 : x8' = [x8 EXCEPT ![s] = Start!StartTenant(t, x6 \ {t}, "boot")]
    <3>1. PICK j : x8' = [x8 EXCEPT ![s] = j]
      BY <2>2
    <3>2. x8'[s] = j /\ "sweep" \in {"down", "migrate", "seed", "sweep", "up"}
      BY <2>1, <3>1
    <3>3. j \in Start!TenantJobs
      <4>1. x1'[s] = "sweep"
        BY <2>1, <2>2
      <4> QED BY <1>3, <3>2, <4>1
    <3> QED BY <2>1, <2>2, <3>1, <3>3
  <2>3. CASE x6 = {} /\ x1' = [x1 EXCEPT ![s] = "up"] /\ x8' = x8
    BY <2>1, <2>3
  <2> QED BY <1>2, <2>2, <2>3
<1>5. /\ x5'[s] = Idle /\ x11'[s] = x6 /\ x6 \subseteq Tenants
      /\ x5' \in [Actors -> Start!SeedJobs \cup {Idle}] /\ x11' \in [Actors -> SUBSET Tenants]
      /\ \A q \in Actors \ {s} : x5'[q] = x5[q] /\ x11'[q] = x11[q]
  BY <1>0, <1>1, StartTypes
<1>6. Start!TypeOK'
  BY <1>0, <1>1, <1>4, <1>5 DEF Start!TypeOK
<1>7. SchemaInv'
  BY <1>1, <1>3, <1>4, <1>5, SchemaStays DEF StartInv, Up, SchemaInv, MigrationSound
<1>8. SeedInv'
  BY <1>1, <1>3, <1>4, <1>5, SeedStays DEF StartInv
<1>9. JobSound(s)'
  <2>1. x6' = x6 /\ \A t \in {} : FALSE
    BY <1>1
  <2>2. CASE x1'[s] = "up"
    BY <1>3, <1>5, <2>1, <2>2 DEF JobSound
  <2>3. CASE x1'[s] = "sweep"
    BY <1>3, <1>5, <2>1, <2>3 DEF JobSound
  <2> QED BY <1>3, <2>2, <2>3
<1>10. FleetInv'
  <2>1. \A t \in Tenants, w \in Watchers : ~Minting(s, t, w)
    BY <1>1 DEF Minting
  <2> QED BY <1>0, <1>1, <1>4, <1>5, <1>9, <2>1, FleetMoves, StartTypes DEF StartInv
<1> QED BY <1>6, <1>7, <1>8, <1>10 DEF StartInv

LEMMA HandleTenantStep ==
  ASSUME StartInv, NEW s \in Actors, NEW t \in Tenants, Start!HandleTenant(s, t)
  PROVE  StartInv'
<1> DEFINE new == Start!StartTenant(t, {}, "event")
<1>0. Start!TypeOK /\ JobSound(s)
  BY DEF StartInv, FleetInv
<1>1. /\ x1[s] = "up" /\ x8[s] = Idle /\ x8' = [x8 EXCEPT ![s] = new]
      /\ UNCHANGED <<x1, x2, x3, x4, x5, x6, x7, x9, x10, x11, x12>>
  BY DEF Start!HandleTenant
<1>2. new \in Start!TenantJobs /\ new # Idle /\ new.kind = "event" /\ new.step = "pick"
      /\ new.t = t /\ new.rest = {} /\ t \in x6
  BY TenantStarts DEF Start!HandleTenant
<1> HIDE DEF new
<1>3. /\ x8'[s] = new /\ x8' \in [Actors -> Start!TenantJobs \cup {Idle}]
      /\ \A q \in Actors \ {s} : x8'[q] = x8[q]
  BY <1>0, <1>1, <1>2, StartTypes
<1>4. Start!TypeOK'
  BY <1>0, <1>1, <1>3 DEF Start!TypeOK
<1>5. SchemaInv' /\ SeedInv'
  BY <1>1, SchemaStays, SeedStays DEF StartInv
<1>6. JobSound(s)'
  BY <1>0, <1>1, <1>2, <1>3 DEF JobSound, Covering
<1>7. FleetInv'
  <2>1. \A v \in Tenants, w \in Watchers : ~Minting(s, v, w)
    BY <1>1 DEF Minting
  <2> QED BY <1>0, <1>1, <1>3, <1>6, <2>1, FleetMoves, StartTypes DEF StartInv
<1> QED BY <1>4, <1>5, <1>7 DEF StartInv

(* A row of ensureTenant is inserted. *)
LEMMA RowInserted ==
  ASSUME x7 \in [Tenants -> [Watchers -> MintRow]], NEW t \in Tenants, NEW w \in Watchers,
         NEW col \in {"principal", "prompt", "charter"},
         x7' = [x7 EXCEPT ![t][w][col] = TRUE]
  PROVE  /\ x7' \in [Tenants -> [Watchers -> MintRow]]
         /\ x7'[t][w] = [x7[t][w] EXCEPT ![col] = TRUE]
         /\ \A v \in Tenants, u \in Watchers : v # t \/ u # w => x7'[v][u] = x7[v][u]
<1> DEFINE new == [x7[t][w] EXCEPT ![col] = TRUE]
<1>1. new \in MintRow
  <2>1. x7[t][w] \in MintRow
    OBVIOUS
  <2>2. CASE col = "principal"
    BY <2>1, <2>2 DEF MintRow
  <2>3. CASE col = "prompt"
    BY <2>1, <2>3 DEF MintRow
  <2>4. CASE col = "charter"
    BY <2>1, <2>4 DEF MintRow
  <2> QED BY <2>2, <2>3, <2>4
<1>2. x7' = [x7 EXCEPT ![t] = [x7[t] EXCEPT ![w] = new]]
  OBVIOUS
<1> DEFINE row == [x7[t] EXCEPT ![w] = new]
<1> HIDE DEF new
<1>r. row \in [Watchers -> MintRow] /\ row[w] = new /\ \A u \in Watchers : u # w => row[u] = x7[t][u]
  BY <1>1
<1> HIDE DEF row
<1>4. x7' = [x7 EXCEPT ![t] = row]
  BY <1>2 DEF row
<1>3. /\ x7' \in [Tenants -> [Watchers -> MintRow]] /\ x7'[t][w] = new
      /\ \A v \in Tenants, u \in Watchers : v # t \/ u # w => x7'[v][u] = x7[v][u]
  BY <1>r, <1>4
<1> QED BY <1>3 DEF new

(* A step of ensureTenant with nothing or a row written.                   *)
LEMMA GotoStep ==
  ASSUME StartInv, NEW s \in Actors, x8[s] # Idle, x8[s].step # "pick",
         NEW step \in {"pick", "principal", "charter", "prompt", "mint"},
         Start!Goto(s, step), x7' \in [Tenants -> [Watchers -> MintRow]],
         UNCHANGED <<x2, x4, x6, x12>>,
         \A t \in Tenants, w \in Watchers :
           /\ x7[t][w].charter => x7'[t][w].charter
           /\ x7'[t][w].prompt /\ ~x7'[t][w].charter =>
                \/ step = "mint" /\ x8[s].t = t /\ x8[s].w = w
                \/ x7[t][w].prompt /\ ~x7[t][w].charter /\ ~Minting(s, t, w)
  PROVE  StartInv'
<1>0. Start!TypeOK /\ JobSound(s)
  BY DEF StartInv, FleetInv
<1>1. x8' = [x8 EXCEPT ![s].step = step] /\ UNCHANGED <<x1, x3, x5, x9, x10, x11>>
  BY DEF Start!Goto
<1>2. x8[s] \in Start!TenantJobs
  BY <1>0, StartTypes
<1> DEFINE new == [x8[s] EXCEPT !.step = step]
<1>3. /\ new \in Start!TenantJobs /\ new.kind = x8[s].kind /\ new.t = x8[s].t
      /\ new.rest = x8[s].rest /\ new.w = x8[s].w /\ new.step = step
  BY <1>2 DEF Start!TenantJobs
<1>4. x8' = [x8 EXCEPT ![s] = new]
  BY <1>1
<1>5. new.w \in Watchers
  BY <1>0, <1>3 DEF JobSound
<1>6. \A t \in Tenants, w \in Watchers :
        /\ x7[t][w].charter => x7'[t][w].charter
        /\ x7'[t][w].prompt /\ ~x7'[t][w].charter =>
             \/ new.step = "mint" /\ new.t = t /\ new.w = w
             \/ x7[t][w].prompt /\ ~x7[t][w].charter /\ ~Minting(s, t, w)
  BY <1>3
<1> HIDE DEF new
<1>7. UNCHANGED <<x1, x2, x3, x4, x5, x6, x9, x10, x11, x12>>
  BY <1>1
<1>8. StartInv /\ x8[s] # Idle /\ x7' \in [Tenants -> [Watchers -> MintRow]]
  OBVIOUS
<1> QED BY ONLY <1>3, <1>4, <1>5, <1>6, <1>7, <1>8, JobGoesOn

LEMMA LookUpPrincipalStep ==
  ASSUME StartInv, NEW s \in Actors, NEW w \in Watchers, Start!LookUpPrincipal(s, w)
  PROVE  StartInv'
<1> DEFINE step == IF x7[x8[s].t][w].principal THEN "charter" ELSE "principal"
           rest == x8[s].todo \ {w}
           new == [x8[s] EXCEPT !.w = w, !.todo = rest, !.step = step]
<1>0. Start!TypeOK /\ JobSound(s)
  BY DEF StartInv, FleetInv
<1>1. /\ x8[s] # Idle /\ x8[s].step = "pick" /\ x8' = [x8 EXCEPT ![s] = new]
      /\ UNCHANGED <<x1, x2, x3, x4, x5, x6, x7, x9, x10, x11, x12>>
  BY DEF Start!LookUpPrincipal, Start!Steps
<1>2. x8[s] \in Start!TenantJobs
  BY <1>0, <1>1, StartTypes
<1>3. step \in {"charter", "principal"} /\ rest \subseteq Watchers
  BY <1>2 DEF Start!TenantJobs
<1> HIDE DEF step, rest
<1>4. /\ new \in Start!TenantJobs /\ new.kind = x8[s].kind /\ new.t = x8[s].t
      /\ new.rest = x8[s].rest /\ new.w = w
  BY <1>2, <1>3 DEF Start!TenantJobs
<1>5. x7' \in [Tenants -> [Watchers -> MintRow]]
  BY <1>0, <1>1, StartTypes
<1>6. \A v \in Tenants, u \in Watchers : ~Minting(s, v, u)
  BY <1>1 DEF Minting
<1> HIDE DEF new
<1> QED BY <1>1, <1>4, <1>5, <1>6, JobGoesOn

(* An error at a statement whose watcher is not half made.                 *)
LEMMA Throws ==
  ASSUME StartInv, NEW s \in Actors, x8[s] # Idle, Start!Throw(s),
         UNCHANGED <<x2, x4, x6, x7, x12>>,
         x8[s].step = "mint" => x7[x8[s].t][x8[s].w].charter
  PROVE  StartInv'
<1>1. x12' \in Nat
  BY StartTypes DEF StartInv
<1>2. \A t \in Tenants, w \in Watchers : Minting(s, t, w) => x7[t][w].charter
  BY DEF Minting
<1> QED BY <1>1, <1>2, ThrowStep

(* What an inserting step has at hand.                                     *)
LEMMA AtWatcher ==
  ASSUME StartInv, NEW s \in Actors, x8[s] # Idle, x8[s].step # "pick"
  PROVE  /\ x8[s].t \in Tenants /\ x8[s].w \in Watchers
         /\ x7 \in [Tenants -> [Watchers -> MintRow]] /\ x7[x8[s].t][x8[s].w] \in MintRow
<1>1. Start!TypeOK /\ JobSound(s)
  BY DEF StartInv, FleetInv
<1>2. x8[s] \in Start!TenantJobs
  BY <1>1, StartTypes
<1> QED BY <1>1, <1>2, StartTypes DEF JobSound, Start!TenantJobs

LEMMA CreatePrincipalStep ==
  ASSUME StartInv, NEW s \in Actors, Start!CreatePrincipal(s)
  PROVE  StartInv'
<1> DEFINE t == x8[s].t
           w == x8[s].w
<1>1. x8[s] # Idle /\ x8[s].step = "principal" /\ UNCHANGED <<x2, x4, x6, x12>>
  BY DEF Start!CreatePrincipal, Start!Steps
<1>2. CASE x7[t][w].principal
  BY <1>1, <1>2, Throws DEF Start!CreatePrincipal, Start!Row
<1>3. CASE ~x7[t][w].principal
  <2>1. x7' = [x7 EXCEPT ![t][w]["principal"] = TRUE] /\ Start!Goto(s, "charter")
    BY <1>3 DEF Start!CreatePrincipal, Start!Row, Start!Insert
  <2>2. t \in Tenants /\ w \in Watchers /\ x7 \in [Tenants -> [Watchers -> MintRow]]
        /\ x7[t][w] \in MintRow
    BY <1>1, AtWatcher
  <2> HIDE DEF t, w
  <2>3. /\ x7' \in [Tenants -> [Watchers -> MintRow]]
        /\ x7'[t][w] = [x7[t][w] EXCEPT !["principal"] = TRUE]
        /\ \A v \in Tenants, u \in Watchers : v # t \/ u # w => x7'[v][u] = x7[v][u]
    BY <2>1, <2>2, RowInserted
  <2>4. x7'[t][w].prompt = x7[t][w].prompt /\ x7'[t][w].charter = x7[t][w].charter
    BY <2>2, <2>3 DEF MintRow
  <2>5. \A v \in Tenants, u \in Watchers :
          /\ x7[v][u].charter => x7'[v][u].charter
          /\ x7'[v][u].prompt /\ ~x7'[v][u].charter =>
               \/ "charter" = "mint" /\ x8[s].t = v /\ x8[s].w = u
               \/ x7[v][u].prompt /\ ~x7[v][u].charter /\ ~Minting(s, v, u)
    BY <1>1, <2>3, <2>4 DEF Minting
  <2> QED BY <1>1, <2>1, <2>3, <2>5, GotoStep
<1> QED BY <1>2, <1>3

LEMMA LookUpCharterStep ==
  ASSUME StartInv, NEW s \in Actors, Start!LookUpCharter(s)
  PROVE  StartInv'
<1>1. /\ x8[s] # Idle /\ x8[s].step = "charter" /\ UNCHANGED <<x2, x4, x6, x7, x12>>
      /\ Start!Goto(s, IF Start!Row(s).charter THEN "pick" ELSE "prompt")
  BY DEF Start!LookUpCharter, Start!Steps
<1>2. x7' \in [Tenants -> [Watchers -> MintRow]]
  BY <1>1, AtWatcher
<1>3. \A v \in Tenants, u \in Watchers : ~Minting(s, v, u)
  BY <1>1 DEF Minting
<1>4. PICK step \in {"pick", "prompt"} : Start!Goto(s, step)
  BY <1>1
<1> QED BY <1>1, <1>2, <1>3, <1>4, GotoStep

LEMMA IngestPromptStep ==
  ASSUME StartInv, NEW s \in Actors, Start!IngestPrompt(s)
  PROVE  StartInv'
<1> DEFINE t == x8[s].t
           w == x8[s].w
<1>1. x8[s] # Idle /\ x8[s].step = "prompt" /\ UNCHANGED <<x2, x4, x6, x12>>
  BY DEF Start!IngestPrompt, Start!Steps
<1>2. CASE x7[t][w].prompt
  BY <1>1, <1>2, Throws DEF Start!IngestPrompt, Start!Row
<1>3. CASE ~x7[t][w].prompt
  <2>1. x7' = [x7 EXCEPT ![t][w]["prompt"] = TRUE] /\ Start!Goto(s, "mint")
    BY <1>3 DEF Start!IngestPrompt, Start!Row, Start!Insert
  <2>2. t \in Tenants /\ w \in Watchers /\ x7 \in [Tenants -> [Watchers -> MintRow]]
        /\ x7[t][w] \in MintRow
    BY <1>1, AtWatcher
  <2>d. t = x8[s].t /\ w = x8[s].w
    OBVIOUS
  <2> HIDE DEF t, w
  <2>3. /\ x7' \in [Tenants -> [Watchers -> MintRow]]
        /\ x7'[t][w] = [x7[t][w] EXCEPT !["prompt"] = TRUE]
        /\ \A v \in Tenants, u \in Watchers : v # t \/ u # w => x7'[v][u] = x7[v][u]
    BY <2>1, <2>2, RowInserted
  <2>4. x7'[t][w].charter = x7[t][w].charter
    BY <2>2, <2>3 DEF MintRow
  <2>5. \A v \in Tenants, u \in Watchers :
          /\ x7[v][u].charter => x7'[v][u].charter
          /\ x7'[v][u].prompt /\ ~x7'[v][u].charter =>
               \/ "mint" = "mint" /\ x8[s].t = v /\ x8[s].w = u
               \/ x7[v][u].prompt /\ ~x7[v][u].charter /\ ~Minting(s, v, u)
    BY <1>1, <2>3, <2>4, <2>d DEF Minting
  <2> QED BY <1>1, <2>1, <2>3, <2>5, GotoStep
<1> QED BY <1>2, <1>3

LEMMA CreateCharterStep ==
  ASSUME StartInv, NEW s \in Actors, Start!CreateCharter(s)
  PROVE  StartInv'
<1> DEFINE t == x8[s].t
           w == x8[s].w
<1>1. x8[s] # Idle /\ x8[s].step = "mint" /\ UNCHANGED <<x2, x4, x6, x12>>
  BY DEF Start!CreateCharter, Start!Steps
<1>2. CASE x7[t][w].charter
  BY <1>1, <1>2, Throws DEF Start!CreateCharter, Start!Row
<1>3. CASE ~x7[t][w].charter
  <2>1. x7' = [x7 EXCEPT ![t][w]["charter"] = TRUE] /\ Start!Goto(s, "pick")
    BY <1>3 DEF Start!CreateCharter, Start!Row, Start!Insert
  <2>2. t \in Tenants /\ w \in Watchers /\ x7 \in [Tenants -> [Watchers -> MintRow]]
        /\ x7[t][w] \in MintRow
    BY <1>1, AtWatcher
  <2>d. t = x8[s].t /\ w = x8[s].w
    OBVIOUS
  <2> HIDE DEF t, w
  <2>3. /\ x7' \in [Tenants -> [Watchers -> MintRow]]
        /\ x7'[t][w] = [x7[t][w] EXCEPT !["charter"] = TRUE]
        /\ \A v \in Tenants, u \in Watchers : v # t \/ u # w => x7'[v][u] = x7[v][u]
    BY <2>1, <2>2, RowInserted
  <2>4. x7'[t][w].charter
    BY <2>2, <2>3 DEF MintRow
  <2>5. \A v \in Tenants, u \in Watchers :
          /\ x7[v][u].charter => x7'[v][u].charter
          /\ x7'[v][u].prompt /\ ~x7'[v][u].charter =>
               x7[v][u].prompt /\ ~x7[v][u].charter /\ ~Minting(s, v, u)
    BY <1>1, <2>3, <2>4, <2>d DEF Minting
  <2> QED BY <1>1, <2>1, <2>3, <2>5, GotoStep
<1> QED BY <1>2, <1>3

LEMMA HostTenantStep ==
  ASSUME StartInv, NEW s \in Actors, Start!HostTenant(s)
  PROVE  StartInv'
<1>0. Start!TypeOK /\ JobSound(s)
  BY DEF StartInv, FleetInv
<1>1. x8[s] # Idle /\ x8[s].step = "pick" /\ UNCHANGED <<x2, x4, x6, x7, x12>>
  BY DEF Start!HostTenant, Start!Steps
<1>t. PICK t \in Tenants : t = x8[s].t
  BY <1>0, <1>1, StartTypes DEF Start!TenantJobs
<1> DEFINE fleet == {t} \X Watchers
<1>2. CASE \E w \in Watchers : ~x7[t][w].charter
  BY <1>1, <1>t, <1>2, Throws DEF Start!HostTenant
<1>3. CASE \A w \in Watchers : x7[t][w].charter
  <2>1. /\ x9' = [x9 EXCEPT ![s] = @ \cup fleet] /\ Start!NextTenant(s)
        /\ UNCHANGED <<x3, x5, x11>>
    BY <1>t, <1>3 DEF Start!HostTenant
  <2>2. x8[s] \in Start!TenantJobs /\ x9[s] \subseteq Tenants \X Watchers
    BY <1>0, <1>1, StartTypes DEF Start!TenantJobs
  <2>3. fleet \subseteq Tenants \X Watchers /\ \A w \in Watchers : <<t, w>> \in fleet
    BY <2>2
  <2> HIDE DEF fleet
  <2>4. /\ x9' \in [Actors -> SUBSET (Tenants \X Watchers)]
        /\ x9'[s] = x9[s] \cup fleet /\ \A q \in Actors \ {s} : x9'[q] = x9[q]
    <3>1. x9 \in [Actors -> SUBSET (Tenants \X Watchers)]
      BY <1>0, StartTypes
    <3>2. x9[s] \cup fleet \subseteq Tenants \X Watchers
      BY <2>2, <2>3
    <3> QED BY <2>1, <3>1, <3>2
  <2>5. /\ \A v \in x11[s] : Covering(s, v) => Covering(s, v)'
        /\ Covering(s, t)'
    <3>1. x11[s] \subseteq Tenants
      BY <1>0, StartTypes
    <3> QED BY <1>1, <1>3, <2>3, <2>4, <3>1 DEF Covering
  <2>6. /\ JobSound(s)' /\ x10' \subseteq x6
        /\ x1' \in [Actors -> {"down", "migrate", "seed", "sweep", "up"}]
        /\ x8' \in [Actors -> Start!TenantJobs \cup {Idle}]
        /\ \A q \in Actors \ {s} : x1'[q] = x1[q] /\ x8'[q] = x8[q]
        /\ x1'[s] \in Up => x1[s] \in Up
        /\ x1'[s] # "seed" /\ x1[s] # "seed" /\ x1'[s] # "down"
    <3>0. /\ x8 \in [Actors -> Start!TenantJobs \cup {Idle}]
          /\ x1 \in [Actors -> {"down", "migrate", "seed", "sweep", "up"}] /\ x10 \subseteq x6
      BY <1>0, StartTypes
    <3>1. x1[s] \in {"sweep", "up"}
      BY <1>0, <1>1 DEF JobSound
    <3>2. CASE x8[s].rest # {}
      <4>1. PICK v \in x8[s].rest :
              x8' = [x8 EXCEPT ![s] = Start!StartTenant(v, x8[s].rest \ {v}, x8[s].kind)]
        BY <2>1, <3>2 DEF Start!NextTenant
      <4>2. UNCHANGED <<x1, x10>>
        BY <2>1, <3>2 DEF Start!NextTenant
      <4> DEFINE j == Start!StartTenant(v, x8[s].rest \ {v}, x8[s].kind)
      <4>3. x8[s].rest \subseteq Tenants /\ x8[s].kind \in {"boot", "event"}
        BY <2>2 DEF Start!TenantJobs
      <4>4. /\ j \in Start!TenantJobs /\ j # Idle /\ j.kind = x8[s].kind
            /\ j.rest = x8[s].rest \ {v} /\ j.t = v /\ j.step = "pick"
        BY <4>3, TenantStarts
      <4> HIDE DEF j
      <4>5. /\ x8' \in [Actors -> Start!TenantJobs \cup {Idle}] /\ x8'[s] = j
            /\ \A q \in Actors \ {s} : x8'[q] = x8[q]
        BY <3>0, <4>1, <4>4 DEF j
      <4>6. JobSound(s)'
        <5>1. ASSUME NEW u \in x11[s], x1[s] = "sweep"
              PROVE  u = v \/ u \in x8[s].rest \ {v} \/ Covering(s, u)'
          BY <1>0, <1>t, <2>5, <5>1 DEF JobSound
        <5>2. x1[s] = "up" => \A u \in x11[s] : Covering(s, u)'
          BY <1>0, <2>5 DEF JobSound
        <5>3. /\ x1[s] \in {"sweep", "up"} /\ (x8[s].kind = "boot" <=> x1[s] = "sweep")
              /\ x8[s].rest \subseteq x6
          BY <1>0, <1>1 DEF JobSound
        <5>4. x11' = x11 /\ x1' = x1 /\ x6' = x6
          BY <1>1, <2>1, <4>2
        <5> HIDE DEF Covering
        <5> QED BY <4>4, <4>5, <5>1, <5>2, <5>3, <5>4 DEF JobSound
      <4> QED BY <3>0, <3>1, <4>2, <4>5, <4>6
    <3>3. CASE x8[s].rest = {} /\ x8[s].kind = "boot"
      <4>1. /\ x8' = [x8 EXCEPT ![s] = Idle] /\ x1' = [x1 EXCEPT ![s] = "up"] /\ x10' = x10
        BY <2>1, <3>3 DEF Start!NextTenant
      <4>2. /\ x8' \in [Actors -> Start!TenantJobs \cup {Idle}] /\ x8'[s] = Idle /\ x1'[s] = "up"
            /\ x1' \in [Actors -> {"down", "migrate", "seed", "sweep", "up"}]
            /\ \A q \in Actors \ {s} : x1'[q] = x1[q] /\ x8'[q] = x8[q]
        BY <3>0, <4>1
      <4>3. JobSound(s)'
        <5>1. x1[s] = "sweep" /\ x11' = x11
          BY <1>0, <1>1, <2>1, <3>3 DEF JobSound
        <5>2. \A u \in x11[s] : Covering(s, u)'
          BY <1>0, <1>t, <2>5, <3>3, <5>1 DEF JobSound
        <5> QED BY <4>2, <5>1, <5>2 DEF JobSound
      <4> QED BY <3>0, <3>1, <4>1, <4>2, <4>3 DEF Up
    <3>4. CASE x8[s].rest = {} /\ x8[s].kind # "boot"
      <4>1. /\ x8' = [x8 EXCEPT ![s] = Idle] /\ x1' = x1 /\ x10' = x10 \cup {t}
        BY <1>t, <2>1, <3>4 DEF Start!NextTenant
      <4>2. /\ x8' \in [Actors -> Start!TenantJobs \cup {Idle}] /\ x8'[s] = Idle
            /\ \A q \in Actors \ {s} : x1'[q] = x1[q] /\ x8'[q] = x8[q]
        BY <3>0, <4>1
      <4>3. JobSound(s)'
        BY <1>0, <1>1, <2>1, <2>5, <3>4, <4>1, <4>2, <1>t DEF JobSound
      <4>4. x10' \subseteq x6
        BY <1>0, <1>1, <1>t, <3>0, <4>1 DEF JobSound
      <4> QED BY <3>0, <3>1, <4>1, <4>2, <4>3, <4>4 DEF Up
    <3> QED BY <3>2, <3>3, <3>4
  <2>7. Start!TypeOK'
    BY <1>0, <1>1, <2>1, <2>4, <2>6 DEF Start!TypeOK
  <2>8. SchemaInv'
    BY <1>1, <2>1, <2>6, SchemaStays DEF StartInv
  <2>9. SeedInv'
    BY <1>1, <2>1, <2>6, SeedStays DEF StartInv
  <2>10. \A v \in Tenants, w \in Watchers : ~Minting(s, v, w)
    BY <1>1 DEF Minting
  <2>11. FleetInv'
    BY <1>0, <1>1, <2>1, <2>4, <2>6, <2>10, FleetMoves, StartTypes DEF StartInv
  <2> QED BY <2>7, <2>8, <2>9, <2>11 DEF StartInv
<1> QED BY <1>2, <1>3

LEMMA CreateTenantStep ==
  ASSUME StartInv, NEW t \in Tenants, Start!CreateTenant(t)
  PROVE  StartInv'
<1>1. x6' = x6 \cup {t} /\ UNCHANGED <<x1, x2, x3, x4, x5, x7, x8, x9, x10, x11, x12>>
  BY DEF Start!CreateTenant
<1>2. Start!TypeOK'
  BY <1>1 DEF StartInv, Start!TypeOK
<1>3. SchemaInv' /\ SeedInv'
  BY <1>1, SchemaStays, SeedStays DEF StartInv
<1>4. FleetInv'
  BY <1>1 DEF StartInv, FleetInv, FleetsOwned, JobSound, Covering
<1> QED BY <1>2, <1>3, <1>4 DEF StartInv

LEMMA CrashStep ==
  ASSUME StartInv, NEW s \in Actors, Start!Crash(s)
  PROVE  StartInv'
<1>1. x12 \in Nat /\ x12' = x12 + 1
  BY StartTypes DEF StartInv, Start!Crash
<1>2. x12' \in Nat /\ x12' # 0
  BY <1>1
<1> QED BY <1>2, DownStep DEF Start!Crash

LEMMA StatementFailsStep ==
  ASSUME StartInv, NEW s \in Actors, Start!StatementFails(s)
  PROVE  StartInv'
<1>1. x12 \in Nat /\ x12' = x12 + 1
  BY StartTypes DEF StartInv, Start!StatementFails
<1>2. x12' \in Nat /\ x12' # 0
  BY <1>1
<1> QED BY <1>2, ThrowStep DEF Start!StatementFails

LEMMA StartStays ==
  ASSUME StartInv, UNCHANGED <<x1, x2, x3, x4, x5, x6, x7, x8, x9, x10, x11, x12>>
  PROVE  StartInv'
<1>1. Start!TypeOK'
  BY DEF StartInv, Start!TypeOK
<1>2. SchemaInv' /\ SeedInv'
  BY SchemaStays, SeedStays DEF StartInv
<1>3. FleetInv'
  BY DEF StartInv, FleetInv, FleetsOwned, JobSound, Covering
<1> QED BY <1>1, <1>2, <1>3 DEF StartInv

LEMMA StartStep == StartInv /\ [Start!Next]_(Start!vars) => StartInv'
<1> SUFFICES ASSUME StartInv, [Start!Next]_(Start!vars) PROVE StartInv'
  OBVIOUS
<1>1. ASSUME NEW s \in Actors, Start!NodeStep(s) PROVE StartInv'
  BY <1>1, StartNodeStep, ReadLedgerStep, ApplyFileStep, CommitModuleStep, MigratedStep,
     SeedSkillStep, SweepTenantsStep, HandleTenantStep, LookUpPrincipalStep,
     CreatePrincipalStep, LookUpCharterStep, IngestPromptStep, CreateCharterStep,
     HostTenantStep DEF Start!NodeStep
<1>2. CASE UNCHANGED <<x1, x2, x3, x4, x5, x6, x7, x8, x9, x10, x11, x12>>
  BY <1>2, StartStays
<1> QED BY <1>1, <1>2, CrashStep, StatementFailsStep, CreateTenantStep
        DEF Start!Next, Start!vars

LEMMA StartInvariant == Spec => [](service = "boot" => StartInv)
<1> DEFINE Inv == service = "boot" => StartInv
<1>1. Init => Inv
  BY StartBegins DEF Init
<1>2. Inv /\ [Next]_vars => Inv'
  BY StartStep DEF Next, vars, Start!vars
<1> QED BY <1>1, <1>2, PTL DEF Spec

(* Servers of different builds migrate at once, each module in a           *)
(* transaction of its own, and die on the way; a file is still applied     *)
(* once and behind all that some build puts before it, and no server goes  *)
(* on without the whole schema of its build (db/migrate.ts, main.ts: boot).*)
THEOREM SchemasAreMigratedOnce == Spec => []MigratedOnce
<1>1. StartInv => Start!MigratedOnce
  <2> SUFFICES ASSUME StartInv PROVE Start!MigratedOnce
    OBVIOUS
  <2>1. LedgerSound(x2)
    BY DEF StartInv, SchemaInv
  <2>2. ASSUME NEW s \in Actors, x1[s] \in Up
        PROVE  /\ x3[s] # Idle
               /\ Start!Behind(x3[s].plan, Len(x3[s].plan) + 1, 1, Written)
    <3> DEFINE r == x3[s] p == r.plan
    <3>1. r # Idle /\ r.m = Len(p) + 1
      BY <2>2 DEF StartInv, SchemaInv, SchemaWhole
    <3>2. RowSound(r, Written)
      BY <3>1 DEF StartInv, SchemaInv, MigrationSound
    <3>3. r \in MigrationRow
      BY <3>1, StartTypes DEF StartInv
    <3>4. p \in Plans /\ Len(p) \in Nat
      BY <3>3, StartConstants DEF MigrationRow
    <3>5. Written \cup FirstNew(r, Len(r.new)) = Written
      <4>1. r.new = <<>> /\ \A h \in 1..Len(<<>>) : FALSE
        BY <3>1, <3>2 DEF RowSound
      <4> HIDE DEF r
      <4> QED BY <4>1 DEF FirstNew
    <3>6. Start!Behind(p, Len(p) + 1, r.f, Written)
      BY <3>1, <3>2, <3>5 DEF RowSound
    <3>7. Start!Behind(p, Len(p) + 1, 1, Written)
      <4> HIDE DEF p, r
      <4>1. \A n \in 1..Len(p) : n < Len(p) + 1
        BY <3>4
      <4> QED BY <3>6, <4>1 DEF Start!Behind
    <3> QED BY <3>1, <3>7
  <2> QED BY <2>1, <2>2 DEF LedgerSound, Built, Written, Up, Start!MigratedOnce
<1>2. (service = "boot" => StartInv) => MigratedOnce
  BY <1>1 DEF MigratedOnce
<1> QED BY <1>2, StartInvariant, PTL

(* Tenants appear while servers sweep, the servers mint the same fleets,   *)
(* and an error ends a boot half way: a server that is up covers what its  *)
(* sweep listed, and without a fault whatever is half made is in the hands *)
(* of a server that will finish it (sentinel/service.ts: ensureDefaults;   *)
(* skills/seed.ts).                                                        *)
THEOREM FleetsStayWhole == Spec => []FleetsAreWhole
<1>1. StartInv => Start!UpServersCoverTenants
  BY DEF StartInv, FleetInv, JobSound, Covering, Start!UpServersCoverTenants
<1>2. StartInv => Start!OnlyFaultsLeaveOrphans
  BY DEF StartInv, FleetInv, FleetsOwned, SeedInv, SeedsOwned, Start!OnlyFaultsLeaveOrphans,
         Start!Steps
<1>3. (service = "boot" => StartInv) => FleetsAreWhole
  BY <1>1, <1>2 DEF FleetsAreWhole
<1> QED BY <1>3, StartInvariant, PTL

-----------------------------------------------------------------------------
(* Skills: x1 is version, x2 request, x3 current, x4 build, x5 call, x6    *)
(* tick, x7 fired, x8 runs, x9 minute, x10 life, x11 activator.            *)

ApprovedOnce == {"approved", "superseded"}

CallRow ==
  [op: {"ask", "link", "check", "retire", "invoke"}, on: Servers, v: Skill!Versions, run: Nat]
    \cup [op: {"wait", "switch"}, on: Servers, v: Skill!Versions \X SUBSET Skill!Versions, run: Nat]
    \cup {Idle}

TickRow == [at: Nat, todo: SUBSET Skill!Versions, run: Nat] \cup {Idle}

RunRow == [version: Skill!Versions, trigger: {"schedule", "tool"}, at: Nat,
           by: Servers \X Nat, code: Manifests \cup {None},
           status: {"running", "succeeded", "failed"}]

(* A version was approved before it was ever active, and nobody is asked   *)
(* about a version that does not exist.                                    *)
Registered(v) ==
  /\ x1[v] # None /\ x1[v].status \in {"active", "retired"} => x2[v] \in ApprovedOnce
  /\ x2[v] # "absent" => x1[v] # None

(* What a call in progress has read stays true until it acts on it: no     *)
(* approval is taken back, and its server's build changes with its life.   *)
CallSound(c) ==
  x5[c] # Idle =>
    /\ x5[c].op \notin {"wait", "switch"} => x1[x5[c].v] # None
    /\ x5[c].op = "ask" => x2[x5[c].v] = "absent"
    /\ x5[c].op \in {"retire", "invoke"} => x2[x5[c].v] \in ApprovedOnce
    /\ x5[c].op = "retire" => x4[x5[c].on][x5[c].v[1]] = x1[x5[c].v].manifest
    /\ x5[c].op \in {"wait", "switch"} =>
         /\ x1[x5[c].v[1]] # None /\ x2[x5[c].v[1]] \in ApprovedOnce
         /\ x4[x5[c].on][x5[c].v[1][1]] = x1[x5[c].v[1]].manifest
         /\ \A w \in x5[c].v[2] :
              w[1] = x5[c].v[1][1] /\ x1[w] # None /\ x2[w] \in ApprovedOnce

(* Two proposals never create one version. *)
AskOnce ==
  \A c, d \in Actors :
    /\ x5[c] # Idle /\ x5[c].op = "ask" /\ x5[d] # Idle /\ x5[d].op = "ask"
    /\ x5[c].v = x5[d].v
    => c = d

(* While the server that activated a version lives, its build is the one   *)
(* the version was compared with.                                          *)
ActivatorSound(v) ==
  x11[v] # None =>
    /\ x1[v] # None /\ x11[v][2] <= x10[x11[v][1]]
    /\ x11[v][2] = x10[x11[v][1]] => x4[x11[v][1]][v[1]] = x1[v].manifest

(* A run is of an approved version, runs the code of a build that its      *)
(* server keeps while it lives, and is remembered by it as fired.          *)
RunSound(i) ==
  /\ x1[x8[i].version] # None /\ x2[x8[i].version] \in ApprovedOnce
  /\ x8[i].by[2] <= x10[x8[i].by[1]]
  /\ x8[i].by[2] = x10[x8[i].by[1]] => x8[i].code = x4[x8[i].by[1]][x8[i].version[1]]
  /\ x8[i].by = x11[x8[i].version] => x8[i].code = x1[x8[i].version].manifest
  /\ x8[i].by[2] = x10[x8[i].by[1]] /\ x8[i].trigger = "schedule" =>
       /\ x7[x8[i].by[1]][x8[i].version[1]] # None
       /\ x8[i].at <= x7[x8[i].by[1]][x8[i].version[1]]

RunsSound == \A i \in 1..Len(x8) : RunSound(i)

(* What a tick has still to fire is approved, of different skills, and not *)
(* fired in its minute.                                                    *)
TickSound(s) ==
  /\ \A g \in Slugs : x7[s][g] # None => x7[s][g] <= x9
  /\ x6[s] # Idle =>
       /\ x6[s].at <= x9
       /\ \A g \in Slugs : x7[s][g] # None => x7[s][g] <= x6[s].at
       /\ \A v \in x6[s].todo : x1[v] # None /\ x2[v] \in ApprovedOnce
       /\ \A v, w \in x6[s].todo : v[1] = w[1] => v = w
       /\ \A i \in 1..Len(x8), v \in x6[s].todo :
            /\ x8[i].trigger = "schedule" /\ x8[i].at = x6[s].at /\ x8[i].by = <<s, x10[s]>>
            => x8[i].version[1] # v[1]

SkillInv ==
  /\ Skill!TypeOK /\ Skill!CurrentIsActive /\ Skill!FiresOnceAMinute
  /\ \A v \in Skill!Versions : Registered(v) /\ ActivatorSound(v)
  /\ \A c \in Actors : CallSound(c)
  /\ AskOnce /\ RunsSound
  /\ \A s \in Servers : TickSound(s)

(* No step takes a version or an approval away. *)
Kept ==
  \A v \in Skill!Versions :
    /\ x1[v] # None => x1'[v] # None /\ x1'[v].manifest = x1[v].manifest
    /\ x2[v] \in ApprovedOnce => x2'[v] \in ApprovedOnce

LEMMA SkillTypes ==
  ASSUME SkillInv
  PROVE  /\ x1 \in [Skill!Versions -> Skill!Rows \cup {None}]
         /\ x2 \in [Skill!Versions -> Skill!RequestStates \cup {"absent"}]
         /\ x3 \in [Slugs -> Skill!Versions \cup {None}] /\ x4 \in [Servers -> Builds]
         /\ x5 \in [Actors -> CallRow] /\ x6 \in [Servers -> TickRow]
         /\ x7 \in [Servers -> [Slugs -> Nat \cup {None}]] /\ x8 \in Seq(RunRow)
         /\ x9 \in Nat /\ x10 \in [Servers -> Nat]
         /\ x11 \in [Skill!Versions -> (Servers \X Nat) \cup {None}]
BY DEF SkillInv, Skill!TypeOK, CallRow, TickRow, RunRow

LEMMA SkillConstants ==
  /\ Answers \subseteq Skill!Verdicts /\ Cron \in [Manifests -> SUBSET Nat]
  /\ Builds \subseteq [Slugs -> Manifests \cup {None}]
  /\ None \notin Manifests /\ None \notin Skill!Rows
  /\ None \notin Servers \X Nat /\ None \notin Nat
BY ServicesAssumption DEF Skill!SkillsAssumption

LEMMA SkillBegins == Skill!Init => SkillInv
<1> SUFFICES ASSUME Skill!Init PROVE SkillInv
  OBVIOUS
<1>1. Skill!TypeOK
  BY SkillConstants DEF Skill!Init, Skill!TypeOK
<1>2. x8 = <<>> /\ Len(x8) = 0 /\ \A i \in 1..Len(x8) : FALSE
  BY DEF Skill!Init
<1>3. Skill!CurrentIsActive
  BY DEF Skill!Init, Skill!CurrentIsActive
<1>4. Skill!FiresOnceAMinute /\ RunsSound
  BY <1>2 DEF Skill!FiresOnceAMinute, RunsSound
<1>5. AskOnce /\ \A c \in Actors : CallSound(c)
  BY DEF Skill!Init, AskOnce, CallSound
<1>6. \A v \in Skill!Versions : Registered(v) /\ ActivatorSound(v)
  BY DEF Skill!Init, Registered, ActivatorSound, ApprovedOnce
<1>7. \A s \in Servers : TickSound(s)
  BY DEF Skill!Init, TickSound
<1> QED BY <1>1, <1>3, <1>4, <1>5, <1>6, <1>7 DEF SkillInv

(* A call that does not move stays sound while its server lives. *)
LEMMA CallStays ==
  ASSUME SkillInv, Kept, NEW c \in Actors, x5'[c] = x5[c],
         x5[c] # Idle => /\ x4'[x5[c].on] = x4[x5[c].on]
                         /\ x5[c].op = "ask" => x2'[x5[c].v] = "absent"
  PROVE  CallSound(c)'
<1>1. CallSound(c) /\ x5[c] \in CallRow
  BY SkillTypes DEF SkillInv
<1>2. CASE x5[c] = Idle
  BY <1>2 DEF CallSound
<1>3. CASE x5[c] # Idle /\ x5[c].op \in {"wait", "switch"}
  <2>1. x5[c].v \in Skill!Versions \X SUBSET Skill!Versions
    BY <1>1, <1>3 DEF CallRow
  <2>2. x5[c].v[1] \in Skill!Versions /\ \A w \in x5[c].v[2] : w \in Skill!Versions
    BY <2>1
  <2> QED BY <1>1, <1>3, <2>2 DEF CallSound, Kept
<1>4. CASE x5[c] # Idle /\ x5[c].op \notin {"wait", "switch"}
  <2>1. x5[c].v \in Skill!Versions
    BY <1>1, <1>4 DEF CallRow
  <2> QED BY <1>1, <1>4, <2>1 DEF CallSound, Kept
<1> QED BY <1>2, <1>3, <1>4

(* Runs stay what they are when the registry moves on and no server dies.  *)
LEMMA RunsStay ==
  ASSUME SkillInv, Kept, UNCHANGED <<x4, x7, x8, x10, x11>>
  PROVE  RunsSound' /\ Skill!FiresOnceAMinute'
<1>0. x8 \in Seq(RunRow) /\ \A r \in RunRow : r.version \in Skill!Versions
  BY SkillTypes DEF RunRow
<1>1. \A i \in 1..Len(x8) : x8[i].version \in Skill!Versions
  BY <1>0
<1>2. RunsSound'
  BY <1>1 DEF SkillInv, RunsSound, RunSound, Kept
<1>3. Skill!FiresOnceAMinute'
  BY DEF SkillInv, Skill!FiresOnceAMinute
<1> QED BY <1>2, <1>3

LEMMA TickStays ==
  ASSUME SkillInv, Kept, NEW s \in Servers, x6'[s] = x6[s], x7'[s] = x7[s],
         x10'[s] = x10[s], x8' = x8, x9' = x9
  PROVE  TickSound(s)'
<1>1. x6[s] # Idle => x6[s].todo \subseteq Skill!Versions
  BY SkillTypes DEF TickRow
<1> QED BY <1>1 DEF SkillInv, TickSound, Kept

(* A step of a call on the registry. *)
LEMMA CallStep ==
  ASSUME SkillInv, Kept, Skill!TypeOK', UNCHANGED <<x3, x4, x6, x7, x8, x9, x10, x11>>,
         \A v \in Skill!Versions : Registered(v)',
         \A v \in Skill!Versions :
           x1[v] # None /\ x1[v].status = "active" => x1'[v].status = "active",
         \A c \in Actors : CallSound(c)', AskOnce'
  PROVE  SkillInv'
<1>1. Skill!CurrentIsActive'
  BY DEF SkillInv, Skill!CurrentIsActive, Skill!ActiveVersions, Kept
<1>2. RunsSound' /\ Skill!FiresOnceAMinute'
  BY RunsStay
<1>3. \A s \in Servers : TickSound(s)'
  BY TickStays
<1>4. \A v \in Skill!Versions : ActivatorSound(v)'
  BY DEF SkillInv, ActivatorSound, Kept
<1> QED BY <1>1, <1>2, <1>3, <1>4 DEF SkillInv

(* A call that reads or returns: the registry stays. *)
LEMMA CallMoves ==
  ASSUME SkillInv, NEW c \in Actors, NEW new \in CallRow, x5' = [x5 EXCEPT ![c] = new],
         new = Idle \/ new.op # "ask", CallSound(c)',
         UNCHANGED <<x1, x2, x3, x4, x6, x7, x8, x9, x10, x11>>
  PROVE  SkillInv'
<1>0. x5 \in [Actors -> CallRow]
  BY SkillTypes
<1>1. x5' \in [Actors -> CallRow]
  BY <1>0
<1>2. Skill!TypeOK'
  BY <1>1 DEF SkillInv, Skill!TypeOK, CallRow
<1>3. Kept
  BY DEF Kept
<1>4. \A d \in Actors \ {c} : CallSound(d)'
  <2> TAKE d \in Actors \ {c}
  <2>1. x5'[d] = x5[d]
    BY <1>0
  <2>2. CallSound(d)
    BY DEF SkillInv
  <2> QED BY <2>1, <2>2 DEF CallSound
<1>5. AskOnce'
  BY <1>0 DEF SkillInv, AskOnce
<1>6. \A v \in Skill!Versions : Registered(v)'
  BY DEF SkillInv, Registered
<1> QED BY <1>2, <1>3, <1>4, <1>5, <1>6, CallStep

LEMMA ReturnStep ==
  ASSUME SkillInv, NEW c \in Actors, Skill!Return(c),
         UNCHANGED <<x1, x2, x3, x4, x6, x7, x8, x9, x10, x11>>
  PROVE  SkillInv'
<1>1. x5' = [x5 EXCEPT ![c] = Idle] /\ Idle \in CallRow
  BY DEF Skill!Return, CallRow
<1>2. x5'[c] = Idle
  BY <1>1, SkillTypes
<1>3. CallSound(c)'
  BY <1>2 DEF CallSound
<1> QED BY <1>1, <1>3, CallMoves

LEMMA LoadStep ==
  ASSUME SkillInv, NEW c \in Actors, NEW s \in Servers, NEW v \in Skill!Versions,
         Skill!LoadVersion(c, s, v)
  PROVE  SkillInv'
<1> DEFINE new == [op |-> "check", on |-> s, v |-> v, run |-> 0]
<1>1. x5' = [x5 EXCEPT ![c] = new] /\ x1[v] # None
      /\ UNCHANGED <<x1, x2, x3, x4, x6, x7, x8, x9, x10, x11>>
  BY DEF Skill!LoadVersion, Skill!Hold, Skill!registry
<1>2. new \in CallRow /\ new.op = "check" /\ new.v = v
  BY DEF CallRow
<1> HIDE DEF new
<1>3. x5'[c] = new
  BY <1>1, SkillTypes
<1>4. CallSound(c)'
  BY <1>1, <1>2, <1>3 DEF CallSound
<1> QED BY <1>1, <1>2, <1>4, CallMoves

LEMMA CallToolStep ==
  ASSUME SkillInv, NEW c \in Actors, NEW s \in Servers, NEW g \in Slugs,
         Skill!CallTool(c, s, g)
  PROVE  SkillInv'
<1> DEFINE v == x3[g]
           new == [op |-> "invoke", on |-> s, v |-> v, run |-> 0]
<1>1. x5' = [x5 EXCEPT ![c] = new] /\ v # None
      /\ UNCHANGED <<x1, x2, x3, x4, x6, x7, x8, x9, x10, x11>>
  BY DEF Skill!CallTool, Skill!Hold, Skill!registry
<1>2. v \in Skill!Versions /\ x1[v] # None /\ x2[v] \in ApprovedOnce
  BY <1>1 DEF SkillInv, Skill!CurrentIsActive, Skill!ActiveVersions, Registered
<1>3. new \in CallRow /\ new.op = "invoke" /\ new.v = v
  BY <1>2 DEF CallRow
<1> HIDE DEF new, v
<1>4. x5'[c] = new
  BY <1>1, SkillTypes
<1>5. CallSound(c)'
  BY <1>1, <1>2, <1>3, <1>4 DEF CallSound
<1> QED BY <1>1, <1>3, <1>5, CallMoves

LEMMA CheckApprovedStep ==
  ASSUME SkillInv, NEW c \in Actors, Skill!CheckApproved(c)
  PROVE  SkillInv'
<1> DEFINE v == x5[c].v
           new == [op |-> "retire", on |-> x5[c].on, v |-> v, run |-> 0]
<1>1. x5[c] # Idle /\ x5[c].op = "check"
      /\ UNCHANGED <<x1, x2, x3, x4, x6, x7, x8, x9, x10, x11>>
  BY DEF Skill!CheckApproved, Skill!Holds, Skill!registry
<1>2. x5[c] \in CallRow /\ CallSound(c)
  BY SkillTypes DEF SkillInv
<1>3. x5[c].on \in Servers /\ v \in Skill!Versions /\ x1[v] # None
  BY <1>1, <1>2 DEF CallRow, CallSound
<1>4. CASE x2[v] = "approved" /\ x4[x5[c].on][v[1]] = x1[v].manifest
  <2>1. x5' = [x5 EXCEPT ![c] = new]
    BY <1>4 DEF Skill!CheckApproved, Skill!Hold
  <2>2. new \in CallRow /\ new.op = "retire" /\ new.v = v /\ new.on = x5[c].on
    BY <1>3 DEF CallRow
  <2> HIDE DEF new, v
  <2>3. x5'[c] = new
    BY <2>1, SkillTypes
  <2>4. CallSound(c)'
    BY <1>1, <1>3, <1>4, <2>2, <2>3 DEF CallSound, ApprovedOnce
  <2> QED BY <1>1, <2>1, <2>2, <2>4, CallMoves
<1>5. CASE ~(x2[v] = "approved" /\ x4[x5[c].on][v[1]] = x1[v].manifest)
  <2>1. Skill!Return(c)
    BY <1>5 DEF Skill!CheckApproved
  <2> QED BY <1>1, <2>1, ReturnStep
<1> QED BY <1>4, <1>5

LEMMA RetireStep ==
  ASSUME SkillInv, NEW c \in Actors, Skill!RetireActive(c)
  PROVE  SkillInv'
<1> DEFINE v == x5[c].v
           old == Skill!ActiveVersions(v[1])
           new == [op |-> "wait", on |-> x5[c].on, v |-> <<v, old>>, run |-> 0]
<1>1. x5[c] # Idle /\ x5[c].op = "retire" /\ x5' = [x5 EXCEPT ![c] = new]
      /\ UNCHANGED <<x1, x2, x3, x4, x6, x7, x8, x9, x10, x11>>
  BY DEF Skill!RetireActive, Skill!Holds, Skill!Hold, Skill!registry
<1>2. x5[c] \in CallRow /\ CallSound(c)
  BY SkillTypes DEF SkillInv
<1>3. x5[c].on \in Servers /\ v \in Skill!Versions /\ x1[v] # None /\ x2[v] \in ApprovedOnce
      /\ x4[x5[c].on][v[1]] = x1[v].manifest
  BY <1>1, <1>2 DEF CallRow, CallSound
<1>4. \A w \in old : w \in Skill!Versions /\ w[1] = v[1] /\ x1[w] # None /\ x2[w] \in ApprovedOnce
  BY DEF SkillInv, Skill!ActiveVersions, Registered
<1> HIDE DEF old
<1>5. old \in SUBSET Skill!Versions
  BY <1>4
<1>6. new \in CallRow /\ new.op = "wait" /\ new.v = <<v, old>> /\ new.on = x5[c].on
  BY <1>3, <1>5 DEF CallRow
<1> HIDE DEF new, v
<1>7. x5'[c] = new
  BY <1>1, SkillTypes
<1>8. CallSound(c)'
  BY <1>1, <1>3, <1>4, <1>6, <1>7 DEF CallSound
<1> QED BY <1>1, <1>6, <1>8, CallMoves

LEMMA LockStep ==
  ASSUME SkillInv, NEW c \in Actors, Skill!LockActive(c)
  PROVE  SkillInv'
<1> DEFINE v == x5[c].v[1]
           old == x5[c].v[2] \cap Skill!ActiveVersions(v[1])
           new == [op |-> "switch", on |-> x5[c].on, v |-> <<v, old>>, run |-> 0]
<1>1. x5[c] # Idle /\ x5[c].op = "wait" /\ x5' = [x5 EXCEPT ![c] = new]
      /\ UNCHANGED <<x1, x2, x3, x4, x6, x7, x8, x9, x10, x11>>
  BY DEF Skill!LockActive, Skill!Holds, Skill!Hold, Skill!registry
<1>2. x5[c] \in CallRow /\ CallSound(c)
  BY SkillTypes DEF SkillInv
<1>3. x5[c].on \in Servers /\ v \in Skill!Versions /\ x1[v] # None /\ x2[v] \in ApprovedOnce
      /\ x4[x5[c].on][v[1]] = x1[v].manifest
  BY <1>1, <1>2 DEF CallRow, CallSound
<1>4. \A w \in old : w \in Skill!Versions /\ w[1] = v[1] /\ x1[w] # None /\ x2[w] \in ApprovedOnce
  BY DEF SkillInv, Skill!ActiveVersions, Registered
<1> HIDE DEF old
<1>5. old \in SUBSET Skill!Versions
  BY <1>4
<1>6. new \in CallRow /\ new.op = "switch" /\ new.v = <<v, old>> /\ new.on = x5[c].on
  BY <1>3, <1>5 DEF CallRow
<1> HIDE DEF new, v
<1>7. x5'[c] = new
  BY <1>1, SkillTypes
<1>8. CallSound(c)'
  BY <1>1, <1>3, <1>4, <1>6, <1>7 DEF CallSound
<1> QED BY <1>1, <1>6, <1>8, CallMoves

LEMMA ProposeStep ==
  ASSUME SkillInv, NEW c \in Actors, NEW s \in Servers, NEW v \in Skill!Versions,
         NEW m \in Manifests, Skill!Propose(c, s, v, m)
  PROVE  SkillInv'
<1> DEFINE new == [op |-> "ask", on |-> s, v |-> v, run |-> 0]
           row == [status |-> "proposed", manifest |-> m, linked |-> FALSE]
<1>1. x5' = [x5 EXCEPT ![c] = new] /\ x1[v] = None /\ x1' = [x1 EXCEPT ![v] = row]
      /\ UNCHANGED <<x2, x3, x4, x6, x7, x8, x9, x10, x11>>
  BY DEF Skill!Propose, Skill!Hold
<1>3. new \in CallRow /\ new.op = "ask" /\ new.v = v /\ new.on = s
  BY DEF CallRow
<1>4. row \in Skill!Rows /\ row.status = "proposed"
  BY DEF Skill!Rows
<1> HIDE DEF new, row
<1>5. x5' \in [Actors -> CallRow] /\ x5'[c] = new /\ \A d \in Actors \ {c} : x5'[d] = x5[d]
  BY <1>1, <1>3, SkillTypes
<1>6. x1' \in [Skill!Versions -> Skill!Rows \cup {None}] /\ x1'[v] = row
      /\ \A w \in Skill!Versions \ {v} : x1'[w] = x1[w]
  BY <1>1, <1>4, SkillTypes
<1>7. row # None
  BY <1>4, SkillConstants
<1>8. Skill!TypeOK'
  BY <1>1, <1>5, <1>6 DEF SkillInv, Skill!TypeOK, CallRow
<1>9. Kept
  BY <1>1, <1>6, <1>7 DEF Kept
<1>10. x2[v] = "absent"
  BY <1>1 DEF SkillInv, Registered
<1>11. \A w \in Skill!Versions : Registered(w)'
  <2> TAKE w \in Skill!Versions
  <2>1. Registered(w)
    BY DEF SkillInv
  <2> QED BY <1>1, <1>4, <1>6, <1>7, <2>1 DEF Registered
<1>12. CallSound(c)'
  BY <1>1, <1>3, <1>5, <1>6, <1>7, <1>10 DEF CallSound
<1>13. \A d \in Actors \ {c} : CallSound(d)'
  <2> TAKE d \in Actors \ {c}
  <2>1. CallSound(d)
    BY DEF SkillInv
  <2>2. x5'[d] = x5[d] /\ x4' = x4 /\ x2' = x2
    BY <1>1, <1>5
  <2> QED BY <1>9, <2>1, <2>2, CallStays DEF CallSound
<1>14. \A d \in Actors \ {c} : x5[d] # Idle /\ x5[d].op = "ask" => x5[d].v # v
  BY <1>1 DEF SkillInv, CallSound
<1>15. AskOnce'
  BY <1>3, <1>5, <1>14 DEF SkillInv, AskOnce
<1>16. \A w \in Skill!Versions :
         x1[w] # None /\ x1[w].status = "active" => x1'[w].status = "active"
  BY <1>1, <1>6
<1> QED BY <1>1, <1>8, <1>9, <1>11, <1>12, <1>13, <1>15, <1>16, CallStep

LEMMA AskStep ==
  ASSUME SkillInv, NEW c \in Actors, Skill!AskApproval(c)
  PROVE  SkillInv'
<1> DEFINE v == x5[c].v
           new == [op |-> "link", on |-> x5[c].on, v |-> v, run |-> 0]
<1>1. x5[c] # Idle /\ x5[c].op = "ask" /\ x5' = [x5 EXCEPT ![c] = new]
      /\ x2' = [x2 EXCEPT ![v] = "pending"]
      /\ UNCHANGED <<x1, x3, x4, x6, x7, x8, x9, x10, x11>>
  BY DEF Skill!AskApproval, Skill!Holds, Skill!Hold
<1>2. x5[c] \in CallRow /\ CallSound(c)
  BY SkillTypes DEF SkillInv
<1>3. x5[c].on \in Servers /\ v \in Skill!Versions /\ x1[v] # None /\ x2[v] = "absent"
  BY <1>1, <1>2 DEF CallRow, CallSound
<1>4. new \in CallRow /\ new.op = "link" /\ new.v = v
  BY <1>3 DEF CallRow
<1>5. \A d \in Actors \ {c} : x5[d] # Idle /\ x5[d].op = "ask" => x5[d].v # v
  BY <1>1 DEF SkillInv, AskOnce
<1> HIDE DEF new, v
<1>6. x5' \in [Actors -> CallRow] /\ x5'[c] = new /\ \A d \in Actors \ {c} : x5'[d] = x5[d]
  BY <1>1, <1>4, SkillTypes
<1>7. x2' \in [Skill!Versions -> Skill!RequestStates \cup {"absent"}] /\ x2'[v] = "pending"
      /\ \A w \in Skill!Versions \ {v} : x2'[w] = x2[w]
  BY <1>1, <1>3, SkillTypes DEF Skill!RequestStates
<1>8. Skill!TypeOK'
  BY <1>1, <1>6, <1>7 DEF SkillInv, Skill!TypeOK, CallRow
<1>9. Kept
  BY <1>1, <1>3, <1>7 DEF Kept, ApprovedOnce
<1>10. \A w \in Skill!Versions : Registered(w)'
  <2> TAKE w \in Skill!Versions
  <2>1. Registered(w)
    BY DEF SkillInv
  <2> QED BY <1>1, <1>3, <1>7, <2>1 DEF Registered, ApprovedOnce
<1>11. CallSound(c)'
  BY <1>1, <1>3, <1>4, <1>6 DEF CallSound
<1>12. \A d \in Actors \ {c} : CallSound(d)'
  <2> TAKE d \in Actors \ {c}
  <2>1. CallSound(d) /\ x5[d] \in CallRow
    BY SkillTypes DEF SkillInv
  <2>2. x5[d] # Idle /\ x5[d].op = "ask" => x5[d].v \in Skill!Versions \ {v} /\ x2[x5[d].v] = "absent"
    BY <1>5, <2>1 DEF CallRow, CallSound
  <2> QED BY <1>1, <1>6, <1>7, <1>9, <2>2, CallStays
<1>13. AskOnce'
  BY <1>4, <1>6 DEF SkillInv, AskOnce
<1> QED BY <1>1, <1>8, <1>9, <1>10, <1>11, <1>12, <1>13, CallStep

LEMMA LinkStep ==
  ASSUME SkillInv, NEW c \in Actors, Skill!LinkApproval(c)
  PROVE  SkillInv'
<1> DEFINE v == x5[c].v
           row == [x1[v] EXCEPT !.linked = TRUE]
<1>1. x5[c] # Idle /\ x5[c].op = "link" /\ x5' = [x5 EXCEPT ![c] = Idle]
      /\ x1' = [x1 EXCEPT ![v] = row]
      /\ UNCHANGED <<x2, x3, x4, x6, x7, x8, x9, x10, x11>>
  BY DEF Skill!LinkApproval, Skill!Holds, Skill!Return
<1>2. x5[c] \in CallRow /\ CallSound(c)
  BY SkillTypes DEF SkillInv
<1>3. v \in Skill!Versions /\ x1[v] # None
  BY <1>1, <1>2 DEF CallRow, CallSound
<1>4. x1[v] \in Skill!Rows
  BY <1>3, SkillTypes
<1>5. row \in Skill!Rows /\ row.status = x1[v].status /\ row.manifest = x1[v].manifest
  BY <1>4 DEF Skill!Rows
<1> HIDE DEF row, v
<1>6. x5' \in [Actors -> CallRow] /\ x5'[c] = Idle /\ \A d \in Actors \ {c} : x5'[d] = x5[d]
  BY <1>1, SkillTypes DEF CallRow
<1>7. x1' \in [Skill!Versions -> Skill!Rows \cup {None}] /\ x1'[v] = row /\ row # None
      /\ \A w \in Skill!Versions \ {v} : x1'[w] = x1[w]
  BY <1>1, <1>3, <1>5, SkillTypes, SkillConstants
<1>8. Skill!TypeOK'
  BY <1>1, <1>6, <1>7 DEF SkillInv, Skill!TypeOK, CallRow
<1>9. Kept
  BY <1>1, <1>5, <1>7 DEF Kept
<1>10. \A w \in Skill!Versions : Registered(w)'
  <2> TAKE w \in Skill!Versions
  <2>1. Registered(w)
    BY DEF SkillInv
  <2> QED BY <1>1, <1>3, <1>5, <1>7, <2>1 DEF Registered
<1>11. CallSound(c)'
  BY <1>6 DEF CallSound
<1>12. \A d \in Actors \ {c} : CallSound(d)'
  <2> TAKE d \in Actors \ {c}
  <2>1. CallSound(d) /\ x5'[d] = x5[d] /\ x2' = x2 /\ x4' = x4
    BY <1>1, <1>6 DEF SkillInv
  <2> QED BY <1>9, <2>1, CallStays DEF CallSound
<1>13. AskOnce'
  BY <1>6 DEF SkillInv, AskOnce
<1>14. \A w \in Skill!Versions :
         x1[w] # None /\ x1[w].status = "active" => x1'[w].status = "active"
  BY <1>3, <1>5, <1>7
<1> QED BY <1>1, <1>8, <1>9, <1>10, <1>11, <1>12, <1>13, <1>14, CallStep

LEMMA ResolveStep ==
  ASSUME SkillInv, NEW v \in Skill!Versions, NEW verdict \in Answers,
         Skill!Resolve(v, verdict)
  PROVE  SkillInv'
<1>1. x2[v] # "absent" /\ verdict \in Skill!RequestTransitions(x2[v])
      /\ x2' = [x2 EXCEPT ![v] = verdict]
      /\ UNCHANGED <<x1, x3, x4, x5, x6, x7, x8, x9, x10, x11>>
  BY DEF Skill!Resolve
<1>2. verdict \in Skill!RequestStates
  BY SkillConstants DEF Skill!Verdicts, Skill!RequestStates
<1>3. x2[v] \in ApprovedOnce => verdict \in ApprovedOnce
  BY <1>1 DEF ApprovedOnce, Skill!RequestTransitions
<1>4. x2' \in [Skill!Versions -> Skill!RequestStates \cup {"absent"}] /\ x2'[v] = verdict
      /\ \A w \in Skill!Versions \ {v} : x2'[w] = x2[w]
  BY <1>1, <1>2, SkillTypes
<1>5. Skill!TypeOK'
  BY <1>1, <1>4 DEF SkillInv, Skill!TypeOK
<1>6. Kept
  BY <1>1, <1>3, <1>4 DEF Kept
<1>7. \A w \in Skill!Versions : Registered(w)'
  <2> TAKE w \in Skill!Versions
  <2>1. Registered(w)
    BY DEF SkillInv
  <2> QED BY <1>1, <1>3, <1>4, <2>1 DEF Registered
<1>8. \A d \in Actors : CallSound(d)'
  <2> TAKE d \in Actors
  <2>1. CallSound(d) /\ x5[d] \in CallRow
    BY SkillTypes DEF SkillInv
  <2>2. x5[d] # Idle /\ x5[d].op = "ask" => x5[d].v \in Skill!Versions \ {v} /\ x2[x5[d].v] = "absent"
    BY <1>1, <2>1 DEF CallRow, CallSound
  <2> QED BY <1>1, <1>4, <1>6, <2>2, CallStays
<1>9. AskOnce'
  BY <1>1 DEF SkillInv, AskOnce
<1> QED BY <1>1, <1>5, <1>6, <1>7, <1>8, <1>9, CallStep

LEMMA SwitchStep ==
  ASSUME SkillInv, NEW c \in Actors, Skill!Switch(c)
  PROVE  SkillInv'
<1> DEFINE v == x5[c].v[1]
           old == x5[c].v[2]
           s == x5[c].on
           now == <<s, x10[s]>>
<1>1. x5[c] # Idle /\ x5[c].op = "switch" /\ x5' = [x5 EXCEPT ![c] = Idle]
      /\ x1' = [w \in Skill!Versions |->
            IF w = v THEN [x1[w] EXCEPT !.status = "active"]
            ELSE IF w \in old THEN [x1[w] EXCEPT !.status = "retired"]
            ELSE x1[w]]
      /\ x3' = [x3 EXCEPT ![v[1]] = v] /\ x11' = [x11 EXCEPT ![v] = now]
      /\ UNCHANGED <<x2, x4, x6, x7, x8, x9, x10>>
  BY DEF Skill!Switch, Skill!Holds, Skill!Return
<1>2. x5[c] \in CallRow /\ CallSound(c)
  BY SkillTypes DEF SkillInv
<1>3. x5[c].v \in Skill!Versions \X SUBSET Skill!Versions /\ s \in Servers
  BY <1>1, <1>2 DEF CallRow
<1>4. v \in Skill!Versions /\ old \subseteq Skill!Versions /\ v[1] \in Slugs
  BY <1>3 DEF Skill!Versions
<1>5. /\ x1[v] # None /\ x2[v] \in ApprovedOnce /\ x4[s][v[1]] = x1[v].manifest
      /\ \A w \in old : w[1] = v[1] /\ x1[w] # None /\ x2[w] \in ApprovedOnce
  BY <1>1, <1>2 DEF CallSound
<1>6. now \in Servers \X Nat /\ now # None /\ now[1] = s /\ now[2] = x10[s]
  BY <1>3, SkillTypes, SkillConstants
<1> HIDE DEF v, old, s, now
<1>7. x5' \in [Actors -> CallRow] /\ x5'[c] = Idle /\ \A d \in Actors \ {c} : x5'[d] = x5[d]
  BY <1>1, SkillTypes DEF CallRow
<1>8. ASSUME NEW w \in Skill!Versions
      PROVE  /\ x1'[w] \in Skill!Rows \cup {None}
             /\ x1[w] # None => x1'[w] # None /\ x1'[w].manifest = x1[w].manifest
             /\ x1[w] = None => x1'[w] = None
             /\ w = v => x1'[w].status = "active"
             /\ w # v /\ w \notin old => x1'[w] = x1[w]
  <2>1. x1[w] # None => x1[w] \in Skill!Rows
    BY SkillTypes
  <2>2. ASSUME NEW row \in Skill!Rows, NEW st \in {"active", "retired"}
        PROVE  LET r == [row EXCEPT !.status = st] IN
                 r \in Skill!Rows /\ r.manifest = row.manifest /\ r.status = st
    BY DEF Skill!Rows
  <2>3. CASE w = v
    <3>1. x1'[w] = [x1[w] EXCEPT !.status = "active"]
      BY <1>1, <2>3
    <3> QED BY <1>5, <2>1, <2>2, <2>3, <3>1, SkillConstants
  <2>4. CASE w # v /\ w \in old
    <3>1. x1'[w] = [x1[w] EXCEPT !.status = "retired"]
      BY <1>1, <2>4
    <3> QED BY <1>5, <2>1, <2>2, <2>4, <3>1, SkillConstants
  <2>5. CASE w # v /\ w \notin old
    <3>1. x1'[w] = x1[w]
      BY <1>1, <2>5
    <3> QED BY <2>1, <2>5, <3>1
  <2> QED BY <2>3, <2>4, <2>5
<1>9. DOMAIN x1' = Skill!Versions /\ x1' \in [Skill!Versions -> Skill!Rows \cup {None}]
  <2>1. x1' = [w \in Skill!Versions |-> x1'[w]]
    BY <1>1
  <2> QED BY <1>8, <2>1
<1>10. x3' \in [Slugs -> Skill!Versions \cup {None}] /\ x3'[v[1]] = v
       /\ \A g \in Slugs \ {v[1]} : x3'[g] = x3[g]
  BY <1>1, <1>4, SkillTypes
<1>11. x11' \in [Skill!Versions -> (Servers \X Nat) \cup {None}] /\ x11'[v] = now
       /\ \A w \in Skill!Versions \ {v} : x11'[w] = x11[w]
  BY <1>1, <1>4, <1>6, SkillTypes
<1>12. Skill!TypeOK'
  BY <1>1, <1>7, <1>9, <1>10, <1>11 DEF SkillInv, Skill!TypeOK, CallRow
<1>13. Kept
  BY <1>1, <1>8 DEF Kept
<1>14. Skill!CurrentIsActive'
  <2> SUFFICES ASSUME NEW g \in Slugs, x3'[g] # None
               PROVE  /\ x3'[g] \in Skill!Versions /\ x3'[g][1] = g
                      /\ x1'[x3'[g]] # None /\ x1'[x3'[g]].status = "active"
    BY DEF Skill!CurrentIsActive, Skill!ActiveVersions
  <2>1. CASE g = v[1]
    BY <1>4, <1>5, <1>8, <1>10, <2>1
  <2>2. CASE g # v[1]
    <3>1. x3'[g] = x3[g]
      BY <1>10, <2>2
    <3>2. /\ x3[g] \in Skill!Versions /\ x3[g][1] = g
          /\ x1[x3[g]] # None /\ x1[x3[g]].status = "active"
      BY <3>1 DEF SkillInv, Skill!CurrentIsActive, Skill!ActiveVersions
    <3>3. x3[g] # v /\ x3[g] \notin old
      BY <1>5, <2>2, <3>2
    <3>4. x1'[x3[g]] = x1[x3[g]]
      BY <1>8, <3>2, <3>3
    <3> QED BY <3>1, <3>2, <3>4
  <2> QED BY <2>1, <2>2
<1>15. \A w \in Skill!Versions : Registered(w)'
  <2> TAKE w \in Skill!Versions
  <2>1. Registered(w) /\ x2' = x2
    BY <1>1 DEF SkillInv
  <2>2. w \in old \cup {v} => x2[w] \in ApprovedOnce /\ x1[w] # None
    BY <1>5
  <2> QED BY <1>8, <2>1, <2>2 DEF Registered
<1>16. \A w \in Skill!Versions : ActivatorSound(w)'
  <2> TAKE w \in Skill!Versions
  <2>1. ActivatorSound(w) /\ x4' = x4 /\ x10' = x10
    BY <1>1 DEF SkillInv
  <2>2. CASE w = v
    <3>1. x10[s] \in Nat
      BY <1>3, SkillTypes DEF s
    <3> QED BY <1>5, <1>6, <1>8, <1>11, <2>1, <2>2, <3>1 DEF ActivatorSound
  <2>3. CASE w # v
    BY <1>8, <1>11, <2>1, <2>3 DEF ActivatorSound
  <2> QED BY <2>2, <2>3
<1>17. CallSound(c)'
  BY <1>7 DEF CallSound
<1>18. \A d \in Actors \ {c} : CallSound(d)'
  <2> TAKE d \in Actors \ {c}
  <2>1. CallSound(d) /\ x5'[d] = x5[d] /\ x2' = x2 /\ x4' = x4
    BY <1>1, <1>7 DEF SkillInv
  <2> QED BY <1>13, <2>1, CallStays DEF CallSound
<1>19. AskOnce'
  BY <1>7 DEF SkillInv, AskOnce
<1>20. RunsSound'
  <2> SUFFICES ASSUME NEW i \in 1..Len(x8') PROVE RunSound(i)'
    BY DEF RunsSound
  <2>1. x8' = x8 /\ x10' = x10 /\ x7' = x7 /\ x4' = x4 /\ x2' = x2
    BY <1>1
  <2>2. x8[i] \in RunRow
    BY <2>1, SkillTypes
  <2>3. x8[i].version \in Skill!Versions
    BY <2>2 DEF RunRow
  <2>4. RunSound(i)
    BY <2>1 DEF SkillInv, RunsSound
  <2>5. CASE x8[i].version = v /\ x8[i].by = now
    <3>1. x8[i].code = x1[v].manifest
      BY <1>5, <1>6, <2>4, <2>5 DEF RunSound
    <3> QED BY <1>8, <2>1, <2>3, <2>4, <2>5, <3>1 DEF RunSound
  <2>6. CASE x8[i].version = v /\ x8[i].by # now
    BY <1>8, <1>11, <2>1, <2>3, <2>4, <2>6 DEF RunSound
  <2>7. CASE x8[i].version # v
    BY <1>8, <1>11, <2>1, <2>3, <2>4, <2>7 DEF RunSound
  <2> QED BY <2>5, <2>6, <2>7
<1>21. Skill!FiresOnceAMinute'
  BY <1>1 DEF SkillInv, Skill!FiresOnceAMinute
<1>22. \A u \in Servers : TickSound(u)'
  <2> TAKE u \in Servers
  <2>1. x6' = x6 /\ x7' = x7 /\ x8' = x8 /\ x9' = x9 /\ x10' = x10
    BY <1>1
  <2> QED BY <1>13, <2>1, TickStays
<1> QED BY <1>12, <1>14, <1>15, <1>16, <1>17, <1>18, <1>19, <1>20, <1>21, <1>22 DEF SkillInv

(* A new run of an approved version, by a server that remembers to have    *)
(* fired it when it is scheduled, and that had not fired it before.        *)
LEMMA NewRun ==
  ASSUME SkillInv, NEW s \in Servers, NEW v \in Skill!Versions,
         NEW trigger \in {"schedule", "tool"}, NEW at \in Nat,
         x1[v] # None, x2[v] \in ApprovedOnce, Skill!StartRun(s, v, trigger, at),
         UNCHANGED <<x1, x2, x4, x10, x11>>,
         \A u \in Servers, g \in Slugs :
           x7[u][g] # None => x7'[u][g] # None /\ x7[u][g] <= x7'[u][g],
         x7' \in [Servers -> [Slugs -> Nat \cup {None}]],
         trigger = "schedule" =>
           /\ x7'[s][v[1]] # None /\ at <= x7'[s][v[1]]
           /\ \A i \in 1..Len(x8) :
                /\ x8[i].trigger = "schedule" /\ x8[i].at = at /\ x8[i].by = <<s, x10[s]>>
                => x8[i].version[1] # v[1]
  PROVE  /\ x8' \in Seq(RunRow) /\ RunsSound' /\ Skill!FiresOnceAMinute'
         /\ Len(x8') = Len(x8) + 1 /\ x8'[Len(x8')].version = v /\ x8'[Len(x8')].by[1] = s
         /\ \A i \in 1..Len(x8) : x8'[i] = x8[i]
<1> DEFINE now == <<s, x10[s]>>
           row == [version |-> v, trigger |-> trigger, at |-> at, by |-> now,
                   code |-> x4[s][v[1]], status |-> "running"]
<1>1. x8' = Append(x8, row) /\ x8 \in Seq(RunRow)
  BY SkillTypes DEF Skill!StartRun
<1>n. PICK n \in Nat : n = Len(x8)
  BY <1>1
<1>2. v[1] \in Slugs /\ x4[s][v[1]] \in Manifests \cup {None}
  <2>1. v[1] \in Slugs
    BY DEF Skill!Versions
  <2>2. x4[s] \in [Slugs -> Manifests \cup {None}]
    BY SkillTypes, SkillConstants
  <2> QED BY <2>1, <2>2
<1>3. now \in Servers \X Nat /\ now[1] = s /\ now[2] = x10[s] /\ x10[s] \in Nat
  BY SkillTypes
<1>4. /\ row \in RunRow /\ row.version = v /\ row.trigger = trigger /\ row.at = at
      /\ row.by = now /\ row.code = x4[s][v[1]]
  <2> HIDE DEF now
  <2> QED BY <1>2, <1>3 DEF RunRow
<1>5. x11[v] = now => x4[s][v[1]] = x1[v].manifest
  <2>1. ActivatorSound(v) /\ now # None
    BY <1>3, SkillConstants DEF SkillInv
  <2> QED BY <1>3, <2>1 DEF ActivatorSound
<1> HIDE DEF row
<1>6. /\ x8' \in Seq(RunRow) /\ Len(x8') = n + 1 /\ x8'[n + 1] = row
      /\ \A i \in 1..n : x8'[i] = x8[i]
  BY <1>1, <1>n, <1>4
<1>7. RunSound(n + 1)'
  <2>1. /\ x8'[n + 1].version = v /\ x8'[n + 1].trigger = trigger /\ x8'[n + 1].at = at
        /\ x8'[n + 1].by = now /\ x8'[n + 1].code = x4[s][v[1]]
    BY <1>4, <1>6
  <2>2. x10[s] <= x10[s]
    BY <1>3
  <2> HIDE DEF now
  <2> QED BY <1>3, <1>5, <2>1, <2>2 DEF RunSound
<1>8. ASSUME NEW i \in 1..n PROVE RunSound(i)'
  <2>1. RunSound(i) /\ x8'[i] = x8[i] /\ x8[i] \in RunRow
    BY <1>1, <1>n, <1>6, <1>8 DEF SkillInv, RunsSound
  <2>2. x8[i].by[1] \in Servers /\ x8[i].version[1] \in Slugs /\ x8[i].at \in Nat
    BY <2>1 DEF RunRow, Skill!Versions
  <2> DEFINE u == x8[i].by[1] g == x8[i].version[1]
  <2>3. x7[u][g] # None => x7[u][g] \in Nat
    BY <2>2, SkillTypes
  <2>4. x7'[u][g] # None => x7'[u][g] \in Nat
    BY <2>2
  <2>5. x7[u][g] # None => x7'[u][g] # None /\ x7[u][g] <= x7'[u][g]
    BY <2>2
  <2>6. x7[u][g] # None /\ x8[i].at <= x7[u][g] => x7'[u][g] # None /\ x8[i].at <= x7'[u][g]
    <3> DEFINE a == x7[u][g] b == x7'[u][g] c == x8[i].at
    <3>1. c \in Nat /\ (a # None => a \in Nat) /\ (b # None => b \in Nat)
          /\ (a # None => b # None /\ a <= b)
      BY <2>2, <2>3, <2>4, <2>5
    <3> HIDE DEF a, b, c
    <3>2. a # None /\ c <= a => b # None /\ c <= b
      BY <3>1
    <3> QED BY <3>2 DEF a, b, c
  <2> QED BY <2>1, <2>6 DEF RunSound
<1>9. RunsSound'
  <2> SUFFICES ASSUME NEW i \in 1..Len(x8') PROVE RunSound(i)'
    BY DEF RunsSound
  <2>1. i \in 1..n \/ i = n + 1
    BY <1>1, <1>n, <1>6
  <2> QED BY <1>7, <1>8, <2>1
<1>10. Skill!FiresOnceAMinute'
  <2> SUFFICES ASSUME NEW i \in 1..Len(x8'), NEW j \in 1..Len(x8'),
                      x8'[i].trigger = "schedule", x8'[j].trigger = "schedule",
                      x8'[i].at = x8'[j].at, x8'[i].by = x8'[j].by,
                      x8'[i].version[1] = x8'[j].version[1]
               PROVE  i = j
    BY DEF Skill!FiresOnceAMinute
  <2>1. (i \in 1..n \/ i = n + 1) /\ (j \in 1..n \/ j = n + 1)
    BY <1>1, <1>n, <1>6
  <2>2. CASE i \in 1..n /\ j \in 1..n
    BY <1>n, <1>6, <2>2 DEF SkillInv, Skill!FiresOnceAMinute
  <2>3. CASE i \in 1..n /\ j = n + 1
    BY <1>n, <1>4, <1>6, <2>3
  <2>4. CASE i = n + 1 /\ j \in 1..n
    BY <1>n, <1>4, <1>6, <2>4
  <2> QED BY <2>1, <2>2, <2>3, <2>4
<1>11. x8'[Len(x8')].version = v /\ x8'[Len(x8')].by[1] = s
  BY <1>3, <1>4, <1>6
<1> QED BY <1>n, <1>6, <1>9, <1>10, <1>11

(* The end of a run changes its status only. *)
LEMMA RunEnds ==
  ASSUME SkillInv, NEW i, NEW status \in {"succeeded", "failed"}, Skill!FinishRun(i, status),
         UNCHANGED <<x1, x2, x4, x7, x10, x11>>
  PROVE  /\ x8' \in Seq(RunRow) /\ RunsSound' /\ Skill!FiresOnceAMinute'
         /\ Len(x8') = Len(x8)
         /\ \A j \in 1..Len(x8) :
              /\ x8'[j].trigger = x8[j].trigger /\ x8'[j].at = x8[j].at
              /\ x8'[j].by = x8[j].by /\ x8'[j].version = x8[j].version
<1>1. x8 \in Seq(RunRow) /\ x8' = [x8 EXCEPT ![i] = [x8[i] EXCEPT !.status = status]]
  BY SkillTypes DEF Skill!FinishRun
<1>2. ASSUME NEW r \in RunRow
      PROVE  LET e == [r EXCEPT !.status = status] IN
               /\ e \in RunRow /\ e.trigger = r.trigger /\ e.at = r.at /\ e.by = r.by
               /\ e.version = r.version /\ e.code = r.code
  BY DEF RunRow
<1>3. Len(x8') = Len(x8) /\ x8' \in Seq(RunRow)
  <2> DEFINE e == [x8[i] EXCEPT !.status = status]
  <2>1. i \in 1..Len(x8) => e \in RunRow
    BY <1>1, <1>2
  <2>2. x8' = [x8 EXCEPT ![i] = e]
    BY <1>1
  <2> HIDE DEF e
  <2>3. CASE i \in 1..Len(x8)
    BY <1>1, <2>1, <2>2, <2>3
  <2>4. CASE i \notin 1..Len(x8)
    <3>1. DOMAIN x8 = 1..Len(x8)
      BY <1>1
    <3>2. x8' = x8
      BY <1>1, <2>2, <2>4, <3>1
    <3> QED BY <1>1, <3>2
  <2> QED BY <2>3, <2>4
<1>4. ASSUME NEW j \in 1..Len(x8)
      PROVE  /\ x8'[j].trigger = x8[j].trigger /\ x8'[j].at = x8[j].at /\ x8'[j].by = x8[j].by
             /\ x8'[j].version = x8[j].version /\ x8'[j].code = x8[j].code
  <2>1. x8'[j] = x8[j] \/ x8'[j] = [x8[j] EXCEPT !.status = status]
    BY <1>1
  <2>2. x8[j] \in RunRow
    BY <1>1
  <2> QED BY <1>2, <2>1, <2>2
<1>5. RunsSound'
  <2> SUFFICES ASSUME NEW j \in 1..Len(x8) PROVE RunSound(j)'
    BY <1>3 DEF RunsSound
  <2>1. RunSound(j)
    BY DEF SkillInv, RunsSound
  <2> QED BY <1>4, <2>1 DEF RunSound
<1>6. Skill!FiresOnceAMinute'
  BY <1>3, <1>4 DEF SkillInv, Skill!FiresOnceAMinute
<1> QED BY <1>3, <1>4, <1>5, <1>6

(* A step that leaves the registry, the builds and the lives alone. *)
LEMMA RunStep ==
  ASSUME SkillInv, UNCHANGED <<x1, x2, x3, x4, x9, x10, x11>>, Skill!TypeOK',
         RunsSound', Skill!FiresOnceAMinute', \A s \in Servers : TickSound(s)',
         \A c \in Actors :
           \/ x5'[c] = x5[c] \/ x5'[c] = Idle
           \/ /\ x5[c] # Idle /\ x5[c].op = "invoke" /\ x5'[c].op = "invoke"
              /\ x5'[c].v = x5[c].v
  PROVE  SkillInv'
<1>1. Skill!CurrentIsActive'
  BY DEF SkillInv, Skill!CurrentIsActive, Skill!ActiveVersions
<1>2. \A v \in Skill!Versions : Registered(v)' /\ ActivatorSound(v)'
  BY DEF SkillInv, Registered, ActivatorSound
<1>3. \A c \in Actors : CallSound(c)'
  <2> TAKE c \in Actors
  <2>1. CallSound(c)
    BY DEF SkillInv
  <2> QED BY <2>1 DEF CallSound
<1>4. AskOnce'
  BY DEF SkillInv, AskOnce
<1> QED BY <1>1, <1>2, <1>3, <1>4 DEF SkillInv

LEMMA RunToolStep ==
  ASSUME SkillInv, NEW c \in Actors, Skill!RunTool(c)
  PROVE  SkillInv'
<1> DEFINE v == x5[c].v
           s == x5[c].on
           new == [x5[c] EXCEPT !.run = Len(x8')]
<1>1. /\ x5[c] # Idle /\ x5[c].op = "invoke" /\ Skill!StartRun(s, v, "tool", x9)
      /\ x5' = [x5 EXCEPT ![c] = new]
      /\ UNCHANGED <<x1, x2, x3, x4, x6, x7, x9, x10, x11>>
  BY DEF Skill!RunTool, Skill!Holds, Skill!registry
<1>2. x5[c] \in CallRow /\ CallSound(c) /\ x9 \in Nat /\ x7 \in [Servers -> [Slugs -> Nat \cup {None}]]
  BY SkillTypes DEF SkillInv
<1>3. s \in Servers /\ v \in Skill!Versions /\ x1[v] # None /\ x2[v] \in ApprovedOnce
  BY <1>1, <1>2 DEF CallRow, CallSound
<1> HIDE DEF v, s
<1>4. \A u \in Servers, g \in Slugs : x7[u][g] # None => x7[u][g] <= x7[u][g]
  BY <1>2
<1>5. /\ x8' \in Seq(RunRow) /\ RunsSound' /\ Skill!FiresOnceAMinute'
      /\ Len(x8') = Len(x8) + 1 /\ \A i \in 1..Len(x8) : x8'[i] = x8[i]
      /\ x8'[Len(x8')].version = v
  BY <1>1, <1>2, <1>3, <1>4, NewRun
<1>6. new \in CallRow /\ new.op = "invoke" /\ new.v = x5[c].v
  BY <1>1, <1>2, <1>5 DEF CallRow
<1> HIDE DEF new
<1>7. x5' \in [Actors -> CallRow] /\ x5'[c] = new /\ \A d \in Actors \ {c} : x5'[d] = x5[d]
  BY <1>1, <1>6, SkillTypes
<1>8. Skill!TypeOK'
  BY <1>1, <1>5, <1>7 DEF SkillInv, Skill!TypeOK, CallRow, RunRow
<1>9. \A u \in Servers : TickSound(u)'
  <2> TAKE u \in Servers
  <2> DEFINE k == Len(x8')
  <2>1. TickSound(u) /\ x8'[k].trigger # "schedule" /\ \A i \in 1..Len(x8') : i \in 1..Len(x8) \/ i = k
    BY <1>1, <1>5 DEF SkillInv, Skill!StartRun
  <2> HIDE DEF k
  <2> QED BY <1>1, <1>5, <2>1 DEF TickSound
<1> QED BY <1>1, <1>5, <1>6, <1>7, <1>8, <1>9, RunStep

LEMMA FinishToolStep ==
  ASSUME SkillInv, NEW c \in Actors, NEW status \in {"succeeded", "failed"},
         Skill!FinishTool(c, status)
  PROVE  SkillInv'
<1>1. /\ Skill!FinishRun(x5[c].run, status) /\ x5' = [x5 EXCEPT ![c] = Idle]
      /\ UNCHANGED <<x1, x2, x3, x4, x6, x7, x9, x10, x11>>
  BY DEF Skill!FinishTool, Skill!Return, Skill!registry
<1>2. /\ x8' \in Seq(RunRow) /\ RunsSound' /\ Skill!FiresOnceAMinute' /\ Len(x8') = Len(x8)
      /\ \A j \in 1..Len(x8) :
           /\ x8'[j].trigger = x8[j].trigger /\ x8'[j].at = x8[j].at
           /\ x8'[j].by = x8[j].by /\ x8'[j].version = x8[j].version
  BY <1>1, RunEnds
<1>3. x5' \in [Actors -> CallRow] /\ x5'[c] = Idle /\ \A d \in Actors \ {c} : x5'[d] = x5[d]
  BY <1>1, SkillTypes DEF CallRow
<1>4. Skill!TypeOK'
  BY <1>1, <1>2, <1>3 DEF SkillInv, Skill!TypeOK, CallRow, RunRow
<1>5. \A u \in Servers : TickSound(u)'
  <2> TAKE u \in Servers
  <2>1. TickSound(u)
    BY DEF SkillInv
  <2> QED BY <1>1, <1>2, <2>1 DEF TickSound
<1> QED BY <1>1, <1>2, <1>3, <1>4, <1>5, RunStep

LEMMA FinishScheduledStep ==
  ASSUME SkillInv, NEW s \in Servers, NEW status \in {"succeeded", "failed"},
         Skill!FinishScheduled(s, status)
  PROVE  SkillInv'
<1> DEFINE new == IF x6[s].todo = {} THEN Idle ELSE [x6[s] EXCEPT !.run = 0]
<1>1. /\ Skill!FinishRun(x6[s].run, status) /\ x6[s] # Idle /\ x6' = [x6 EXCEPT ![s] = new]
      /\ UNCHANGED <<x1, x2, x3, x4, x5, x7, x9, x10, x11>>
  BY DEF Skill!FinishScheduled, Skill!registry
<1>2. /\ x8' \in Seq(RunRow) /\ RunsSound' /\ Skill!FiresOnceAMinute' /\ Len(x8') = Len(x8)
      /\ \A j \in 1..Len(x8) :
           /\ x8'[j].trigger = x8[j].trigger /\ x8'[j].at = x8[j].at
           /\ x8'[j].by = x8[j].by /\ x8'[j].version = x8[j].version
  BY <1>1, RunEnds
<1>3. new \in TickRow /\ (new # Idle => new.at = x6[s].at /\ new.todo = x6[s].todo)
  <2>1. x6[s] \in TickRow
    BY SkillTypes
  <2> QED BY <1>1, <2>1 DEF TickRow
<1> HIDE DEF new
<1>4. x6' \in [Servers -> TickRow] /\ x6'[s] = new /\ \A u \in Servers \ {s} : x6'[u] = x6[u]
  BY <1>1, <1>3, SkillTypes
<1>5. Skill!TypeOK'
  BY <1>1, <1>2, <1>4 DEF SkillInv, Skill!TypeOK, TickRow, RunRow
<1>6. \A u \in Servers : TickSound(u)'
  <2> TAKE u \in Servers
  <2>1. TickSound(u)
    BY DEF SkillInv
  <2>2. x6'[u] = Idle \/ (x6[u] # Idle /\ x6'[u].at = x6[u].at /\ x6'[u].todo = x6[u].todo)
        \/ x6'[u] = x6[u]
    BY <1>1, <1>3, <1>4
  <2> QED BY <1>1, <1>2, <2>1, <2>2 DEF TickSound
<1> QED BY <1>1, <1>2, <1>5, <1>6, RunStep

LEMMA FireStep ==
  ASSUME SkillInv, NEW s \in Servers, NEW v \in Skill!Versions, Skill!Fire(s, v)
  PROVE  SkillInv'
<1> DEFINE at == x6[s].at
           mine == [x7[s] EXCEPT ![v[1]] = at]
           new == [x6[s] EXCEPT !.todo = x6[s].todo \ {v}, !.run = Len(x8')]
<1>1. /\ x6[s] # Idle /\ v \in x6[s].todo /\ x7' = [x7 EXCEPT ![s] = mine]
      /\ Skill!StartRun(s, v, "schedule", at) /\ x6' = [x6 EXCEPT ![s] = new]
      /\ UNCHANGED <<x1, x2, x3, x4, x5, x9, x10, x11>>
  BY DEF Skill!Fire, Skill!registry
<1>2. TickSound(s) /\ x6[s] \in [at: Nat, todo: SUBSET Skill!Versions, run: Nat] /\ v[1] \in Slugs
  BY <1>1, SkillTypes DEF SkillInv, TickRow, Skill!Versions
<1>3. at \in Nat /\ at <= x9 /\ x1[v] # None /\ x2[v] \in ApprovedOnce
      /\ \A g \in Slugs : x7[s][g] # None => x7[s][g] <= at
  BY <1>1, <1>2 DEF TickSound
<1>4. \A i \in 1..Len(x8), w \in x6[s].todo :
        x8[i].trigger = "schedule" /\ x8[i].at = at /\ x8[i].by = <<s, x10[s]>>
        => x8[i].version[1] # w[1]
  BY <1>1, <1>2 DEF TickSound
<1>5. mine \in [Slugs -> Nat \cup {None}] /\ mine[v[1]] = at
      /\ \A g \in Slugs : g # v[1] => mine[g] = x7[s][g]
  <2>1. x7[s] \in [Slugs -> Nat \cup {None}]
    BY SkillTypes
  <2> HIDE DEF at
  <2> QED BY <1>2, <1>3, <2>1
<1> HIDE DEF mine
<1>6. x7' \in [Servers -> [Slugs -> Nat \cup {None}]] /\ x7'[s] = mine
      /\ \A u \in Servers \ {s} : x7'[u] = x7[u]
  BY <1>1, <1>5, SkillTypes
<1>7. ASSUME NEW u \in Servers, NEW g \in Slugs, x7[u][g] # None
      PROVE  x7'[u][g] # None /\ x7[u][g] <= x7'[u][g]
  <2>1. x7[u][g] \in Nat
    BY <1>7, SkillTypes
  <2>2. CASE u = s /\ g = v[1]
    <3> HIDE DEF at
    <3> QED BY <1>3, <1>5, <1>6, <1>7, <2>2, SkillConstants
  <2>3. CASE ~(u = s /\ g = v[1])
    BY <1>5, <1>6, <1>7, <2>1, <2>3
  <2> QED BY <2>2, <2>3
<1>8. x7'[s][v[1]] # None /\ at <= x7'[s][v[1]]
  <2> HIDE DEF at
  <2> QED BY <1>3, <1>5, <1>6, SkillConstants
<1>9. /\ x8' \in Seq(RunRow) /\ RunsSound' /\ Skill!FiresOnceAMinute'
      /\ Len(x8') = Len(x8) + 1 /\ \A i \in 1..Len(x8) : x8'[i] = x8[i]
      /\ x8'[Len(x8')].version = v /\ x8'[Len(x8')].by[1] = s
  <2>1. \A i \in 1..Len(x8) :
          x8[i].trigger = "schedule" /\ x8[i].at = at /\ x8[i].by = <<s, x10[s]>>
          => x8[i].version[1] # v[1]
    BY <1>1, <1>4
  <2>2. \A u \in Servers, g \in Slugs :
          x7[u][g] # None => x7'[u][g] # None /\ x7[u][g] <= x7'[u][g]
    BY <1>7
  <2>3. Skill!StartRun(s, v, "schedule", at) /\ UNCHANGED <<x1, x2, x4, x10, x11>>
    BY <1>1
  <2> HIDE DEF at, new
  <2> QED BY <1>3, <1>6, <1>8, <2>1, <2>2, <2>3, NewRun
<1>10. /\ new \in [at: Nat, todo: SUBSET Skill!Versions, run: Nat]
       /\ new.at = at /\ new.todo = x6[s].todo \ {v}
  <2>1. Len(x8') \in Nat
    BY <1>9
  <2> QED BY <1>2, <2>1
<1> HIDE DEF new
<1>11. x6' \in [Servers -> TickRow] /\ x6'[s] = new /\ \A u \in Servers \ {s} : x6'[u] = x6[u]
  BY <1>1, <1>10, SkillTypes DEF TickRow
<1>12. Skill!TypeOK'
  BY <1>1, <1>6, <1>9, <1>11 DEF SkillInv, Skill!TypeOK, TickRow, RunRow
<1>13. \A i \in 1..Len(x8') : i \in 1..Len(x8) \/ (x8'[i].version = v /\ x8'[i].by[1] = s)
  <2>1. x8 \in Seq(RunRow)
    BY SkillTypes
  <2>2. \A i \in 1..Len(x8') : i \in 1..Len(x8) \/ i = Len(x8')
    BY <1>9, <2>1
  <2> QED BY <1>9, <2>2
<1>14. \A u \in Servers \ {s} : TickSound(u)'
  <2> TAKE u \in Servers \ {s}
  <2>1. TickSound(u) /\ x6'[u] = x6[u] /\ x7'[u] = x7[u]
    BY <1>6, <1>11 DEF SkillInv
  <2>2. \A i \in 1..Len(x8') : x8'[i].by = <<u, x10[u]>> => i \in 1..Len(x8)
    BY <1>13
  <2>3. x6[u] # Idle => \A i \in 1..Len(x8'), w \in x6[u].todo :
          /\ x8'[i].trigger = "schedule" /\ x8'[i].at = x6[u].at /\ x8'[i].by = <<u, x10[u]>>
          => x8'[i].version[1] # w[1]
    <3> HAVE x6[u] # Idle
    <3> TAKE i \in 1..Len(x8'), w \in x6[u].todo
    <3> HAVE x8'[i].trigger = "schedule" /\ x8'[i].at = x6[u].at /\ x8'[i].by = <<u, x10[u]>>
    <3>1. i \in 1..Len(x8) /\ x8'[i] = x8[i]
      BY <1>9, <2>2
    <3> QED BY <2>1, <3>1 DEF TickSound
  <2>4. x6'[u] # Idle => \A w \in x6'[u].todo : x1'[w] # None /\ x2'[w] \in ApprovedOnce
    BY <1>1, <2>1 DEF TickSound
  <2> QED BY <1>1, <2>1, <2>3, <2>4 DEF TickSound
<1>15. TickSound(s)'
  <2>1. \A g \in Slugs : x7'[s][g] # None => x7'[s][g] <= x9 /\ x7'[s][g] <= at
    <3> TAKE g \in Slugs
    <3>1. CASE g = v[1]
      <4> HIDE DEF at
      <4> QED BY <1>3, <1>5, <1>6, <3>1
    <3>2. CASE g # v[1]
      BY <1>2, <1>3, <1>5, <1>6, <3>2 DEF TickSound
    <3> QED BY <3>1, <3>2
  <2>2. \A w, z \in x6[s].todo : w[1] = z[1] => w = z
    BY <1>1, <1>2 DEF TickSound
  <2>3. \A w \in x6[s].todo : x1[w] # None /\ x2[w] \in ApprovedOnce
    BY <1>1, <1>2 DEF TickSound
  <2>4. \A i \in 1..Len(x8'), w \in x6[s].todo \ {v} :
          x8'[i].trigger = "schedule" /\ x8'[i].at = at /\ x8'[i].by = <<s, x10[s]>>
          => x8'[i].version[1] # w[1]
    <3> TAKE i \in 1..Len(x8'), w \in x6[s].todo \ {v}
    <3>1. CASE i \in 1..Len(x8)
      BY <1>4, <1>9, <3>1
    <3>2. CASE x8'[i].version = v
      BY <1>1, <2>2, <3>2
    <3> QED BY <1>13, <3>1, <3>2
  <2> HIDE DEF at
  <2> QED BY <1>1, <1>3, <1>10, <1>11, <2>1, <2>2, <2>3, <2>4 DEF TickSound
<1> QED BY <1>1, <1>9, <1>12, <1>14, <1>15, RunStep

LEMMA StartTickStep ==
  ASSUME SkillInv, NEW s \in Servers, Skill!StartTick(s)
  PROVE  SkillInv'
<1> DEFINE new == [at |-> x9, todo |-> {v \in Skill!ListActive : Skill!Due(s, v)}, run |-> 0]
<1>1. /\ x6' = [x6 EXCEPT ![s] = new]
      /\ UNCHANGED <<x1, x2, x3, x4, x5, x7, x8, x9, x10, x11>>
  BY DEF Skill!StartTick, Skill!registry
<1>2. ASSUME NEW v \in new.todo
      PROVE  /\ v \in Skill!Versions /\ x3[v[1]] = v /\ x1[v] # None /\ x2[v] \in ApprovedOnce
             /\ x7[s][v[1]] # x9 /\ v[1] \in Slugs
  <2>1. PICK g \in Slugs : x3[g] # None /\ v = x3[g]
    BY <1>2 DEF Skill!ListActive
  <2>2. v \in Skill!Versions /\ v[1] = g /\ x1[v] # None /\ x1[v].status = "active"
    BY <2>1 DEF SkillInv, Skill!CurrentIsActive, Skill!ActiveVersions
  <2>3. x2[v] \in ApprovedOnce
    BY <2>2 DEF SkillInv, Registered
  <2>4. x7[s][v[1]] # x9
    BY <1>2 DEF Skill!Due
  <2> QED BY <2>1, <2>2, <2>3, <2>4
<1>3. x9 \in Nat /\ new.at = x9 /\ new \in [at: Nat, todo: SUBSET Skill!Versions, run: Nat]
  <2>1. new.todo \subseteq Skill!Versions
    BY <1>2
  <2> QED BY <2>1, SkillTypes
<1> HIDE DEF new
<1>4. x6' \in [Servers -> TickRow] /\ x6'[s] = new /\ \A u \in Servers \ {s} : x6'[u] = x6[u]
  BY <1>1, <1>3, SkillTypes DEF TickRow
<1>5. Skill!TypeOK'
  BY <1>1, <1>4 DEF SkillInv, Skill!TypeOK, TickRow
<1>6. Kept
  BY <1>1 DEF Kept
<1>7. RunsSound' /\ Skill!FiresOnceAMinute'
  BY <1>1, <1>6, RunsStay
<1>8. TickSound(s)'
  <2>1. TickSound(s) /\ x9 <= x9
    BY <1>3 DEF SkillInv
  <2>2. ASSUME NEW i \in 1..Len(x8), NEW v \in new.todo, x8[i].trigger = "schedule",
               x8[i].at = x9, x8[i].by = <<s, x10[s]>>
        PROVE  x8[i].version[1] # v[1]
    <3> SUFFICES ASSUME x8[i].version[1] = v[1] PROVE FALSE
      OBVIOUS
    <3>1. RunSound(i)
      BY DEF SkillInv, RunsSound
    <3> DEFINE f == x7[s][v[1]]
    <3>2. f # None /\ x9 <= f
      BY <2>2, <3>1 DEF RunSound
    <3>3. f <= x9 /\ f # x9
      BY <1>2, <2>1, <3>2 DEF TickSound
    <3>4. f \in Nat
      BY <1>2, <3>2, SkillTypes
    <3> HIDE DEF f
    <3> QED BY <1>3, <3>2, <3>3, <3>4
  <2>3. \A v, w \in new.todo : v[1] = w[1] => v = w
    BY <1>2
  <2> QED BY <1>1, <1>2, <1>3, <1>4, <2>1, <2>2, <2>3 DEF TickSound
<1>9. \A u \in Servers \ {s} : TickSound(u)'
  BY <1>1, <1>4, <1>6, TickStays
<1> QED BY <1>1, <1>5, <1>7, <1>8, <1>9, RunStep

LEMMA TickThrowsStep ==
  ASSUME SkillInv, NEW s \in Servers, Skill!TickThrows(s)
  PROVE  SkillInv'
<1>1. /\ x6[s] # Idle /\ x6' = [x6 EXCEPT ![s] = Idle]
      /\ UNCHANGED <<x1, x2, x3, x4, x5, x8, x9, x10, x11>>
  BY DEF Skill!TickThrows, Skill!registry
<1>2. TickSound(s) /\ x6[s] \in [at: Nat, todo: SUBSET Skill!Versions, run: Nat]
  BY <1>1, SkillTypes DEF SkillInv, TickRow
<1>3. x6[s].at \in Nat /\ x6[s].at <= x9 /\ x9 \in Nat
  BY <1>1, <1>2, SkillTypes DEF TickSound
<1>4. PICK mine \in [Slugs -> Nat \cup {None}] :
        /\ x7' = [x7 EXCEPT ![s] = mine]
        /\ \A g \in Slugs : mine[g] = x7[s][g] \/ mine[g] = x6[s].at
  <2>1. x7[s] \in [Slugs -> Nat \cup {None}] /\ x7 = [x7 EXCEPT ![s] = x7[s]]
    BY SkillTypes
  <2>2. CASE x7' = x7
    BY <2>1, <2>2
  <2>3. CASE \E v \in x6[s].todo : x7' = [x7 EXCEPT ![s][v[1]] = x6[s].at]
    <3>1. PICK v \in x6[s].todo : x7' = [x7 EXCEPT ![s][v[1]] = x6[s].at]
      BY <2>3
    <3> DEFINE mine == [x7[s] EXCEPT ![v[1]] = x6[s].at]
    <3>2. mine \in [Slugs -> Nat \cup {None}] /\ \A g \in Slugs : mine[g] = x7[s][g] \/ mine[g] = x6[s].at
      BY <1>3, <2>1
    <3>3. x7' = [x7 EXCEPT ![s] = mine]
      BY <3>1
    <3> HIDE DEF mine
    <3> QED BY <3>2, <3>3
  <2> QED BY <2>2, <2>3 DEF Skill!TickThrows
<1>5. x6' \in [Servers -> TickRow] /\ x6'[s] = Idle /\ \A u \in Servers \ {s} : x6'[u] = x6[u]
  BY <1>1, SkillTypes DEF TickRow
<1>6. x7' \in [Servers -> [Slugs -> Nat \cup {None}]] /\ x7'[s] = mine
      /\ \A u \in Servers \ {s} : x7'[u] = x7[u]
  BY <1>4, SkillTypes
<1>7. Skill!TypeOK'
  BY <1>1, <1>5, <1>6 DEF SkillInv, Skill!TypeOK, TickRow
<1>8. \A g \in Slugs : x7[s][g] # None => x7[s][g] <= x6[s].at /\ x7[s][g] <= x9 /\ x7[s][g] \in Nat
  BY <1>1, <1>2, SkillTypes DEF TickSound
<1>9. RunsSound'
  <2> SUFFICES ASSUME NEW i \in 1..Len(x8) PROVE RunSound(i)'
    BY <1>1 DEF RunsSound
  <2>1. RunSound(i) /\ x8[i] \in RunRow
    BY SkillTypes DEF SkillInv, RunsSound
  <2> DEFINE u == x8[i].by[1] g == x8[i].version[1] a == x8[i].at
  <2>2. u \in Servers /\ g \in Slugs /\ a \in Nat
    BY <2>1 DEF RunRow, Skill!Versions
  <2>3. x7[u][g] # None /\ a <= x7[u][g] => x7'[u][g] # None /\ a <= x7'[u][g]
    <3>1. CASE u # s
      BY <1>6, <2>2, <3>1
    <3>2. CASE u = s
      <4> DEFINE f == x7[s][g] h == mine[g] at == x6[s].at
      <4>1. at \in Nat /\ a \in Nat /\ (f # None => f <= at /\ f \in Nat) /\ (h = f \/ h = at)
        BY <1>3, <1>4, <1>8, <2>2
      <4> HIDE DEF f, h, at, a
      <4>2. f # None /\ a <= f => h # None /\ a <= h
        BY <4>1, SkillConstants
      <4> QED BY <1>6, <3>2, <4>2 DEF f, h
    <3> QED BY <3>1, <3>2
  <2> QED BY <1>1, <2>1, <2>3 DEF RunSound
<1>10. Skill!FiresOnceAMinute'
  BY <1>1 DEF SkillInv, Skill!FiresOnceAMinute
<1>11. TickSound(s)'
  BY <1>1, <1>3, <1>4, <1>5, <1>6, <1>8 DEF TickSound
<1>12. \A u \in Servers \ {s} : TickSound(u)'
  <2>1. Kept
    BY <1>1 DEF Kept
  <2> QED BY <1>1, <1>5, <1>6, <2>1, TickStays
<1> QED BY <1>1, <1>7, <1>9, <1>10, <1>11, <1>12, RunStep

LEMMA RestartStep ==
  ASSUME SkillInv, NEW s \in Servers, NEW b \in Builds, Skill!Restart(s, b)
  PROVE  SkillInv'
<1>1. /\ x4' = [x4 EXCEPT ![s] = b]
      /\ x5' = [c \in Actors |-> IF x5[c] # Idle /\ x5[c].on = s THEN Idle ELSE x5[c]]
      /\ x6' = [x6 EXCEPT ![s] = Idle] /\ x7' = [x7 EXCEPT ![s] = [g \in Slugs |-> None]]
      /\ x10' = [x10 EXCEPT ![s] = x10[s] + 1] /\ UNCHANGED <<x1, x2, x3, x8, x9, x11>>
  BY DEF Skill!Restart, Skill!registry
<1>2. x4' \in [Servers -> Builds] /\ \A u \in Servers \ {s} : x4'[u] = x4[u]
  BY <1>1, SkillTypes
<1>3. x5' \in [Actors -> CallRow]
  <2>1. x5 \in [Actors -> CallRow] /\ Idle \in CallRow
    BY SkillTypes DEF CallRow
  <2> QED BY <1>1, <2>1
<1>4. \A c \in Actors : x5'[c] = Idle \/ (x5'[c] = x5[c] /\ (x5[c] # Idle => x5[c].on # s))
  BY <1>1
<1>5. x6' \in [Servers -> TickRow] /\ x6'[s] = Idle /\ \A u \in Servers \ {s} : x6'[u] = x6[u]
  BY <1>1, SkillTypes DEF TickRow
<1>6. x7' \in [Servers -> [Slugs -> Nat \cup {None}]] /\ (\A g \in Slugs : x7'[s][g] = None)
      /\ \A u \in Servers \ {s} : x7'[u] = x7[u]
  BY <1>1, SkillTypes
<1>7. x10' \in [Servers -> Nat] /\ x10'[s] = x10[s] + 1 /\ x10[s] \in Nat
      /\ \A u \in Servers \ {s} : x10'[u] = x10[u]
  BY <1>1, SkillTypes
<1>8. Skill!TypeOK'
  BY <1>1, <1>2, <1>3, <1>5, <1>6, <1>7
  DEF SkillInv, Skill!TypeOK, CallRow, TickRow
<1>9. Kept
  BY <1>1 DEF Kept
<1>10. Skill!CurrentIsActive'
  BY <1>1 DEF SkillInv, Skill!CurrentIsActive, Skill!ActiveVersions
<1>11. \A v \in Skill!Versions : Registered(v)'
  BY <1>1 DEF SkillInv, Registered
<1>12. \A v \in Skill!Versions : ActivatorSound(v)'
  <2> TAKE v \in Skill!Versions
  <2>1. ActivatorSound(v) /\ x11' = x11 /\ x1' = x1
    BY <1>1 DEF SkillInv
  <2>2. CASE x11[v] = None
    BY <2>1, <2>2 DEF ActivatorSound
  <2>3. CASE x11[v] # None
    <3>1. x11[v] \in Servers \X Nat
      BY <2>3, SkillTypes
    <3>2. x11[v][1] \in Servers /\ x11[v][2] \in Nat
      BY <3>1
    <3>3. CASE x11[v][1] = s
      <4> DEFINE k == x11[v][2]
      <4>1. k \in Nat /\ k <= x10[s]
        BY <2>1, <2>3, <3>2, <3>3 DEF ActivatorSound
      <4> HIDE DEF k
      <4>2. k <= x10[s] + 1 /\ k # x10[s] + 1
        BY <1>7, <4>1
      <4> QED BY <1>7, <2>1, <2>3, <3>3, <4>2 DEF ActivatorSound, k
    <3>4. CASE x11[v][1] # s
      BY <1>2, <1>7, <2>1, <2>3, <3>2, <3>4 DEF ActivatorSound
    <3> QED BY <3>3, <3>4
  <2> QED BY <2>2, <2>3
<1>13. \A c \in Actors : CallSound(c)'
  <2> TAKE c \in Actors
  <2>1. CASE x5'[c] = Idle
    BY <2>1 DEF CallSound
  <2>2. CASE x5'[c] = x5[c] /\ x5[c] # Idle /\ x5[c].on # s
    <3>1. x5[c].on \in Servers /\ CallSound(c)
      BY <2>2, SkillTypes DEF CallRow, SkillInv
    <3>2. x4'[x5[c].on] = x4[x5[c].on] /\ x2' = x2
      BY <1>1, <1>2, <2>2, <3>1
    <3> QED BY <1>9, <2>2, <3>1, <3>2, CallStays DEF CallSound
  <2> QED BY <1>4, <2>1, <2>2
<1>14. AskOnce'
  BY <1>4 DEF SkillInv, AskOnce
<1>15. RunsSound'
  <2> SUFFICES ASSUME NEW i \in 1..Len(x8) PROVE RunSound(i)'
    BY <1>1 DEF RunsSound
  <2>1. RunSound(i) /\ x8[i] \in RunRow
    BY SkillTypes DEF SkillInv, RunsSound
  <2>2. x8[i].by[1] \in Servers /\ x8[i].by[2] \in Nat
    BY <2>1 DEF RunRow
  <2>3. CASE x8[i].by[1] = s
    <3> DEFINE k == x8[i].by[2]
    <3>1. k \in Nat /\ k <= x10[s]
      BY <2>1, <2>2, <2>3 DEF RunSound
    <3> HIDE DEF k
    <3>2. k <= x10[s] + 1 /\ k # x10[s] + 1
      BY <1>7, <3>1
    <3> QED BY <1>1, <1>7, <2>1, <2>3, <3>2 DEF RunSound, k
  <2>4. CASE x8[i].by[1] # s
    BY <1>1, <1>2, <1>6, <1>7, <2>1, <2>2, <2>4 DEF RunSound
  <2> QED BY <2>3, <2>4
<1>16. Skill!FiresOnceAMinute'
  BY <1>1 DEF SkillInv, Skill!FiresOnceAMinute
<1>17. TickSound(s)'
  BY <1>5, <1>6 DEF TickSound
<1>18. \A u \in Servers \ {s} : TickSound(u)'
  BY <1>1, <1>5, <1>6, <1>7, <1>9, TickStays
<1> QED BY <1>8, <1>10, <1>11, <1>12, <1>13, <1>14, <1>15, <1>16, <1>17, <1>18 DEF SkillInv

LEMMA NextMinuteStep ==
  ASSUME SkillInv, Skill!NextMinute
  PROVE  SkillInv'
<1>1. x9' = x9 + 1 /\ UNCHANGED <<x1, x2, x3, x4, x5, x6, x7, x8, x10, x11>>
  BY DEF Skill!NextMinute, Skill!registry
<1>2. x9 \in Nat /\ x9' \in Nat
  BY <1>1, SkillTypes
<1>3. Skill!TypeOK'
  BY <1>1, <1>2 DEF SkillInv, Skill!TypeOK
<1>4. Kept
  BY <1>1 DEF Kept
<1>5. RunsSound' /\ Skill!FiresOnceAMinute'
  BY <1>1, <1>4, RunsStay
<1>6. Skill!CurrentIsActive' /\ AskOnce'
  BY <1>1 DEF SkillInv, Skill!CurrentIsActive, Skill!ActiveVersions, AskOnce
<1>7. \A v \in Skill!Versions : Registered(v)' /\ ActivatorSound(v)'
  BY <1>1 DEF SkillInv, Registered, ActivatorSound
<1>8. \A c \in Actors : CallSound(c)'
  <2> TAKE c \in Actors
  <2>1. CallSound(c)
    BY DEF SkillInv
  <2> QED BY <1>1, <1>4, <2>1, CallStays DEF CallSound
<1>9. \A s \in Servers : TickSound(s)'
  <2> TAKE s \in Servers
  <2>1. TickSound(s)
    BY DEF SkillInv
  <2>2. \A a \in Nat : a <= x9 => a <= x9 + 1
    BY <1>2
  <2>3. \A g \in Slugs : x7[s][g] # None => x7[s][g] \in Nat
    BY SkillTypes
  <2>4. x6[s] # Idle => x6[s].at \in Nat
    BY SkillTypes DEF TickRow
  <2> QED BY <1>1, <2>1, <2>2, <2>3, <2>4 DEF TickSound
<1> QED BY <1>3, <1>5, <1>6, <1>7, <1>8, <1>9 DEF SkillInv

LEMMA SkillStep == SkillInv /\ [Skill!Next]_(Skill!vars) => SkillInv'
<1> SUFFICES ASSUME SkillInv, [Skill!Next]_(Skill!vars) PROVE SkillInv'
  OBVIOUS
<1>1. ASSUME NEW c \in Actors, Skill!CallFails(c) PROVE SkillInv'
  BY <1>1, ReturnStep DEF Skill!CallFails, Skill!registry
<1>2. CASE UNCHANGED Skill!vars
  <2>1. UNCHANGED <<x1, x2, x3, x4, x5, x6, x7, x8, x9, x10, x11>>
    BY <1>2 DEF Skill!vars, Skill!registry
  <2>2. Skill!TypeOK'
    BY <2>1 DEF SkillInv, Skill!TypeOK
  <2>3. Kept
    BY <2>1 DEF Kept
  <2>4. RunsSound' /\ Skill!FiresOnceAMinute'
    BY <2>1, <2>3, RunsStay
  <2>5. \A s \in Servers : TickSound(s)'
    BY <2>1, <2>3, TickStays
  <2> QED BY <2>1, <2>2, <2>4, <2>5, RunStep
<1> QED BY <1>1, <1>2, LoadStep, ProposeStep, AskStep, LinkStep, CheckApprovedStep, RetireStep,
          LockStep, SwitchStep, RunToolStep, CallToolStep, FinishToolStep, ResolveStep, StartTickStep,
          TickThrowsStep, FireStep, FinishScheduledStep, RestartStep, NextMinuteStep
    DEF Skill!Next

LEMMA SkillInvariant == Spec => [](service = "skills" => SkillInv)
<1> DEFINE Inv == service = "skills" => SkillInv
<1>1. Init => Inv
  BY SkillBegins DEF Init
<1>2. Inv /\ [Next]_vars => Inv'
  BY SkillStep DEF Next, vars, Skill!vars, Skill!registry
<1> QED BY <1>1, <1>2, PTL DEF Spec

(* Activations overlap: each looks at no request or checksum again in its  *)
(* transaction, and row locks keep out only what both of them retire.      *)
(* Still a skill never points to a version that another one retired        *)
(* (skills/registry.ts: activate).                                         *)
THEOREM SkillsPointToActiveVersions == Spec => []CurrentIsActive
<1>1. (service = "skills" => SkillInv) => CurrentIsActive
  BY DEF SkillInv, CurrentIsActive
<1> QED BY <1>1, SkillInvariant, PTL

(* Whoever invokes it and whatever server it runs on, what runs under a    *)
(* version was approved by a person; the server that activated it runs the *)
(* approved manifest as long as it lives, and fires the skill once in a    *)
(* minute (skills/registry.ts, service.ts: invoke, the cron tick).         *)
THEOREM OnlyApprovedSkillsRun == Spec => []SkillsRunAsApproved
<1>1. SkillInv => Skill!OnlyApprovedVersionsRun
  BY DEF SkillInv, RunsSound, RunSound, Skill!OnlyApprovedVersionsRun, ApprovedOnce
<1>2. SkillInv => Skill!ActivatorRunsApprovedCode
  BY DEF SkillInv, RunsSound, RunSound, Skill!ActivatorRunsApprovedCode
<1>3. (service = "skills" => SkillInv) => SkillsRunAsApproved
  BY <1>1, <1>2 DEF SkillInv, SkillsRunAsApproved
<1> QED BY <1>3, SkillInvariant, PTL
=============================================================================
