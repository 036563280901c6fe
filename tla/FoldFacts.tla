----------------------------- MODULE FoldFacts -----------------------------
(***************************************************************************)
(* Facts about the folds of the community modules that the models use: the *)
(* sum of the costs of a set of rows and the concatenation of a sequence   *)
(* of sequences.  Induction is by a least counterexample.                  *)
(***************************************************************************)
EXTENDS Integers, Sequences, FiniteSets, FiniteSetsExt, SequencesExt,
        FiniteSetTheorems, SequenceTheorems, WellFoundedInduction, TLAPS

(* A set of naturals has a least member, and a set of finite sets one of   *)
(* least cardinality.                                                      *)
LEMMA LeastNat ==
  ASSUME NEW T, T \subseteq Nat, T # {}
  PROVE  \E x \in T : \A y \in T : x <= y
<1> DEFINE R == OpToRel(<, Nat)
<1>1. IsWellFoundedOn(R, Nat)
  BY NatLessThanWellFounded
<1>2. ASSUME NEW x \in Nat, NEW y \in Nat, y < x PROVE <<y, x>> \in R
  BY <1>2 DEF OpToRel
<1> HIDE DEF R
<1>3. \E x \in T : \A y \in T : ~(<<y, x>> \in R)
  BY <1>1, WFMin
<1>4. PICK x \in T : \A y \in T : ~(<<y, x>> \in R)
  BY <1>3
<1>5. \A y \in T : x \in Nat /\ y \in Nat /\ ~(y < x)
  BY <1>2, <1>4
<1>6. \A y \in T : x <= y
  BY <1>5
<1> QED BY <1>6

LEMMA LeastSet ==
  ASSUME NEW D, \A T \in D : IsFiniteSet(T), D # {}
  PROVE  \E T \in D : \A U \in D : Cardinality(T) <= Cardinality(U)
<1> DEFINE N == {Cardinality(T) : T \in D}
<1>1. N \subseteq Nat /\ N # {}
  BY FS_CardinalityType
<1>2. PICK n \in N : \A m \in N : n <= m
  BY <1>1, LeastNat
<1>3. PICK T \in D : n = Cardinality(T)
  BY <1>2
<1>4. \A U \in D : Cardinality(T) <= Cardinality(U)
  BY <1>2, <1>3
<1> QED BY <1>4

-----------------------------------------------------------------------------
(* The sum of the costs of the rows in S.                                  *)
CostOf(rows, S) == MapThenSumSet(LAMBDA r : rows[r].cost, S)

First(s) == CHOOSE x \in s : TRUE

(* One step of the sum, over any function g that claims to be it.          *)
SumStep(rows, g, s) ==
  IF s = {} THEN 0 ELSE rows[First(s)].cost + g[s \ {First(s)}]

Summed(rows, S) == CHOOSE g : g = [s \in SUBSET S |-> SumStep(rows, g, s)]

LEMMA FirstIn == ASSUME NEW s, s # {} PROVE First(s) \in s
BY DEF First

LEMMA Smaller ==
  ASSUME NEW s, IsFiniteSet(s), s # {}
  PROVE  /\ IsFiniteSet(s \ {First(s)})
         /\ Cardinality(s) \in Nat /\ Cardinality(s) > 0
         /\ Cardinality(s \ {First(s)}) = Cardinality(s) - 1
<1>1. First(s) \in s
  BY FirstIn
<1>2. Cardinality(s) \in Nat /\ Cardinality(s) # 0
  BY FS_CardinalityType, FS_EmptySet
<1>3. /\ IsFiniteSet(s \ {First(s)})
      /\ Cardinality(s \ {First(s)}) = Cardinality(s) - 1
  BY <1>1, FS_RemoveElement
<1> QED BY <1>2, <1>3

LEMMA CostIsSummed == ASSUME NEW rows, NEW S PROVE CostOf(rows, S) = Summed(rows, S)[S]
BY DEF CostOf, MapThenSumSet, MapThenFoldSet, Summed, SumStep, First

(* The recursion has a solution: one that is right for the sets of at most *)
(* n members, for every n.                                                 *)
RightUpTo(rows, S, g, n) ==
  \A s \in SUBSET S : Cardinality(s) <= n => g[s] = SumStep(rows, g, s)

LEMMA SumExtends ==
  ASSUME NEW rows, NEW S, IsFiniteSet(S), NEW n \in Nat, NEW g,
         RightUpTo(rows, S, g, n)
  PROVE  RightUpTo(rows, S, [s \in SUBSET S |-> SumStep(rows, g, s)], n + 1)
<1> DEFINE h == [s \in SUBSET S |-> SumStep(rows, g, s)]
<1> SUFFICES ASSUME NEW s \in SUBSET S, Cardinality(s) <= n + 1
             PROVE  h[s] = SumStep(rows, h, s)
  BY DEF RightUpTo
<1>1. CASE s = {}
  BY <1>1 DEF SumStep
<1>2. CASE s # {}
  <2> DEFINE t == s \ {First(s)}
  <2>1. t \in SUBSET S /\ Cardinality(t) <= n
    BY <1>2, Smaller, FS_Subset
  <2>2. h[t] = g[t]
    BY <2>1 DEF RightUpTo
  <2>3. h[s] = rows[First(s)].cost + g[t]
    BY <1>2 DEF SumStep
  <2> QED BY <1>2, <2>2, <2>3 DEF SumStep
<1> QED BY <1>1, <1>2

LEMMA SumExists ==
  ASSUME NEW rows, NEW S, IsFiniteSet(S), NEW n \in Nat
  PROVE  \E g : RightUpTo(rows, S, g, n)
<1> DEFINE Wrong == {k \in Nat : ~\E g : RightUpTo(rows, S, g, k)}
<1> SUFFICES ASSUME Wrong # {} PROVE FALSE
  OBVIOUS
<1>1. PICK k \in Wrong : \A m \in Wrong : k <= m
  BY LeastNat
<1>2. CASE k = 0
  <2> DEFINE g == [s \in SUBSET S |-> 0]
  <2>1. \A s \in SUBSET S : Cardinality(s) <= 0 => s = {}
    BY FS_Subset, FS_EmptySet, FS_CardinalityType
  <2>2. RightUpTo(rows, S, g, 0)
    BY <2>1 DEF RightUpTo, SumStep
  <2> QED BY <1>2, <2>2
<1>3. CASE k # 0
  <2>1. k - 1 \in Nat /\ k - 1 \notin Wrong /\ (k - 1) + 1 = k
    BY <1>1, <1>3
  <2>2. PICK g : RightUpTo(rows, S, g, k - 1)
    BY <2>1
  <2> DEFINE h == [s \in SUBSET S |-> SumStep(rows, g, s)]
  <2>3. RightUpTo(rows, S, h, k)
    BY <2>1, <2>2, SumExtends
  <2> QED BY <2>3
<1> QED BY <1>2, <1>3

LEMMA SummedStep ==
  ASSUME NEW rows, NEW S, IsFiniteSet(S), NEW s \in SUBSET S
  PROVE  Summed(rows, S)[s] = SumStep(rows, Summed(rows, S), s)
<1>1. PICK g : RightUpTo(rows, S, g, Cardinality(S))
  BY SumExists, FS_CardinalityType
<1> DEFINE h == [t \in SUBSET S |-> g[t]]
<1>2. \A t \in SUBSET S : g[t] = SumStep(rows, g, t)
  BY <1>1, FS_Subset DEF RightUpTo
<1>3. \A t \in SUBSET S : SumStep(rows, h, t) = SumStep(rows, g, t)
  BY DEF SumStep
<1>4. h = [t \in SUBSET S |-> SumStep(rows, h, t)]
  BY <1>2, <1>3
<1> HIDE DEF h
<1>5. \E f : f = [t \in SUBSET S |-> SumStep(rows, f, t)]
  BY <1>4
<1> DEFINE f == Summed(rows, S)
<1>6. f = [t \in SUBSET S |-> SumStep(rows, f, t)]
  BY <1>5 DEF Summed
<1> HIDE DEF f
<1>7. f[s] = SumStep(rows, f, s)
  BY <1>6
<1> QED BY <1>7 DEF f

LEMMA SummedAgree ==
  ASSUME NEW rows, NEW S, IsFiniteSet(S), NEW T \in SUBSET S, NEW s \in SUBSET T
  PROVE  Summed(rows, T)[s] = Summed(rows, S)[s]
<1> DEFINE f == Summed(rows, S)
           g == Summed(rows, T)
           Wrong == {u \in SUBSET T : g[u] # f[u]}
<1>1. \A u \in SUBSET T : IsFiniteSet(u) /\ u \in SUBSET S
  BY FS_Subset
<1>2. \A u \in SUBSET T : g[u] = SumStep(rows, g, u) /\ f[u] = SumStep(rows, f, u)
  BY <1>1, SummedStep
<1> HIDE DEF f, g
<1>3. ASSUME Wrong # {} PROVE FALSE
  <2>1. PICK u \in Wrong : \A v \in Wrong : Cardinality(u) <= Cardinality(v)
    BY <1>1, <1>3, LeastSet
  <2>2. u # {}
    BY <1>2, <2>1 DEF SumStep
  <2> DEFINE v == u \ {First(u)}
  <2>3. v \notin Wrong
    <3>1. Cardinality(u) \in Nat /\ Cardinality(v) = Cardinality(u) - 1
      BY <1>1, <2>1, <2>2, Smaller
    <3> HIDE DEF Wrong, v
    <3> QED BY <2>1, <3>1
  <2>4. g[v] = f[v]
    BY <2>1, <2>3
  <2> QED BY <1>2, <2>1, <2>2, <2>4 DEF SumStep
<1> QED BY <1>3 DEF f, g

LEMMA CostOfNone == ASSUME NEW rows PROVE CostOf(rows, {}) = 0
BY CostIsSummed, SummedStep, FS_EmptySet DEF SumStep

LEMMA CostOfFirst ==
  ASSUME NEW rows, NEW S, IsFiniteSet(S), S # {}
  PROVE  CostOf(rows, S) = rows[First(S)].cost + CostOf(rows, S \ {First(S)})
<1> DEFINE T == S \ {First(S)}
<1>1. CostOf(rows, S) = rows[First(S)].cost + Summed(rows, S)[T]
  BY CostIsSummed, SummedStep DEF SumStep
<1>2. Summed(rows, S)[T] = CostOf(rows, T)
  BY CostIsSummed, SummedAgree
<1> QED BY <1>1, <1>2

Priced(rows, S) == \A r \in S : rows[r].cost \in Nat

(* A sum of prices is a natural.                                           *)
LEMMA CostType ==
  ASSUME NEW rows, NEW S, IsFiniteSet(S), Priced(rows, S)
  PROVE  CostOf(rows, S) \in Nat
<1> DEFINE Wrong == {T \in SUBSET S : CostOf(rows, T) \notin Nat}
<1> SUFFICES ASSUME Wrong # {} PROVE FALSE
  OBVIOUS
<1>1. \A T \in SUBSET S : IsFiniteSet(T)
  BY FS_Subset
<1>2. PICK T \in Wrong : \A U \in Wrong : Cardinality(T) <= Cardinality(U)
  BY <1>1, LeastSet
<1>3. T # {}
  BY <1>2, CostOfNone
<1> DEFINE U == T \ {First(T)}
<1>4. U \in SUBSET S /\ U \notin Wrong
  <2>1. Cardinality(T) \in Nat /\ Cardinality(U) = Cardinality(T) - 1
    BY <1>1, <1>2, <1>3, Smaller
  <2>2. U \in SUBSET S
    BY <1>2
  <2> HIDE DEF Wrong, U
  <2> QED BY <1>2, <2>1, <2>2
<1>5. CostOf(rows, U) \in Nat
  BY <1>4
<1>6. rows[First(T)].cost \in Nat
  BY <1>2, <1>3, FirstIn DEF Priced
<1>7. CostOf(rows, T) = rows[First(T)].cost + CostOf(rows, U)
  BY <1>1, <1>2, <1>3, CostOfFirst
<1>8. CostOf(rows, T) \in Nat
  BY <1>5, <1>6, <1>7
<1> QED BY <1>2, <1>8

(* The order does not matter: any row may be counted last.                 *)
LEMMA CostOfAny ==
  ASSUME NEW rows, NEW S, IsFiniteSet(S), Priced(rows, S), NEW x \in S
  PROVE  CostOf(rows, S) = rows[x].cost + CostOf(rows, S \ {x})
<1> DEFINE Wrong == {T \in SUBSET S :
                       \E y \in T : CostOf(rows, T) # rows[y].cost + CostOf(rows, T \ {y})}
<1> SUFFICES ASSUME Wrong # {} PROVE FALSE
  OBVIOUS
<1>1. \A T \in SUBSET S : IsFiniteSet(T) /\ CostOf(rows, T) \in Nat
  BY FS_Subset, CostType DEF Priced
<1>2. PICK T \in Wrong : \A U \in Wrong : Cardinality(T) <= Cardinality(U)
  BY <1>1, LeastSet
<1>3. PICK y \in T : CostOf(rows, T) # rows[y].cost + CostOf(rows, T \ {y})
  BY <1>2
<1> DEFINE z == First(T)
           U == T \ {z}
           V == T \ {y}
           W == U \ {y}
<1>4. z \in T /\ T \in SUBSET S /\ T # {}
  BY <1>2, <1>3, FirstIn
<1>5. CostOf(rows, T) = rows[z].cost + CostOf(rows, U)
  BY <1>1, <1>4, CostOfFirst
<1>6. y # z
  BY <1>3, <1>5
<1>7. /\ U \in SUBSET S /\ V \in SUBSET S /\ W \in SUBSET S /\ W = V \ {z}
      /\ y \in U /\ z \in V
  BY <1>4, <1>6
<1>8. Cardinality(T) \in Nat /\ Cardinality(U) = Cardinality(T) - 1
                             /\ Cardinality(V) = Cardinality(T) - 1
  BY <1>1, <1>4, FS_RemoveElement, FS_CardinalityType
<1>9. U \notin Wrong /\ V \notin Wrong
  <2> HIDE DEF Wrong, U, V
  <2> QED BY <1>2, <1>8
<1>10. CostOf(rows, U) = rows[y].cost + CostOf(rows, W)
  BY <1>7, <1>9
<1>11. CostOf(rows, V) = rows[z].cost + CostOf(rows, W)
  BY <1>7, <1>9
<1>12. rows[y].cost \in Nat /\ rows[z].cost \in Nat /\ CostOf(rows, W) \in Nat
  BY <1>1, <1>4, <1>7 DEF Priced
<1> HIDE DEF z, U, V, W
<1>13. CostOf(rows, T) = rows[y].cost + CostOf(rows, V)
  BY <1>5, <1>10, <1>11, <1>12
<1> QED BY <1>3, <1>13 DEF V

(* A sum depends on the prices of its rows only, and a part costs no more  *)
(* than the whole.                                                         *)
LEMMA CostAgrees ==
  ASSUME NEW rows, NEW other, NEW S, IsFiniteSet(S),
         \A r \in S : rows[r].cost = other[r].cost
  PROVE  CostOf(rows, S) = CostOf(other, S)
<1> DEFINE Wrong == {T \in SUBSET S : CostOf(rows, T) # CostOf(other, T)}
<1> SUFFICES ASSUME Wrong # {} PROVE FALSE
  OBVIOUS
<1>1. \A T \in SUBSET S : IsFiniteSet(T)
  BY FS_Subset
<1>2. PICK T \in Wrong : \A U \in Wrong : Cardinality(T) <= Cardinality(U)
  BY <1>1, LeastSet
<1>3. T # {}
  BY <1>2, CostOfNone
<1> DEFINE U == T \ {First(T)}
<1>4. U \in SUBSET S /\ U \notin Wrong
  <2>1. Cardinality(T) \in Nat /\ Cardinality(U) = Cardinality(T) - 1
    BY <1>1, <1>2, <1>3, Smaller
  <2>2. U \in SUBSET S
    BY <1>2
  <2> HIDE DEF Wrong, U
  <2> QED BY <1>2, <2>1, <2>2
<1>5. CostOf(rows, U) = CostOf(other, U)
  BY <1>4
<1>6. rows[First(T)].cost = other[First(T)].cost
  BY <1>2, <1>3, FirstIn
<1>7. /\ CostOf(rows, T) = rows[First(T)].cost + CostOf(rows, U)
      /\ CostOf(other, T) = other[First(T)].cost + CostOf(other, U)
  BY <1>1, <1>2, <1>3, CostOfFirst
<1>8. CostOf(rows, T) = CostOf(other, T)
  BY <1>5, <1>6, <1>7
<1> QED BY <1>2, <1>8

LEMMA CostOfPart ==
  ASSUME NEW rows, NEW S, IsFiniteSet(S), Priced(rows, S), NEW T \in SUBSET S
  PROVE  CostOf(rows, T) <= CostOf(rows, S)
<1> DEFINE Wrong == {U \in SUBSET S : T \subseteq U /\ ~(CostOf(rows, T) <= CostOf(rows, U))}
<1> SUFFICES ASSUME Wrong # {} PROVE FALSE
  OBVIOUS
<1>1. \A U \in SUBSET S : IsFiniteSet(U) /\ Priced(rows, U) /\ CostOf(rows, U) \in Nat
  BY FS_Subset, CostType DEF Priced
<1>2. PICK U \in Wrong : \A V \in Wrong : Cardinality(U) <= Cardinality(V)
  BY <1>1, LeastSet
<1>3. U # T
  BY <1>1, <1>2
<1>4. PICK x \in U : x \notin T
  BY <1>2, <1>3
<1> DEFINE V == U \ {x}
<1>5. Cardinality(U) \in Nat /\ Cardinality(V) = Cardinality(U) - 1
  BY <1>1, <1>2, <1>4, FS_RemoveElement, FS_CardinalityType
<1>6. V \in SUBSET S /\ T \subseteq V /\ V \notin Wrong
  BY <1>2, <1>4, <1>5
<1>7. CostOf(rows, T) <= CostOf(rows, V)
  BY <1>6
<1>8. CostOf(rows, U) = rows[x].cost + CostOf(rows, V)
  BY <1>1, <1>2, <1>4, CostOfAny
<1>9. rows[x].cost \in Nat /\ CostOf(rows, V) \in Nat /\ CostOf(rows, T) \in Nat
  BY <1>1, <1>2, <1>4, <1>6 DEF Priced
<1>10. CostOf(rows, T) <= CostOf(rows, U)
  BY <1>7, <1>8, <1>9
<1> QED BY <1>2, <1>10

(* Repricing, adding or removing one row x.                                *)
LEMMA CostOfChange ==
  ASSUME NEW rows, NEW S, IsFiniteSet(S), Priced(rows, S),
         NEW other, NEW T, IsFiniteSet(T), Priced(other, T),
         NEW x, S \ {x} = T \ {x},
         \A r \in S \ {x} : rows[r].cost = other[r].cost
  PROVE  /\ x \in T => CostOf(other, T) <= CostOf(rows, S) + other[x].cost
         /\ x \notin T => CostOf(other, T) <= CostOf(rows, S)
<1> DEFINE U == S \ {x}
<1>1. IsFiniteSet(U) /\ U \in SUBSET S
  BY FS_Subset
<1>2. CostOf(rows, U) <= CostOf(rows, S)
  BY <1>1, CostOfPart
<1>3. CostOf(rows, U) = CostOf(other, U)
  BY <1>1, CostAgrees
<1>4. CostOf(rows, U) \in Nat /\ CostOf(rows, S) \in Nat
  BY <1>1, CostType DEF Priced
<1>5. CASE x \in T
  <2>1. CostOf(other, T) = other[x].cost + CostOf(other, U)
    BY <1>5, CostOfAny
  <2>2. other[x].cost \in Nat
    BY <1>5 DEF Priced
  <2> HIDE DEF U
  <2> QED BY <1>2, <1>3, <1>4, <1>5, <2>1, <2>2
<1>6. CASE x \notin T
  <2>1. T = U
    BY <1>6
  <2> HIDE DEF U
  <2> QED BY <1>2, <1>3, <1>6, <2>1
<1> QED BY <1>5, <1>6
-----------------------------------------------------------------------------
(* Recursion along the naturals: a step given as a function has a solution.*)
PartialSolutions(T, base, step, n) ==
  {g \in [0..n -> T] : g[0] = base /\ \A m \in 0..(n - 1) : g[m + 1] = step[<<m + 1, g[m]>>]}

LEMMA PartialExtends ==
  ASSUME NEW T, NEW base \in T, NEW step \in [Nat \X T -> T], NEW n \in Nat,
         NEW g \in PartialSolutions(T, base, step, n)
  PROVE  PartialSolutions(T, base, step, n + 1) # {}
<1> DEFINE h == [k \in 0..(n + 1) |-> IF k = n + 1 THEN step[<<n + 1, g[n]>>] ELSE g[k]]
<1>0. g \in [0..n -> T]
  BY DEF PartialSolutions
<1>1. g[n] \in T /\ <<n + 1, g[n]>> \in Nat \X T
  BY <1>0
<1>2. h \in [0..(n + 1) -> T]
  BY <1>0, <1>1
<1>3. h[0] = base
  BY DEF PartialSolutions
<1>4. ASSUME NEW m \in 0..n PROVE h[m + 1] = step[<<m + 1, h[m]>>]
  <2>1. h[m] = g[m]
    OBVIOUS
  <2>2. CASE m = n
    <3>1. h[n + 1] = step[<<n + 1, g[n]>>]
      OBVIOUS
    <3> HIDE DEF h
    <3> QED BY <2>1, <2>2, <3>1
  <2>3. CASE m # n
    <3>1. m \in 0..(n - 1) /\ m + 1 \in 0..(n + 1) /\ m + 1 # n + 1
      BY <2>3
    <3>2. h[m + 1] = g[m + 1]
      BY <3>1
    <3> HIDE DEF h
    <3> QED BY <2>1, <3>1, <3>2 DEF PartialSolutions
  <2> QED BY <2>2, <2>3
<1>5. (n + 1) - 1 = n
  OBVIOUS
<1> HIDE DEF h
<1>6. h \in PartialSolutions(T, base, step, n + 1)
  BY <1>2, <1>3, <1>4, <1>5 DEF PartialSolutions
<1> QED BY <1>6

LEMMA PartialExists ==
  ASSUME NEW T, NEW base \in T, NEW step \in [Nat \X T -> T], NEW n \in Nat
  PROVE  PartialSolutions(T, base, step, n) # {}
<1> DEFINE Wrong == {k \in Nat : PartialSolutions(T, base, step, k) = {}}
<1> SUFFICES ASSUME Wrong # {} PROVE FALSE
  OBVIOUS
<1>1. PICK k \in Wrong : \A m \in Wrong : k <= m
  BY LeastNat
<1>2. CASE k = 0
  <2>1. [m \in 0..0 |-> base] \in PartialSolutions(T, base, step, 0)
    BY DEF PartialSolutions
  <2> QED BY <1>1, <1>2, <2>1
<1>3. CASE k # 0
  <2>1. k - 1 \in Nat /\ k - 1 \notin Wrong /\ (k - 1) + 1 = k
    BY <1>1, <1>3
  <2>2. PICK g : g \in PartialSolutions(T, base, step, k - 1)
    BY <2>1
  <2> QED BY <1>1, <2>1, <2>2, PartialExtends
<1> QED BY <1>2, <1>3

LEMMA PartialsAgree ==
  ASSUME NEW T, NEW base, NEW step, NEW n \in Nat, NEW m \in Nat,
         NEW g \in PartialSolutions(T, base, step, n), NEW h \in PartialSolutions(T, base, step, m),
         NEW k \in Nat, k <= n, k <= m
  PROVE  g[k] = h[k]
<1> DEFINE Wrong == {j \in Nat : j <= n /\ j <= m /\ g[j] # h[j]}
<1> SUFFICES ASSUME Wrong # {} PROVE FALSE
  OBVIOUS
<1>1. PICK j \in Wrong : \A i \in Wrong : j <= i
  BY LeastNat
<1>2. j # 0
  BY <1>1 DEF PartialSolutions
<1>3. j - 1 \in Nat /\ j - 1 \notin Wrong /\ j - 1 \in 0..(n - 1) /\ j - 1 \in 0..(m - 1)
      /\ (j - 1) + 1 = j
  BY <1>1, <1>2
<1>4. g[j - 1] = h[j - 1]
  BY <1>3
<1>5. g[j] = step[<<j, g[j - 1]>>] /\ h[j] = step[<<j, h[j - 1]>>]
  <2>1. /\ g[(j - 1) + 1] = step[<<(j - 1) + 1, g[j - 1]>>]
        /\ h[(j - 1) + 1] = step[<<(j - 1) + 1, h[j - 1]>>]
    BY <1>3 DEF PartialSolutions
  <2> QED BY <1>3, <2>1
<1> QED BY <1>1, <1>4, <1>5

Solves(f, T, base, step) ==
  /\ f \in [Nat -> T]
  /\ f[0] = base
  /\ \A n \in Nat : f[n + 1] = step[<<n + 1, f[n]>>]

LEMMA RecursionExists ==
  ASSUME NEW T, NEW base \in T, NEW step \in [Nat \X T -> T]
  PROVE  \E f : Solves(f, T, base, step)
<1> DEFINE P(n) == CHOOSE g : g \in PartialSolutions(T, base, step, n)
           f == [n \in Nat |-> P(n)[n]]
<1>1. \A n \in Nat : P(n) \in PartialSolutions(T, base, step, n)
  BY PartialExists
<1>2. \A n \in Nat : P(n) \in [0..n -> T] /\ P(n)[0] = base
  BY <1>1 DEF PartialSolutions
<1> HIDE DEF P
<1>3. f \in [Nat -> T] /\ f[0] = base
  BY <1>2
<1>4. ASSUME NEW n \in Nat PROVE f[n + 1] = step[<<n + 1, f[n]>>]
  <2>1. P(n + 1)[n] = P(n)[n]
    BY <1>1, PartialsAgree
  <2>2. n \in 0..((n + 1) - 1) /\ n + 1 \in Nat
    OBVIOUS
  <2>3. P(n + 1)[n + 1] = step[<<n + 1, P(n + 1)[n]>>]
    BY <1>1, <2>2 DEF PartialSolutions
  <2> QED BY <2>1, <2>2, <2>3
<1> HIDE DEF f
<1>5. Solves(f, T, base, step)
  BY <1>3, <1>4 DEF Solves
<1> QED BY <1>5

-----------------------------------------------------------------------------
(* The concatenation of a sequence of sequences is one, and has the        *)
(* members of each of them.                                                *)
Joined(seqs) ==
  CHOOSE f : f = [i \in 1..Len(seqs) |-> IF i = 1 THEN seqs[i] ELSE f[i - 1] \o seqs[i]]

LEMMA FlattenIsJoined ==
  ASSUME NEW seqs, Len(seqs) # 0
  PROVE  FlattenSeq(seqs) = Joined(seqs)[Len(seqs)]
BY DEF FlattenSeq, Joined

LEMMA JoinedStep ==
  ASSUME NEW S, NEW seqs \in Seq(Seq(S)), NEW k \in 1..Len(seqs)
  PROVE  Joined(seqs)[k] = IF k = 1 THEN seqs[k] ELSE Joined(seqs)[k - 1] \o seqs[k]
<1> DEFINE n == Len(seqs)
           T == Seq(S)
           step == [p \in Nat \X T |-> IF p[1] \in 1..n THEN p[2] \o seqs[p[1]] ELSE p[2]]
           none == <<>>
<1>1. \A i \in 1..n : seqs[i] \in T
  BY ElementOfSeq
<1>2. step \in [Nat \X T -> T] /\ none \in T
  BY <1>1
<1>3. ASSUME NEW i \in 1..n, NEW s \in T PROVE step[<<i, s>>] = s \o seqs[i]
  <2> HIDE DEF T
  <2> DEFINE p == <<i, s>>
  <2>1. p \in Nat \X T /\ p[1] = i /\ p[2] = s
    OBVIOUS
  <2> HIDE DEF p
  <2>2. step[p] = p[2] \o seqs[p[1]]
    BY <2>1
  <2> QED BY <2>1, <2>2 DEF p
<1> HIDE DEF step, T, none
<1>4. PICK f : Solves(f, T, none, step)
  BY <1>2, RecursionExists
<1> DEFINE g == [i \in 1..n |-> f[i]]
<1>5. ASSUME NEW i \in 1..n PROVE f[i] = IF i = 1 THEN seqs[i] ELSE g[i - 1] \o seqs[i]
  <2> DEFINE m == i - 1
  <2>1. m \in Nat /\ m + 1 = i /\ (i = 1 => m = 0) /\ (i # 1 => m \in 1..n)
    OBVIOUS
  <2> HIDE DEF m
  <2>2. f[i] = f[m] \o seqs[i]
    <3>1. f[m + 1] = step[<<m + 1, f[m]>>] /\ f[m] \in T
      BY <1>4, <2>1 DEF Solves
    <3> QED BY <1>3, <2>1, <3>1
  <2>3. CASE i = 1
    <3>1. f[m] = <<>> /\ seqs[i] \in Seq(S)
      BY <1>1, <1>4, <2>1, <2>3 DEF T, none, Solves
    <3>2. <<>> \o seqs[i] = seqs[i]
      BY <3>1
    <3> QED BY <2>2, <2>3, <3>1, <3>2
  <2>4. CASE i # 1
    <3>1. g[m] = f[m]
      BY <2>1, <2>4
    <3> HIDE DEF g
    <3> QED BY <2>2, <2>4, <3>1 DEF m
  <2> QED BY <2>3, <2>4
<1>6. g = [i \in 1..n |-> IF i = 1 THEN seqs[i] ELSE g[i - 1] \o seqs[i]]
  BY <1>5
<1> HIDE DEF g
<1>7. \E h : h = [i \in 1..n |-> IF i = 1 THEN seqs[i] ELSE h[i - 1] \o seqs[i]]
  BY <1>6
<1> DEFINE j == Joined(seqs)
<1>8. j = [i \in 1..n |-> IF i = 1 THEN seqs[i] ELSE j[i - 1] \o seqs[i]]
  BY <1>7 DEF Joined
<1> HIDE DEF j
<1>9. j[k] = IF k = 1 THEN seqs[k] ELSE j[k - 1] \o seqs[k]
  BY <1>8
<1> QED BY <1>9 DEF j

LEMMA JoinedHas ==
  ASSUME NEW S, NEW seqs \in Seq(Seq(S)), NEW k \in 1..Len(seqs)
  PROVE  /\ Joined(seqs)[k] \in Seq(S)
         /\ \A i \in 1..k : \A x \in DOMAIN seqs[i] :
              \E y \in DOMAIN Joined(seqs)[k] : Joined(seqs)[k][y] = seqs[i][x]
<1> DEFINE n == Len(seqs)
           f == Joined(seqs)
           Good(m) == /\ f[m] \in Seq(S)
                      /\ \A i \in 1..m : \A x \in DOMAIN seqs[i] :
                           \E y \in DOMAIN f[m] : f[m][y] = seqs[i][x]
           Wrong == {m \in Nat : m \in 1..n /\ ~Good(m)}
<1>0. \A i \in 1..n : seqs[i] \in Seq(S)
  BY ElementOfSeq
<1>1. \A m \in 1..n : f[m] = IF m = 1 THEN seqs[m] ELSE f[m - 1] \o seqs[m]
  BY JoinedStep
<1> HIDE DEF f
<1>2. ASSUME Wrong # {} PROVE FALSE
  <2>1. PICK m \in Wrong : \A i \in Wrong : m <= i
    BY <1>2, LeastNat
  <2>2. CASE m = 1
    <3>1. f[1] = seqs[1]
      BY <1>1, <2>1, <2>2
    <3>2. Good(1)
      BY <1>0, <2>1, <2>2, <3>1
    <3> QED BY <2>1, <2>2, <3>2
  <2>3. CASE m # 1
    <3>1. m - 1 \in 1..n /\ m - 1 \in Nat /\ m - 1 \notin Wrong
      <4>1. m \in 1..n /\ m \in Nat
        BY <2>1
      <4> HIDE DEF Wrong
      <4> QED BY <2>1, <2>3, <4>1
    <3>2. Good(m - 1)
      BY <3>1
    <3> DEFINE a == f[m - 1]
               b == seqs[m]
    <3>3. a \in Seq(S) /\ b \in Seq(S) /\ f[m] = a \o b
      BY <1>0, <1>1, <2>1, <2>3, <3>2
    <3>4. /\ f[m] \in Seq(S)
          /\ \A y \in DOMAIN a : y \in DOMAIN f[m] /\ f[m][y] = a[y]
          /\ \A y \in DOMAIN b : Len(a) + y \in DOMAIN f[m] /\ f[m][Len(a) + y] = b[y]
      <4> DEFINE c == f[m]
      <4> HIDE DEF a, b, c
      <4>1. a \in Seq(S) /\ b \in Seq(S) /\ c = a \o b
        BY <3>3 DEF c
      <4>2. c \in Seq(S)
        BY <4>1
      <4>3. \A y \in DOMAIN a : y \in DOMAIN c /\ c[y] = a[y]
        BY <4>1
      <4>4. /\ Len(a) \in Nat /\ Len(b) \in Nat
            /\ DOMAIN b = 1..Len(b) /\ DOMAIN c = 1..(Len(a) + Len(b))
        BY <4>1
      <4>5. ASSUME NEW y \in DOMAIN b
            PROVE  Len(a) + y \in DOMAIN c /\ c[Len(a) + y] = b[y]
        <5>1. Len(a) + y \in DOMAIN c
          BY <4>4
        <5>2. Len(a) + y > Len(a) /\ (Len(a) + y) - Len(a) = y
          BY <4>4
        <5> QED BY <4>1, <4>4, <5>1, <5>2
      <4> QED BY <4>2, <4>3, <4>5 DEF c
    <3>5. ASSUME NEW i \in 1..m, NEW x \in DOMAIN seqs[i]
          PROVE  \E y \in DOMAIN f[m] : f[m][y] = seqs[i][x]
      <4>1. CASE i = m
        BY <3>4, <3>5, <4>1
      <4>2. CASE i # m
        <5>1. i \in 1..(m - 1)
          BY <2>1, <4>2
        <5>2. PICK y \in DOMAIN a : a[y] = seqs[i][x]
          BY <3>2, <3>5, <5>1
        <5> QED BY <3>4, <5>2
      <4> QED BY <4>1, <4>2
    <3>6. Good(m)
      BY <3>4, <3>5
    <3> QED BY <2>1, <3>6
  <2> QED BY <2>2, <2>3
<1>3. k \in Nat /\ k \notin Wrong
  <2> HIDE DEF Wrong
  <2> QED BY <1>2
<1>4. Good(k)
  BY <1>3
<1> QED BY <1>4 DEF f

LEMMA FlattenHas ==
  ASSUME NEW S, NEW seqs \in Seq(Seq(S))
  PROVE  /\ FlattenSeq(seqs) \in Seq(S)
         /\ \A i \in DOMAIN seqs : \A x \in DOMAIN seqs[i] :
              \E y \in DOMAIN FlattenSeq(seqs) : FlattenSeq(seqs)[y] = seqs[i][x]
<1>0. Len(seqs) \in Nat /\ DOMAIN seqs = 1..Len(seqs)
  OBVIOUS
<1>1. CASE Len(seqs) = 0
  <2>1. FlattenSeq(seqs) = seqs
    BY <1>1 DEF FlattenSeq
  <2>2. seqs = <<>>
    BY <1>1
  <2>3. seqs \in Seq(S) /\ DOMAIN seqs = {}
    BY <2>2
  <2> QED BY <2>1, <2>3
<1>2. CASE Len(seqs) # 0
  <2>1. Len(seqs) \in 1..Len(seqs) /\ FlattenSeq(seqs) = Joined(seqs)[Len(seqs)]
    BY <1>0, <1>2, FlattenIsJoined
  <2> QED BY <1>0, <2>1, JoinedHas
<1> QED BY <1>1, <1>2

-----------------------------------------------------------------------------
(* A finite set can be listed in the order of a rank.                      *)
InOrder(s, rank) == \A j, k \in DOMAIN s : j < k => rank[s[j]] <= rank[s[k]]

LEMMA SortedExists ==
  ASSUME NEW S, IsFiniteSet(S), NEW rank \in [S -> Nat]
  PROVE  \E s \in SetToSeqs(S) : InOrder(s, rank)
<1> DEFINE Wrong == {D \in SUBSET S : ~\E s \in SetToSeqs(D) : InOrder(s, rank)}
<1> SUFFICES ASSUME Wrong # {} PROVE FALSE
  OBVIOUS
<1>1. \A D \in SUBSET S : IsFiniteSet(D) /\ Cardinality(D) \in Nat
  BY FS_Subset, FS_CardinalityType
<1>2. PICK D \in Wrong : \A U \in Wrong : Cardinality(D) <= Cardinality(U)
  BY <1>1, LeastSet
<1>3. CASE D = {}
  <2> DEFINE s == [i \in 1..0 |-> 0]
  <2>1. 1..Cardinality(D) = 1..0 /\ 1..0 = {}
    BY <1>3, FS_EmptySet
  <2>2. s \in SetToSeqs(D) /\ InOrder(s, rank)
    BY <2>1 DEF SetToSeqs, InOrder
  <2> QED BY <1>2, <2>2
<1>4. CASE D # {}
  <2> DEFINE Ranks == {rank[y] : y \in D}
  <2>1. Ranks \subseteq Nat /\ Ranks # {}
    BY <1>2, <1>4
  <2>2. PICK r \in Ranks : \A q \in Ranks : r <= q
    BY <2>1, LeastNat
  <2>3. PICK x \in D : rank[x] = r
    BY <2>2
  <2>4. \A y \in D : rank[x] <= rank[y]
    BY <2>2, <2>3
  <2> DEFINE U == D \ {x}
             n == Cardinality(U)
  <2>5. n \in Nat /\ Cardinality(D) = n + 1 /\ U \in SUBSET S
    BY <1>1, <1>2, <2>3, FS_RemoveElement
  <2>6. U \notin Wrong
    <3> HIDE DEF Wrong, U
    <3> QED BY <1>2, <2>5
  <2>7. PICK s \in SetToSeqs(U) : InOrder(s, rank)
    BY <2>5, <2>6
  <2> HIDE DEF n
  <2>8. /\ s \in [1..n -> U]
        /\ \A i, j \in 1..n : i # j => s[i] # s[j]
        /\ \A i, j \in 1..n : i < j => rank[s[i]] <= rank[s[j]]
    BY <2>7 DEF SetToSeqs, InOrder, n
  <2> DEFINE t == [i \in 1..(n + 1) |-> IF i = 1 THEN x ELSE s[i - 1]]
  <2>9. \A i \in 1..(n + 1) : i # 1 => i - 1 \in 1..n
    BY <2>5
  <2>10. /\ t \in [1..(n + 1) -> D]
         /\ t[1] = x
         /\ \A i \in 1..(n + 1) : i # 1 => t[i] = s[i - 1] /\ t[i] \in U
    BY <2>3, <2>5, <2>8, <2>9
  <2> HIDE DEF t
  <2>11. ASSUME NEW i \in 1..(n + 1), NEW j \in 1..(n + 1), i # j
         PROVE  t[i] # t[j]
    <3>1. CASE i = 1 \/ j = 1
      BY <2>10, <2>11, <3>1
    <3>2. CASE i # 1 /\ j # 1
      <4>1. i - 1 \in 1..n /\ j - 1 \in 1..n /\ i - 1 # j - 1
        BY <2>9, <2>11, <3>2
      <4> QED BY <2>8, <2>10, <3>2, <4>1
    <3> QED BY <3>1, <3>2
  <2>12. ASSUME NEW i \in 1..(n + 1), NEW j \in 1..(n + 1), i < j
         PROVE  rank[t[i]] <= rank[t[j]]
    <3>1. CASE i = 1
      BY <2>4, <2>10, <3>1
    <3>2. CASE i # 1
      <4>1. i - 1 \in 1..n /\ j - 1 \in 1..n /\ i - 1 < j - 1 /\ j # 1
        BY <2>9, <2>12, <3>2
      <4> QED BY <2>8, <2>10, <3>2, <4>1
    <3> QED BY <3>1, <3>2
  <2>13. t \in SetToSeqs(D)
    BY <2>5, <2>10, <2>11 DEF SetToSeqs
  <2>14. InOrder(t, rank)
    BY <2>10, <2>12 DEF InOrder
  <2> QED BY <1>2, <2>13, <2>14
<1> QED BY <1>3, <1>4

-----------------------------------------------------------------------------
(* Where the members of a concatenation come from: row says of which of    *)
(* the sequences, col at which of its places, in order, none left out.     *)
Places(f, seqs, k, row, col) ==
  /\ \A y \in DOMAIN f : /\ row[y] \in 1..k /\ col[y] \in DOMAIN seqs[row[y]]
                         /\ f[y] = seqs[row[y]][col[y]]
  /\ \A y, z \in DOMAIN f :
       y < z => row[y] < row[z] \/ (row[y] = row[z] /\ col[y] < col[z])
  /\ \A i \in 1..k : \A x \in DOMAIN seqs[i] : \E y \in DOMAIN f : row[y] = i /\ col[y] = x

LEMMA PlacesJoin ==
  ASSUME NEW S, NEW f \in Seq(S), NEW b \in Seq(S), NEW k \in Nat, NEW seqs, seqs[k + 1] = b,
         NEW row, NEW col, Places(f, seqs, k, row, col)
  PROVE  \E r, c : Places(f \o b, seqs, k + 1, r, c)
<1> DEFINE n == Len(f)
           m == Len(b)
           g == f \o b
           r == [y \in 1..(n + m) |-> IF y \in 1..n THEN row[y] ELSE k + 1]
           c == [y \in 1..(n + m) |-> IF y \in 1..n THEN col[y] ELSE y - n]
<1>1. /\ n \in Nat /\ m \in Nat /\ DOMAIN f = 1..n /\ DOMAIN b = 1..m /\ DOMAIN g = 1..(n + m)
      /\ \A y \in 1..n : g[y] = f[y]
      /\ \A x \in 1..m : n + x \in 1..(n + m) /\ g[n + x] = b[x]
  OBVIOUS
<1>2. \A y \in 1..(n + m) : y \in 1..n \/ (y > n /\ y - n \in 1..m /\ n + (y - n) = y)
  BY <1>1
<1>3. 1..n \subseteq 1..(n + m) /\ \A x \in 1..m : n + x \notin 1..n /\ (n + x) - n = x
  BY <1>1
<1> HIDE DEF n, m, g
<1>4. /\ \A y \in 1..n : r[y] = row[y] /\ c[y] = col[y]
      /\ \A y \in 1..(n + m) : y \notin 1..n => r[y] = k + 1 /\ c[y] = y - n
  BY <1>3
<1> HIDE DEF r, c
<1>5. \A y \in 1..n : /\ row[y] \in 1..k /\ col[y] \in DOMAIN seqs[row[y]]
                      /\ f[y] = seqs[row[y]][col[y]]
  BY <1>1 DEF Places
<1>6. ASSUME NEW y \in DOMAIN g
      PROVE  r[y] \in 1..(k + 1) /\ c[y] \in DOMAIN seqs[r[y]] /\ g[y] = seqs[r[y]][c[y]]
  <2>1. CASE y \in 1..n
    <3>1. r[y] = row[y] /\ c[y] = col[y]
      BY <1>4, <2>1
    <3>2. row[y] \in 1..k /\ col[y] \in DOMAIN seqs[row[y]] /\ f[y] = seqs[row[y]][col[y]]
      BY <1>5, <2>1
    <3>3. g[y] = f[y]
      BY <1>1, <2>1
    <3>4. r[y] \in 1..(k + 1)
      BY <3>1, <3>2
    <3> QED BY <3>1, <3>2, <3>3, <3>4
  <2>2. CASE y \notin 1..n
    <3>1. y - n \in 1..m /\ n + (y - n) = y /\ r[y] = k + 1 /\ c[y] = y - n
      BY <1>1, <1>2, <1>4, <2>2
    <3>2. g[y] = b[y - n]
      BY <1>1, <3>1
    <3> QED BY <1>1, <3>1, <3>2
  <2> QED BY <2>1, <2>2
<1>7. ASSUME NEW y \in DOMAIN g, NEW z \in DOMAIN g, y < z
      PROVE  r[y] < r[z] \/ (r[y] = r[z] /\ c[y] < c[z])
  <2>1. CASE z \in 1..n
    <3>1. y \in 1..n
      BY <1>1, <1>7, <2>1
    <3> QED BY <1>1, <1>4, <1>7, <2>1, <3>1 DEF Places
  <2>2. CASE z \notin 1..n /\ y \in 1..n
    <3>1. r[y] \in 1..k /\ r[z] = k + 1
      BY <1>1, <1>4, <1>5, <2>2
    <3> QED BY <3>1
  <2>3. CASE z \notin 1..n /\ y \notin 1..n
    <3>1. r[y] = r[z] /\ c[y] = y - n /\ c[z] = z - n
      BY <1>1, <1>4, <2>3
    <3> QED BY <1>1, <1>7, <3>1
  <2> QED BY <2>1, <2>2, <2>3
<1>8. ASSUME NEW i \in 1..(k + 1), NEW x \in DOMAIN seqs[i]
      PROVE  \E y \in DOMAIN g : r[y] = i /\ c[y] = x
  <2>1. CASE i = k + 1
    <3>1. x \in 1..m
      BY <1>1, <1>8, <2>1
    <3>2. n + x \in 1..(n + m) /\ n + x \notin 1..n /\ (n + x) - n = x
      BY <1>1, <1>3, <3>1
    <3> QED BY <1>1, <1>4, <2>1, <3>2
  <2>2. CASE i # k + 1
    <3>1. i \in 1..k
      BY <2>2
    <3>2. PICK y \in 1..n : row[y] = i /\ col[y] = x
      BY <1>1, <1>8, <3>1 DEF Places
    <3> QED BY <1>1, <1>3, <1>4, <3>2
  <2> QED BY <2>1, <2>2
<1>9. Places(g, seqs, k + 1, r, c)
  BY <1>6, <1>7, <1>8 DEF Places
<1> QED BY <1>9 DEF g

LEMMA NoPlaces == ASSUME NEW seqs PROVE \E row, col : Places(<<>>, seqs, 0, row, col)
<1> DEFINE none == <<>>
<1>1. DOMAIN none = {} /\ 1..0 = {}
  OBVIOUS
<1> HIDE DEF none
<1>2. Places(none, seqs, 0, none, none)
  BY <1>1 DEF Places
<1> QED BY <1>2 DEF none

LEMMA FlattenPlaces ==
  ASSUME NEW S, NEW seqs \in Seq(Seq(S))
  PROVE  \E row, col : Places(FlattenSeq(seqs), seqs, Len(seqs), row, col)
<1> DEFINE n == Len(seqs)
           f == Joined(seqs)
           Good(m) == \E row, col : Places(f[m], seqs, m, row, col)
           Wrong == {m \in Nat : m \in 1..n /\ ~Good(m)}
<1>0. n \in Nat /\ \A i \in 1..n : seqs[i] \in Seq(S)
  BY ElementOfSeq
<1>1. \A m \in 1..n : /\ f[m] = IF m = 1 THEN seqs[m] ELSE f[m - 1] \o seqs[m]
                      /\ f[m] \in Seq(S)
  BY JoinedStep, JoinedHas
<1>2. CASE n = 0
  <2>1. FlattenSeq(seqs) = seqs
    BY <1>2 DEF FlattenSeq
  <2>2. seqs = <<>>
    BY <1>2
  <2> QED BY <1>2, <2>1, <2>2, NoPlaces
<1>3. CASE n # 0
  <2>1. ASSUME Wrong # {} PROVE FALSE
    <3>1. PICK m \in Wrong : \A i \in Wrong : m <= i
      BY <2>1, LeastNat
    <3> HIDE DEF f
    <3>2. m \in 1..n /\ m \in Nat /\ ~Good(m)
      BY <3>1
    <3>3. CASE m = 1
      <4>1. PICK row, col : Places(<<>>, seqs, 0, row, col)
        BY NoPlaces
      <4> DEFINE none == <<>>
      <4>2. none \in Seq(S) /\ seqs[0 + 1] \in Seq(S) /\ 0 \in Nat /\ 0 + 1 = 1
        BY <1>0, <3>2, <3>3
      <4>3. none \o seqs[0 + 1] = seqs[0 + 1]
        BY <4>2
      <4> HIDE DEF none
      <4>4. \E r, c : Places(none \o seqs[0 + 1], seqs, 0 + 1, r, c)
        BY <4>1, <4>2, PlacesJoin DEF none
      <4>5. f[1] = seqs[0 + 1]
        BY <1>1, <3>2, <3>3, <4>2
      <4>6. Good(1)
        BY <4>2, <4>3, <4>4, <4>5
      <4> QED BY <3>2, <3>3, <4>6
    <3>4. CASE m # 1
      <4> DEFINE p == m - 1
      <4>1. p \in Nat /\ p \in 1..n /\ p + 1 = m
        BY <3>2, <3>4
      <4>2. p \notin Wrong
        <5> HIDE DEF Wrong
        <5> QED BY <3>1, <3>2, <4>1
      <4> HIDE DEF p
      <4>3. PICK row, col : Places(f[p], seqs, p, row, col)
        BY <4>1, <4>2
      <4>4. f[p] \in Seq(S) /\ seqs[p + 1] \in Seq(S) /\ f[m] = f[p] \o seqs[p + 1]
        BY <1>0, <1>1, <3>2, <3>4, <4>1 DEF p
      <4>5. \E r, c : Places(f[p] \o seqs[p + 1], seqs, p + 1, r, c)
        BY <4>1, <4>3, <4>4, PlacesJoin
      <4> QED BY <3>2, <4>1, <4>4, <4>5
    <3> QED BY <3>3, <3>4
  <2>2. n \in 1..n /\ n \notin Wrong
    <3> HIDE DEF Wrong
    <3> QED BY <1>0, <1>3, <2>1
  <2>3. Good(n)
    BY <1>0, <2>2
  <2>4. FlattenSeq(seqs) = f[n]
    BY <1>3, FlattenIsJoined
  <2> QED BY <2>3, <2>4
<1> QED BY <1>2, <1>3

(* Short sequences, joined.                                                *)
LEMMA JoinOne == ASSUME NEW a, NEW b PROVE <<a>> \o <<b>> = <<a, b>>
<1> DEFINE S == {a, b}
           f == <<a>>
           g == <<b>>
           j == <<a, b>>
<1>1. /\ f \in Seq(S) /\ Len(f) = 1 /\ f[1] = a
      /\ g \in Seq(S) /\ Len(g) = 1 /\ g[1] = b
      /\ j \in Seq(S) /\ Len(j) = 2 /\ j[1] = a /\ j[2] = b
  OBVIOUS
<1> HIDE DEF S, f, g, j
<1>2. /\ f \o g \in Seq(S) /\ Len(f \o g) = Len(f) + Len(g)
      /\ \A i \in 1..Len(f) + Len(g) :
           (f \o g)[i] = IF i <= Len(f) THEN f[i] ELSE g[i - Len(f)]
  BY <1>1, ConcatProperties
<1>3. Len(f \o g) = 2 /\ (f \o g)[1] = a /\ (f \o g)[2] = b
  BY <1>1, <1>2
<1>4. \A k \in 1..Len(j) : (f \o g)[k] = j[k]
  BY <1>1, <1>3
<1>5. f \o g = j
  BY <1>1, <1>2, <1>3, <1>4, SeqEqual
<1> QED BY <1>5 DEF f, g, j

LEMMA JoinThree ==
  ASSUME NEW a, NEW b, NEW c, NEW d
  PROVE  <<a, b, c>> \o <<d>> = <<a, b, c, d>>
<1> DEFINE S == {a, b, c, d}
           f == <<a, b, c>>
           g == <<d>>
           j == <<a, b, c, d>>
<1>1. /\ f \in Seq(S) /\ Len(f) = 3 /\ f[1] = a /\ f[2] = b /\ f[3] = c
      /\ g \in Seq(S) /\ Len(g) = 1 /\ g[1] = d
      /\ j \in Seq(S) /\ Len(j) = 4 /\ j[1] = a /\ j[2] = b /\ j[3] = c /\ j[4] = d
  OBVIOUS
<1> HIDE DEF S, f, g, j
<1>2. /\ f \o g \in Seq(S) /\ Len(f \o g) = Len(f) + Len(g)
      /\ \A i \in 1..Len(f) + Len(g) :
           (f \o g)[i] = IF i <= Len(f) THEN f[i] ELSE g[i - Len(f)]
  BY <1>1, ConcatProperties
<1>3. Len(f \o g) = 4 /\ (f \o g)[1] = a /\ (f \o g)[2] = b /\ (f \o g)[3] = c
      /\ (f \o g)[4] = d
  BY <1>1, <1>2
<1>4. \A k \in 1..Len(j) : (f \o g)[k] = j[k]
  BY <1>1, <1>3
<1>5. f \o g = j
  BY <1>1, <1>2, <1>3, <1>4, SeqEqual
<1> QED BY <1>5 DEF f, g, j
=============================================================================
