------------------------------ MODULE SumsProofs ------------------------------
(***************************************************************************)
(* What the proofs need to know of a sum over the rows of a table, written *)
(* SumFunction(f): it is a whole number, it may be added up in any order,  *)
(* and when one row is inserted, changed or deleted it changes by what     *)
(* that row adds.                                                          *)
(*                                                                         *)
(* A sum is a fold, and a fold a function from the subsets of the table    *)
(* that is chosen for satisfying its equation.  That it exists, and all    *)
(* that follows, is shown without an induction theorem: of the subsets     *)
(* that a claim fails for, one would have no smaller one (SmallestSet).    *)
(***************************************************************************)
EXTENDS Integers, FiniteSets, Functions, FiniteSetTheorems, WellFoundedInduction, TLAPS

\* The equation of a sum of f over the subsets of S, and the function it chooses.
Pick(s) == CHOOSE x \in s : TRUE
IsSumTable(f, S, t) ==
    t = [s \in SUBSET S |-> IF s = {} THEN 0 ELSE f[Pick(s)] + t[s \ {Pick(s)}]]
SumTable(f, S) == CHOOSE t : IsSumTable(f, S, t)

\* SumFunctionOnSet is that function's last value.
LEMMA SumIsTable ==
    ASSUME NEW f, NEW S
    PROVE  SumFunctionOnSet(f, S) = SumTable(f, S)[S]
  BY DEF SumFunctionOnSet, FoldFunctionOnSet, MapThenFoldSet, SumTable, IsSumTable, Pick

\* Among subsets of a finite set, one has no other of them within it.
LEMMA SmallestSet ==
    ASSUME NEW S, IsFiniteSet(S), NEW T, T \subseteq SUBSET S, T # {}
    PROVE  \E s \in T : \A r \in SUBSET s : r # s => r \notin T
  <1>1. IsWellFoundedOn(StrictSubsetOrdering(S), SUBSET S)
    BY FS_StrictSubsetOrderingWellFounded, FS_FiniteSubsetsOfFinite
  <1>2. PICK s \in T : \A r \in T : <<r, s>> \notin StrictSubsetOrdering(S)
    BY <1>1, WFMin
  <1>3. ASSUME NEW r \in SUBSET s, r # s, r \in T PROVE FALSE
    BY <1>2, <1>3 DEF StrictSubsetOrdering
  <1> QED
    BY <1>3

LEMMA PickIn == ASSUME NEW s, s # {} PROVE Pick(s) \in s
  BY DEF Pick

\* The equation has one solution at most, and it depends on f over S alone.
LEMMA TableIsOne ==
    ASSUME NEW f, NEW g, NEW S, IsFiniteSet(S), \A x \in S : f[x] = g[x],
           NEW t, NEW u, IsSumTable(f, S, t), IsSumTable(g, S, u)
    PROVE  t = u
  <1> DEFINE bad == {s \in SUBSET S : t[s] # u[s]}
  <1>1. CASE bad # {}
    <2>0. bad \subseteq SUBSET S
      OBVIOUS
    <2> HIDE DEF bad
    <2>1. PICK s \in bad : \A r \in SUBSET s : r # s => r \notin bad
      BY <1>1, <2>0, SmallestSet
    <2> USE DEF bad
    <2>2. s # {}
      BY <2>1 DEF IsSumTable
    <2>3. Pick(s) \in s
      BY <2>2, PickIn
    <2>4. t[s \ {Pick(s)}] = u[s \ {Pick(s)}]
      BY <2>1, <2>3
    <2>5. t[s] = f[Pick(s)] + t[s \ {Pick(s)}] /\ u[s] = g[Pick(s)] + u[s \ {Pick(s)}]
      BY <2>2 DEF IsSumTable
    <2> QED
      BY <2>3, <2>4, <2>5
  <1>2. CASE bad = {}
    <2>1. t = [s \in SUBSET S |-> t[s]] /\ u = [s \in SUBSET S |-> u[s]]
      BY DEF IsSumTable
    <2> QED
      BY <1>2, <2>1
  <1> QED
    BY <1>1, <1>2

\* Over a part of S it has the same value there.
LEMMA TablesAgree ==
    ASSUME NEW f, NEW S, IsFiniteSet(S), NEW R, R \subseteq S,
           NEW t, IsSumTable(f, S, t), NEW u, IsSumTable(f, R, u)
    PROVE  t[R] = u[R]
  <1> DEFINE v == [s \in SUBSET R |-> t[s]]
  <1>1. ASSUME NEW s \in SUBSET R
        PROVE  v[s] = IF s = {} THEN 0 ELSE f[Pick(s)] + v[s \ {Pick(s)}]
    BY DEF IsSumTable
  <1>2. IsSumTable(f, R, v)
    BY <1>1 DEF IsSumTable
  <1>3. IsFiniteSet(R) /\ v[R] = t[R]
    BY FS_Subset
  <1> HIDE DEF v
  <1>4. v = u
    BY <1>2, <1>3, TableIsOne
  <1> QED
    BY <1>3, <1>4

\* There is a solution.
LEMMA TableExists ==
    ASSUME NEW f, NEW S, IsFiniteSet(S)
    PROVE  IsSumTable(f, S, SumTable(f, S))
  <1> DEFINE Has(s) == IsSumTable(f, s, SumTable(f, s))
             bad == {s \in SUBSET S : ~Has(s)}
  <1>1. CASE bad # {}
    <2>0. bad \subseteq SUBSET S
      OBVIOUS
    <2> HIDE DEF bad
    <2>1. PICK T \in bad : \A r \in SUBSET T : r # T => r \notin bad
      BY <1>1, <2>0, SmallestSet
    <2> USE DEF bad
    <2>6. /\ T \in SUBSET S /\ ~Has(T)
          /\ \A r \in SUBSET T : r # T => Has(r)
      BY <2>1
    <2> DEFINE t == [s \in SUBSET T |->
                       IF s = {} THEN 0
                       ELSE f[Pick(s)] + SumTable(f, s \ {Pick(s)})[s \ {Pick(s)}]]
    <2>2. ASSUME NEW V \in SUBSET T, V # T PROVE t[V] = SumTable(f, V)[V]
      <3> DEFINE p == Pick(V)
      <3>1. CASE V = {}
        BY <2>6, <2>2, <3>1 DEF IsSumTable
      <3>2. CASE V # {}
        <4>1. p \in V
          BY <3>2, PickIn
        <4>2. Has(V) /\ Has(V \ {p})
          BY <2>6, <2>2, <4>1
        <4>3. SumTable(f, V)[V] = f[p] + SumTable(f, V)[V \ {p}]
          BY <3>2, <4>2 DEF IsSumTable
        <4>4. IsFiniteSet(V) /\ V \ {p} \subseteq V
          BY FS_Subset
        <4>5. SumTable(f, V)[V \ {p}] = SumTable(f, V \ {p})[V \ {p}]
          BY <4>2, <4>4, TablesAgree
        <4> QED
          BY <3>2, <4>3, <4>5
      <3> QED
        BY <3>1, <3>2
    <2>3. ASSUME NEW s \in SUBSET T, s # {}
          PROVE  t[s \ {Pick(s)}] = SumTable(f, s \ {Pick(s)})[s \ {Pick(s)}]
      BY <2>2, <2>3, PickIn
    <2>4. IsSumTable(f, T, t)
      BY <2>3 DEF IsSumTable
    <2>5. Has(T)
      BY <2>4 DEF SumTable
    <2> QED
      BY <2>5, <2>6
  <1>2. CASE bad = {}
    BY <1>2
  <1> QED
    BY <1>1, <1>2

\* Nothing adds up to nothing.
LEMMA SumEmpty == ASSUME NEW f PROVE SumFunctionOnSet(f, {}) = 0
  <1>1. IsSumTable(f, {}, SumTable(f, {}))
    BY TableExists, FS_EmptySet
  <1>2. SumTable(f, {})[{}] = 0
    BY <1>1 DEF IsSumTable
  <1> QED
    BY <1>2, SumIsTable

\* The defining equation.
LEMMA SumStep ==
    ASSUME NEW f, NEW S, IsFiniteSet(S), S # {}
    PROVE  SumFunctionOnSet(f, S) = f[Pick(S)] + SumFunctionOnSet(f, S \ {Pick(S)})
  <1> DEFINE p == Pick(S)
             R == S \ {p}
  <1>6. IsFiniteSet(R) /\ R \in SUBSET S
    BY FS_Subset
  <1> HIDE DEF R
  <1>1. IsSumTable(f, S, SumTable(f, S)) /\ IsSumTable(f, R, SumTable(f, R))
    BY <1>6, TableExists
  <1>3. SumTable(f, S)[R] = SumTable(f, R)[R]
    BY <1>1, <1>6, TablesAgree
  <1>4. SumTable(f, S)[S] = f[p] + SumTable(f, S)[R]
    BY <1>1 DEF IsSumTable, R
  <1> QED
    BY <1>3, <1>4, SumIsTable DEF R

\* A sum depends on what is added, and on nothing else.
LEMMA SumSame ==
    ASSUME NEW f, NEW g, NEW S, IsFiniteSet(S), \A x \in S : f[x] = g[x]
    PROVE  SumFunctionOnSet(f, S) = SumFunctionOnSet(g, S)
  BY SumIsTable, TableExists, TableIsOne

\* A sum of integers is an integer.
LEMMA SumIsInt ==
    ASSUME NEW f, NEW S, IsFiniteSet(S), \A x \in S : f[x] \in Int
    PROVE  SumFunctionOnSet(f, S) \in Int
  <1> DEFINE bad == {s \in SUBSET S : SumFunctionOnSet(f, s) \notin Int}
  <1>1. CASE bad # {}
    <2>0. bad \subseteq SUBSET S
      OBVIOUS
    <2> HIDE DEF bad
    <2>1. PICK s \in bad : \A r \in SUBSET s : r # s => r \notin bad
      BY <1>1, <2>0, SmallestSet
    <2> USE DEF bad
    <2>2. s # {}
      BY SumEmpty
    <2>3. Pick(s) \in s
      BY <2>2, PickIn
    <2>4. SumFunctionOnSet(f, s \ {Pick(s)}) \in Int
      BY <2>1, <2>3
    <2>5. SumFunctionOnSet(f, s) = f[Pick(s)] + SumFunctionOnSet(f, s \ {Pick(s)})
      BY <2>2, SumStep, FS_Subset
    <2> QED
      BY <2>3, <2>4, <2>5
  <1>2. CASE bad = {}
    BY <1>2
  <1> QED
    BY <1>1, <1>2

\* Any element may be taken out first.
LEMMA SumTakesOut ==
    ASSUME NEW f, NEW S, IsFiniteSet(S), \A x \in S : f[x] \in Int, NEW x \in S
    PROVE  SumFunctionOnSet(f, S) = f[x] + SumFunctionOnSet(f, S \ {x})
  <1> DEFINE Ok(s) == \A y \in s :
                       SumFunctionOnSet(f, s) = f[y] + SumFunctionOnSet(f, s \ {y})
             bad == {s \in SUBSET S : ~Ok(s)}
  <1>1. CASE bad # {}
    <2>0. bad \subseteq SUBSET S
      OBVIOUS
    <2> HIDE DEF bad
    <2>1. PICK s \in bad : \A r \in SUBSET s : r # s => r \notin bad
      BY <1>1, <2>0, SmallestSet
    <2> USE DEF bad
    <2>2. PICK y \in s : SumFunctionOnSet(f, s) # f[y] + SumFunctionOnSet(f, s \ {y})
      BY <2>1
    <2> DEFINE p == Pick(s)
    <2>3. p \in s
      BY <2>2, PickIn
    <2>4. SumFunctionOnSet(f, s) = f[p] + SumFunctionOnSet(f, s \ {p})
      BY <2>2, SumStep, FS_Subset
    <2>5. p # y
      BY <2>2, <2>4
    <2> HIDE DEF p
    <2>6. Ok(s \ {p}) /\ Ok(s \ {y})
      BY <2>1, <2>2, <2>3
    <2>7. SumFunctionOnSet(f, s \ {p}) = f[y] + SumFunctionOnSet(f, (s \ {p}) \ {y})
      BY <2>2, <2>5, <2>6
    <2>8. SumFunctionOnSet(f, s \ {y}) = f[p] + SumFunctionOnSet(f, (s \ {y}) \ {p})
      BY <2>3, <2>5, <2>6
    <2>9. (s \ {p}) \ {y} = (s \ {y}) \ {p}
      OBVIOUS
    <2>10. SumFunctionOnSet(f, (s \ {p}) \ {y}) \in Int /\ f[p] \in Int /\ f[y] \in Int
      BY <2>2, <2>3, SumIsInt, FS_Subset
    <2> HIDE DEF Ok
    <2>11. f[p] + (f[y] + SumFunctionOnSet(f, (s \ {p}) \ {y}))
             = f[y] + (f[p] + SumFunctionOnSet(f, (s \ {p}) \ {y}))
      BY <2>10
    <2> QED
      BY <2>2, <2>4, <2>7, <2>8, <2>9, <2>11
  <1>2. CASE bad = {}
    BY <1>2
  <1> QED
    BY <1>1, <1>2

LEMMA SumAdds ==
    ASSUME NEW f, NEW S, IsFiniteSet(S), NEW x, x \notin S,
           \A y \in S \cup {x} : f[y] \in Int
    PROVE  SumFunctionOnSet(f, S \cup {x}) = SumFunctionOnSet(f, S) + f[x]
  <1>1. IsFiniteSet(S \cup {x}) /\ (S \cup {x}) \ {x} = S
    BY FS_AddElement
  <1>2. SumFunctionOnSet(f, S \cup {x}) = f[x] + SumFunctionOnSet(f, S)
    BY <1>1, SumTakesOut
  <1>3. f[x] \in Int /\ SumFunctionOnSet(f, S) \in Int
    BY SumIsInt
  <1> QED
    BY <1>2, <1>3

\* A row is inserted, changed or deleted: the tables f and g differ in one place at
\* most, where one or the other may have no row.
LEMMA SumDiffers ==
    ASSUME NEW S, NEW T, IsFiniteSet(S), IsFiniteSet(T),
           NEW f \in [S -> Int], NEW g \in [T -> Int],
           NEW x, S \ {x} = T \ {x}, \A y \in S \ {x} : f[y] = g[y]
    PROVE  SumFunction(g) = SumFunction(f) - (IF x \in S THEN f[x] ELSE 0)
                                           + (IF x \in T THEN g[x] ELSE 0)
  <1> DEFINE R == S \ {x}
             rest == SumFunctionOnSet(f, R)
  <1>1. IsFiniteSet(R) /\ rest \in Int
    BY FS_Subset, SumIsInt
  <1>2. rest = SumFunctionOnSet(g, T \ {x})
    BY <1>1, SumSame
  <1>3. SumFunctionOnSet(f, S) = (IF x \in S THEN f[x] ELSE 0) + rest
    <2>1. CASE x \in S
      BY <2>1, SumTakesOut
    <2>2. CASE x \notin S
      <3>1. S = R
        BY <2>2
      <3>2. SumFunctionOnSet(f, S) = rest
        BY <3>1
      <3> HIDE DEF rest
      <3> QED
        BY <1>1, <2>2, <3>2
    <2> QED
      BY <2>1, <2>2
  <1>4. SumFunctionOnSet(g, T) = (IF x \in T THEN g[x] ELSE 0) + rest
    <2>1. CASE x \in T
      BY <1>2, <2>1, SumTakesOut
    <2>2. CASE x \notin T
      <3>1. T = T \ {x}
        BY <2>2
      <3>2. SumFunctionOnSet(g, T) = rest
        BY <1>2, <3>1
      <3> HIDE DEF rest
      <3> QED
        BY <1>1, <2>2, <3>2
    <2> QED
      BY <2>1, <2>2
  <1>5. DOMAIN f = S /\ DOMAIN g = T
    OBVIOUS
  <1> HIDE DEF rest, R
  <1> QED
    BY <1>1, <1>3, <1>4, <1>5 DEF SumFunction

\* The sum of sums.
LEMMA SumPlus ==
    ASSUME NEW S, IsFiniteSet(S), NEW f, NEW g, NEW h,
           \A x \in S : f[x] \in Int /\ g[x] \in Int /\ h[x] = f[x] + g[x]
    PROVE  SumFunctionOnSet(h, S) = SumFunctionOnSet(f, S) + SumFunctionOnSet(g, S)
  <1> DEFINE Ok(s) == SumFunctionOnSet(h, s)
                        = SumFunctionOnSet(f, s) + SumFunctionOnSet(g, s)
             bad == {s \in SUBSET S : ~Ok(s)}
  <1>1. CASE bad # {}
    <2>1. bad \subseteq SUBSET S
      OBVIOUS
    <2> HIDE DEF bad
    <2>2. PICK s \in bad : \A r \in SUBSET s : r # s => r \notin bad
      BY <1>1, <2>1, SmallestSet
    <2> USE DEF bad
    <2>3. s # {}
      <3>1. Ok({})
        BY SumEmpty
      <3> QED
        BY <2>2, <3>1
    <2> DEFINE p == Pick(s)
               q == s \ {p}
    <2>4. p \in s
      BY <2>3, PickIn
    <2>5. IsFiniteSet(s) /\ IsFiniteSet(q)
      BY FS_Subset
    <2>6. /\ SumFunctionOnSet(f, s) = f[p] + SumFunctionOnSet(f, q)
          /\ SumFunctionOnSet(g, s) = g[p] + SumFunctionOnSet(g, q)
          /\ SumFunctionOnSet(h, s) = h[p] + SumFunctionOnSet(h, q)
      BY <2>3, <2>5, SumStep
    <2>7. Ok(q)
      BY <2>2, <2>4
    <2>8. SumFunctionOnSet(f, q) \in Int /\ SumFunctionOnSet(g, q) \in Int
      BY <2>5, SumIsInt
    <2>9. h[p] = f[p] + g[p] /\ f[p] \in Int /\ g[p] \in Int
      BY <2>4
    <2> HIDE DEF p, q
    <2>10. Ok(s)
      BY <2>6, <2>7, <2>8, <2>9
    <2> QED
      BY <2>2, <2>10
  <1>2. CASE bad = {}
    BY <1>2
  <1> QED
    BY <1>1, <1>2

\* What is added is never negative: nor is the sum.
LEMMA SumNat ==
    ASSUME NEW f, NEW S, IsFiniteSet(S), \A x \in S : f[x] \in Nat
    PROVE  SumFunctionOnSet(f, S) \in Nat
  <1> DEFINE bad == {s \in SUBSET S : SumFunctionOnSet(f, s) \notin Nat}
  <1>1. CASE bad # {}
    <2>1. bad \subseteq SUBSET S
      OBVIOUS
    <2> HIDE DEF bad
    <2>2. PICK s \in bad : \A r \in SUBSET s : r # s => r \notin bad
      BY <1>1, <2>1, SmallestSet
    <2> USE DEF bad
    <2>3. s # {}
      BY SumEmpty
    <2>4. Pick(s) \in s
      BY <2>3, PickIn
    <2>5. SumFunctionOnSet(f, s \ {Pick(s)}) \in Nat
      BY <2>2, <2>4
    <2>6. SumFunctionOnSet(f, s) = f[Pick(s)] + SumFunctionOnSet(f, s \ {Pick(s)})
      BY <2>3, SumStep, FS_Subset
    <2> QED
      BY <2>2, <2>4, <2>5, <2>6
  <1>2. CASE bad = {}
    BY <1>2
  <1> QED
    BY <1>1, <1>2

\* Row by row no more, nor in sum.
LEMMA SumOrdered ==
    ASSUME NEW f, NEW g, NEW S, IsFiniteSet(S),
           \A x \in S : f[x] \in Int /\ g[x] \in Int /\ f[x] <= g[x]
    PROVE  SumFunctionOnSet(f, S) <= SumFunctionOnSet(g, S)
  <1> DEFINE d == [x \in S |-> g[x] - f[x]]
  <1>1. SumFunctionOnSet(d, S) \in Nat
    BY SumNat
  <1>2. SumFunctionOnSet(g, S) = SumFunctionOnSet(f, S) + SumFunctionOnSet(d, S)
    BY SumPlus
  <1>3. SumFunctionOnSet(f, S) \in Int
    BY SumIsInt
  <1> HIDE DEF d
  <1> QED
    BY <1>1, <1>2, <1>3

\* Rows of nothing add up to nothing.
LEMMA SumZero ==
    ASSUME NEW f, NEW S, IsFiniteSet(S), \A x \in S : f[x] = 0
    PROVE  SumFunctionOnSet(f, S) = 0
  <1>1. SumFunctionOnSet(f, S) = SumFunctionOnSet(f, S) + SumFunctionOnSet(f, S)
    BY SumPlus
  <1>2. SumFunctionOnSet(f, S) \in Int
    BY SumIsInt
  <1> QED
    BY <1>1, <1>2

\* What lies outside a part may count as nothing.
LEMMA SumOfPart ==
    ASSUME NEW f, NEW S, IsFiniteSet(S), \A x \in S : f[x] \in Int,
           NEW R, R \subseteq S, NEW g, \A x \in S : g[x] = IF x \in R THEN f[x] ELSE 0
    PROVE  SumFunctionOnSet(f, R) = SumFunctionOnSet(g, S)
  <1> DEFINE In(s) == [x \in S |-> IF x \in s THEN f[x] ELSE 0]
             Ok(s) == SumFunctionOnSet(f, s) = SumFunctionOnSet(In(s), S)
             bad == {s \in SUBSET S : ~Ok(s)}
  <1>1. CASE bad # {}
    <2>1. bad \subseteq SUBSET S
      OBVIOUS
    <2> HIDE DEF bad
    <2>2. PICK s \in bad : \A r \in SUBSET s : r # s => r \notin bad
      BY <1>1, <2>1, SmallestSet
    <2> USE DEF bad
    <2>3. s # {}
      BY SumEmpty, SumZero
    <2> DEFINE p == Pick(s)
               q == s \ {p}
    <2>4. p \in s /\ s \subseteq S
      BY <2>3, PickIn
    <2>5. IsFiniteSet(s) /\ IsFiniteSet(q) /\ q \subseteq S
      BY <2>4, FS_Subset
    <2>6. SumFunctionOnSet(f, s) = f[p] + SumFunctionOnSet(f, q)
      BY <2>3, <2>5, SumStep
    <2>7. Ok(q)
      BY <2>2, <2>4
    <2>8. /\ In(s) \in [S -> Int] /\ In(q) \in [S -> Int]
          /\ \A y \in S \ {p} : In(q)[y] = In(s)[y]
          /\ In(q)[p] = 0 /\ In(s)[p] = f[p]
      BY <2>4
    <2> HIDE DEF p, q, In
    <2>9. SumFunction(In(s)) = SumFunction(In(q)) - In(q)[p] + In(s)[p]
      <3>1. p \in S /\ S \ {p} = S \ {p}
        BY <2>4
      <3>2. \A y \in S \ {p} : In(q)[y] = In(s)[y]
        BY <2>8
      <3> DEFINE a == In(q)
                 b == In(s)
      <3>3. a \in [S -> Int] /\ b \in [S -> Int]
        BY <2>8
      <3> HIDE DEF a, b
      <3>4. SumFunction(b) = SumFunction(a) - (IF p \in S THEN a[p] ELSE 0)
                                            + (IF p \in S THEN b[p] ELSE 0)
        BY <3>1, <3>2, <3>3, SumDiffers DEF a, b
      <3> QED
        BY <3>1, <3>4 DEF a, b
    <2>10. SumFunction(In(s)) = SumFunctionOnSet(In(s), S)
           /\ SumFunction(In(q)) = SumFunctionOnSet(In(q), S)
      BY <2>8 DEF SumFunction
    <2>11. SumFunctionOnSet(f, q) \in Int /\ f[p] \in Int
      BY <2>4, <2>5, SumIsInt
    <2>12. Ok(s)
      BY <2>6, <2>7, <2>8, <2>9, <2>10, <2>11
    <2> QED
      BY <2>2, <2>12
  <1>2. CASE bad = {}
    <2>1. Ok(R)
      BY <1>2
    <2>2. \A x \in S : In(R)[x] = g[x]
      OBVIOUS
    <2> HIDE DEF In
    <2>3. SumFunctionOnSet(In(R), S) = SumFunctionOnSet(g, S)
      BY <2>2, SumSame
    <2> QED
      BY <2>1, <2>3
  <1> QED
    BY <1>1, <1>2

\* A sum is that over a part and that over the rest.
LEMMA SumSplit ==
    ASSUME NEW f, NEW S, IsFiniteSet(S), \A x \in S : f[x] \in Int, NEW R, R \subseteq S
    PROVE  SumFunctionOnSet(f, S) = SumFunctionOnSet(f, R) + SumFunctionOnSet(f, S \ R)
  <1> PICK g : g = [x \in S |-> IF x \in R THEN f[x] ELSE 0]
    OBVIOUS
  <1> PICK h : h = [x \in S |-> IF x \in S \ R THEN f[x] ELSE 0]
    OBVIOUS
  <1>1. \A x \in S : g[x] = IF x \in R THEN f[x] ELSE 0
    OBVIOUS
  <1>2. \A x \in S : h[x] = IF x \in S \ R THEN f[x] ELSE 0
    OBVIOUS
  <1>3. SumFunctionOnSet(f, R) = SumFunctionOnSet(g, S)
    BY <1>1, SumOfPart
  <1>4. SumFunctionOnSet(f, S \ R) = SumFunctionOnSet(h, S)
    BY <1>2, SumOfPart
  <1>5. \A x \in S : g[x] \in Int /\ h[x] \in Int /\ f[x] = g[x] + h[x]
    BY <1>1, <1>2
  <1>6. SumFunctionOnSet(f, S) = SumFunctionOnSet(g, S) + SumFunctionOnSet(h, S)
    BY <1>5, SumPlus
  <1> QED
    BY <1>3, <1>4, <1>6

\* A sum over other names for the same rows.
LEMMA SumRenamed ==
    ASSUME NEW S, IsFiniteSet(S), NEW a, NEW b, NEW g,
           \A x, y \in S : g[x] = g[y] => x = y,
           \A x \in S : a[x] \in Int /\ a[x] = b[g[x]]
    PROVE  SumFunctionOnSet(a, S) = SumFunctionOnSet(b, {g[x] : x \in S})
  <1> DEFINE Named(s) == {g[x] : x \in s}
             Ok(s) == SumFunctionOnSet(a, s) = SumFunctionOnSet(b, Named(s))
             bad == {s \in SUBSET S : ~Ok(s)}
  <1>1. CASE bad # {}
    <2>1. bad \subseteq SUBSET S
      OBVIOUS
    <2> HIDE DEF bad
    <2>2. PICK s \in bad : \A r \in SUBSET s : r # s => r \notin bad
      BY <1>1, <2>1, SmallestSet
    <2> USE DEF bad
    <2>3. s # {}
      <3>1. Named({}) = {}
        OBVIOUS
      <3> QED
        BY <3>1, SumEmpty
    <2>4. PICK x \in s : TRUE
      BY <2>3
    <2>5. s \ {x} \in SUBSET s /\ s \ {x} # s
      OBVIOUS
    <2>6. SumFunctionOnSet(a, s \ {x}) = SumFunctionOnSet(b, Named(s \ {x}))
      BY <2>2, <2>5
    <2>7. IsFiniteSet(s) /\ IsFiniteSet(Named(s))
      <3>1. IsFiniteSet(s)
        BY FS_Subset
      <3> PICK h : h = [y \in s |-> g[y]]
        OBVIOUS
      <3>2. h \in Surjection(s, Named(s))
        BY DEF Surjection
      <3> QED
        BY <3>1, <3>2, FS_Surjection
    <2>8. SumFunctionOnSet(a, s) = a[x] + SumFunctionOnSet(a, s \ {x})
      BY <2>7, SumTakesOut
    <2>9. Named(s) \ {g[x]} = Named(s \ {x}) /\ g[x] \in Named(s)
      OBVIOUS
    <2>10. \A y \in Named(s) : b[y] \in Int
      OBVIOUS
    <2>11. SumFunctionOnSet(b, Named(s)) = b[g[x]] + SumFunctionOnSet(b, Named(s) \ {g[x]})
      <3> HIDE DEF Named
      <3> QED
        BY <2>7, <2>9, <2>10, SumTakesOut
    <2> QED
      BY <2>2, <2>6, <2>8, <2>9, <2>11
  <1>2. CASE bad = {}
    BY <1>2
  <1> QED
    BY <1>1, <1>2

\* All rows but one are nothing.
LEMMA SumAtOne ==
    ASSUME NEW f, NEW S, IsFiniteSet(S), NEW x \in S, f[x] \in Int,
           \A y \in S \ {x} : f[y] = 0
    PROVE  SumFunctionOnSet(f, S) = f[x]
  <1>1. IsFiniteSet(S \ {x}) /\ \A y \in S : f[y] \in Int
    BY FS_Subset
  <1>2. SumFunctionOnSet(f, S \ {x}) = 0
    BY <1>1, SumZero
  <1>3. SumFunctionOnSet(f, S) = f[x] + SumFunctionOnSet(f, S \ {x})
    BY <1>1, SumTakesOut
  <1> QED
    BY <1>2, <1>3

\* A finite set of integers has a largest one.
LEMMA Largest ==
    ASSUME NEW S, IsFiniteSet(S), S \subseteq Int, S # {}
    PROVE  \E x \in S : \A y \in S : y <= x
  <1> DEFINE Has(s) == \E x \in s : \A y \in s : y <= x
             bad == {s \in SUBSET S : s # {} /\ ~Has(s)}
  <1>1. CASE bad # {}
    <2>1. bad \subseteq SUBSET S
      OBVIOUS
    <2> HIDE DEF bad
    <2>2. PICK s \in bad : \A r \in SUBSET s : r # s => r \notin bad
      BY <1>1, <2>1, SmallestSet
    <2> USE DEF bad
    <2>3. PICK x \in s : TRUE
      BY <2>2
    <2>4. CASE s = {x}
      BY <2>1, <2>2, <2>4
    <2>5. CASE s # {x}
      <3>1. PICK m \in s \ {x} : \A y \in s \ {x} : y <= m
        BY <2>2, <2>3, <2>5
      <3>2. s \subseteq Int /\ x \in Int /\ m \in Int
        BY <2>2
      <3>3. CASE x <= m
        BY <2>2, <3>1, <3>2, <3>3
      <3>4. CASE m <= x
        <4>1. \A y \in s : y <= x
          BY <3>1, <3>2, <3>4
        <4> QED
          BY <2>2, <2>3, <4>1
      <3> QED
        BY <3>2, <3>3, <3>4
    <2> QED
      BY <2>4, <2>5
  <1>2. CASE bad = {}
    BY <1>2
  <1> QED
    BY <1>1, <1>2

\* A payment of n is spread over what is open, b: each row in order takes what it
\* can of what those before it have left.  Together they take all of it, or all
\* that is open.
LEMMA Spread ==
    ASSUME NEW S, IsFiniteSet(S), S \subseteq Int, NEW b, \A i \in S : b[i] \in Nat,
           NEW n \in Nat, NEW a,
           \A i \in S : LET older == SumFunctionOnSet(b, {j \in S : j < i})
                        IN  a[i] = IF n > older
                                   THEN IF b[i] < n - older THEN b[i] ELSE n - older
                                   ELSE 0
    PROVE  SumFunctionOnSet(a, S)
             = IF SumFunctionOnSet(b, S) < n THEN SumFunctionOnSet(b, S) ELSE n
  <1> DEFINE Older(i) == SumFunctionOnSet(b, {j \in S : j < i})
             Ok(s) == SumFunctionOnSet(a, s)
                        = IF SumFunctionOnSet(b, s) < n THEN SumFunctionOnSet(b, s) ELSE n
             Closed(s) == \A x \in s, y \in S : y < x => y \in s
             bad == {s \in SUBSET S : Closed(s) /\ ~Ok(s)}
  <1>0. \A i \in S : a[i] = IF n > Older(i)
                            THEN IF b[i] < n - Older(i) THEN b[i] ELSE n - Older(i) ELSE 0
    OBVIOUS
  <1>1. CASE bad # {}
    <2>1. bad \subseteq SUBSET S
      OBVIOUS
    <2> HIDE DEF bad
    <2>2. PICK s \in bad : \A r \in SUBSET s : r # s => r \notin bad
      BY <1>1, <2>1, SmallestSet
    <2> USE DEF bad
    <2>3. s # {}
      <3>1. Ok({})
        BY SumEmpty
      <3> QED
        BY <2>2, <3>1
    <2>4. IsFiniteSet(s) /\ s \subseteq Int
      BY FS_Subset
    <2>5. PICK m \in s : \A y \in s : y <= m
      BY <2>3, <2>4, Largest
    <2>6. PICK q : q = s \ {m}
      OBVIOUS
    <2>7. q = {j \in S : j < m}
      <3>1. s \subseteq S /\ Closed(s)
        BY <2>2
      <3>2. ASSUME NEW j \in q PROVE j \in S /\ j < m
        BY <2>4, <2>5, <2>6, <3>1
      <3>3. ASSUME NEW j \in S, j < m PROVE j \in q
        BY <2>4, <2>5, <2>6, <3>1, <3>3
      <3> QED
        BY <3>2, <3>3
    <2>8. Closed(q) /\ q \subseteq s /\ q # s
      BY <2>2, <2>4, <2>5, <2>6
    <2>9. Ok(q) /\ Older(m) = SumFunctionOnSet(b, q)
      BY <2>2, <2>7, <2>8
    <2>10. IsFiniteSet(q) /\ \A i \in s : b[i] \in Nat
      BY <2>4, <2>8, FS_Subset
    <2>11. SumFunctionOnSet(b, q) \in Nat
      BY <2>8, <2>10, SumNat
    <2>12. m \in S /\ b[m] \in Nat
      BY <2>10
    <2>13. a[m] = IF n > SumFunctionOnSet(b, q)
                  THEN IF b[m] < n - SumFunctionOnSet(b, q)
                       THEN b[m] ELSE n - SumFunctionOnSet(b, q)
                  ELSE 0
      BY <1>0, <2>9, <2>12
    <2>14. ASSUME NEW i \in S PROVE a[i] \in Int
      <3>1. IsFiniteSet({j \in S : j < i})
        BY FS_Subset
      <3>2. Older(i) \in Nat
        BY <3>1, SumNat
      <3> HIDE DEF Older
      <3> QED
        BY <1>0, <3>2
    <2>15. SumFunctionOnSet(b, s) = b[m] + SumFunctionOnSet(b, q)
      <3>1. \A x \in s : b[x] \in Int
        BY <2>10
      <3>2. SumFunctionOnSet(b, s) = b[m] + SumFunctionOnSet(b, s \ {m})
        BY <2>4, <3>1, SumTakesOut, ZenonT(60)
      <3> QED
        BY <2>6, <3>2
    <2>16. SumFunctionOnSet(a, s) = a[m] + SumFunctionOnSet(a, q)
      <3>1. \A x \in s : a[x] \in Int
        BY <2>2, <2>14
      <3>2. SumFunctionOnSet(a, s) = a[m] + SumFunctionOnSet(a, s \ {m})
        BY <2>4, <3>1, SumTakesOut, ZenonT(60)
      <3> QED
        BY <2>6, <3>2
    <2>17. PICK B, A, Bm, Am : /\ B = SumFunctionOnSet(b, q) /\ A = SumFunctionOnSet(a, q)
                               /\ Bm = b[m] /\ Am = a[m]
      OBVIOUS
    <2>18. /\ B \in Nat /\ Bm \in Nat /\ A = (IF B < n THEN B ELSE n)
           /\ Am = IF n > B THEN IF Bm < n - B THEN Bm ELSE n - B ELSE 0
      BY <2>9, <2>11, <2>12, <2>13, <2>17
    <2>19. Am + A = IF Bm + B < n THEN Bm + B ELSE n
      BY <2>18
    <2>20. Ok(s)
      BY <2>15, <2>16, <2>17, <2>19
    <2> QED
      BY <2>2, <2>20
  <1>2. CASE bad = {}
    <2>1. Closed(S)
      OBVIOUS
    <2>2. Ok(S)
      BY <1>2, <2>1
    <2> QED
      BY <2>2
  <1> QED
    BY <1>1, <1>2
=============================================================================
