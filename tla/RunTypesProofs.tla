--------------------------- MODULE RunTypesProofs ---------------------------
(***************************************************************************)
(* Facts about UsageOf, the usage of the step rows of a run, and about     *)
(* sums over finite sets.  Both are recursive, and what they compute is    *)
(* shown by the least counterexample: a set of naturals that is not empty  *)
(* has a least element.                                                    *)
(***************************************************************************)
EXTENDS RunTypes, TLAPS, SequenceTheorems, FiniteSetTheorems, WellFoundedInduction

\* A set of naturals has a least element.
LEMMA LeastNumber ==
  ASSUME NEW S \in SUBSET Nat, S # {}
  PROVE  \E n \in S : \A m \in S : n <= m
<1>1. OpToRel(<, Nat) = { p \in Nat \X Nat : p[1] < p[2] }
  BY Zenon DEF OpToRel
<1>2. PICK n \in S : \A m \in S : <<m, n>> \notin OpToRel(<, Nat)
  BY WFMin, NatLessThanWellFounded
<1>3. ASSUME NEW m \in S PROVE n <= m
  <2>1. <<m, n>> \in Nat \X Nat /\ <<m, n>> \notin { p \in Nat \X Nat : p[1] < p[2] }
    BY <1>1, <1>2
  <2>2. ~ (m < n)
    BY <2>1
  <2>3. QED
    BY <2>2
<1>4. QED
  BY <1>3

\* The partial sums of the first n rows.
PartialSums(rows, n, f) ==
  f = [k \in 0..n |-> IF k = 0 THEN 0 ELSE f[k - 1] + rows[k].usage]

\* They exist.
LEMMA PartialSumsExist ==
  ASSUME NEW rows, NEW n \in Nat
  PROVE  \E f : PartialSums(rows, n, f)
<1> DEFINE Without == { k \in Nat : ~ \E f : PartialSums(rows, k, f) }
<1>1. SUFFICES ASSUME Without # {} PROVE FALSE
  OBVIOUS
<1>2. PICK m \in Without : \A k \in Without : m <= k
  BY <1>1, LeastNumber
<1>3. m # 0
  <2>1. PartialSums(rows, 0, [k \in 0..0 |-> 0])
    BY DEF PartialSums
  <2>2. QED
    BY <2>1
<1>4. PICK f : PartialSums(rows, m - 1, f)
  BY <1>2, <1>3
<1> DEFINE g == [k \in 0..m |-> IF k < m THEN f[k] ELSE f[m - 1] + rows[m].usage]
<1>5. PartialSums(rows, m, g)
  BY <1>2, <1>3, <1>4 DEF PartialSums
<1>6. QED
  BY <1>2, <1>5

\* The last of them.
SumUpTo(rows, n) == (CHOOSE f : PartialSums(rows, n, f))[n]

LEMMA UsageIsSum ==
  ASSUME NEW rows, Len(rows) \in Nat
  PROVE  UsageOf(rows) = SumUpTo(rows, Len(rows))
BY DEF UsageOf, SumUpTo, PartialSums

\* Partial sums of rows with the same usage are the same.
LEMMA SumsAgree ==
  ASSUME NEW rows, NEW others, NEW n \in Nat,
         \A i \in 1..n : rows[i].usage = others[i].usage
  PROVE  SumUpTo(rows, n) = SumUpTo(others, n)
<1> DEFINE f == CHOOSE h : PartialSums(rows, n, h)
           g == CHOOSE h : PartialSums(others, n, h)
           Different == { i \in Nat : i <= n /\ f[i] # g[i] }
<1>1. /\ PartialSums(rows, n, f) /\ PartialSums(others, n, g)
      /\ SumUpTo(rows, n) = f[n] /\ SumUpTo(others, n) = g[n]
  BY PartialSumsExist DEF SumUpTo
<1> HIDE DEF f, g
<1>2. SUFFICES ASSUME Different # {} PROVE FALSE
  BY <1>1
<1>3. PICK i \in Different : \A j \in Different : i <= j
  BY <1>2, LeastNumber
<1>4. f[0] = 0 /\ g[0] = 0
  BY <1>1 DEF PartialSums
<1>5. i \in 1..n /\ f[i - 1] = g[i - 1]
  BY <1>3, <1>4
<1>6. f[i] = f[i - 1] + rows[i].usage /\ g[i] = g[i - 1] + others[i].usage
  BY <1>1, <1>5 DEF PartialSums
<1>7. QED
  BY <1>3, <1>5, <1>6

\* There is one sequence of partial sums.
LEMMA SumsUnique ==
  ASSUME NEW rows, NEW n \in Nat, NEW f, NEW g,
         PartialSums(rows, n, f), PartialSums(rows, n, g)
  PROVE  f[n] = g[n]
<1> DEFINE Different == { i \in Nat : i <= n /\ f[i] # g[i] }
<1>1. SUFFICES ASSUME Different # {} PROVE FALSE
  OBVIOUS
<1>2. PICK i \in Different : \A j \in Different : i <= j
  BY <1>1, LeastNumber
<1>3. f[0] = 0 /\ g[0] = 0
  BY DEF PartialSums
<1>4. i \in 1..n /\ f[i - 1] = g[i - 1]
  BY <1>2, <1>3
<1>5. f[i] = f[i - 1] + rows[i].usage /\ g[i] = g[i - 1] + rows[i].usage
  BY <1>4 DEF PartialSums
<1>6. QED
  BY <1>2, <1>4, <1>5

\* The sum of no rows, and of one more.
LEMMA SumOfNone ==
  ASSUME NEW rows
  PROVE  SumUpTo(rows, 0) = 0
<1>1. PICK f : f = CHOOSE h : PartialSums(rows, 0, h)
  OBVIOUS
<1>2. PartialSums(rows, 0, f)
  BY <1>1, PartialSumsExist
<1>3. QED
  BY <1>1, <1>2 DEF PartialSums, SumUpTo

LEMMA SumOfNext ==
  ASSUME NEW rows, NEW n \in Nat
  PROVE  SumUpTo(rows, n + 1) = SumUpTo(rows, n) + rows[n + 1].usage
<1> DEFINE f == CHOOSE h : PartialSums(rows, n + 1, h)
           g == CHOOSE h : PartialSums(rows, n, h)
           before == [k \in 0..n |-> f[k]]
<1>1. PartialSums(rows, n + 1, f) /\ PartialSums(rows, n, g)
  BY PartialSumsExist
<1>2. SumUpTo(rows, n + 1) = f[n + 1] /\ SumUpTo(rows, n) = g[n]
  BY DEF SumUpTo
<1> HIDE DEF f, g
<1>3. PartialSums(rows, n, before) /\ before[n] = f[n]
  BY <1>1 DEF PartialSums
<1>4. g[n] = f[n]
  BY <1>1, <1>3, SumsUnique
<1>5. f[n + 1] = f[n] + rows[n + 1].usage
  BY <1>1 DEF PartialSums
<1>6. QED
  BY <1>2, <1>4, <1>5

\* It is a number.
LEMMA SumTyped ==
  ASSUME NEW rows, NEW n \in Nat, \A i \in 1..n : rows[i].usage \in Nat
  PROVE  SumUpTo(rows, n) \in Nat
<1> DEFINE Others == { k \in Nat : k <= n /\ SumUpTo(rows, k) \notin Nat }
<1>1. SUFFICES ASSUME Others # {} PROVE FALSE
  OBVIOUS
<1>2. PICK k \in Others : \A j \in Others : k <= j
  BY <1>1, LeastNumber
<1>3. k \in 1..n /\ SumUpTo(rows, k - 1) \in Nat
  BY <1>2, SumOfNone
<1>4. k - 1 \in Nat /\ (k - 1) + 1 = k
  BY <1>3
<1>5. SumUpTo(rows, k) = SumUpTo(rows, k - 1) + rows[k].usage
  BY <1>4, SumOfNext
<1>6. QED
  BY <1>2, <1>3, <1>5

\* No rows have no usage.
LEMMA UsageOfNothing == UsageOf(<<>>) = 0
<1>1. Len(<<>>) = 0
  OBVIOUS
<1>2. QED
  BY <1>1, UsageIsSum, SumOfNone

\* Rows with the same usage have the same total.
LEMMA UsageDependsOnUsage ==
  ASSUME NEW rows, NEW others, Len(rows) \in Nat, Len(others) = Len(rows),
         \A i \in 1..Len(rows) : rows[i].usage = others[i].usage
  PROVE  UsageOf(rows) = UsageOf(others)
BY UsageIsSum, SumsAgree

\* The usage of rows is a number.
LEMMA UsageTyped ==
  ASSUME NEW rows, Len(rows) \in Nat, \A i \in 1..Len(rows) : rows[i].usage \in Nat
  PROVE  UsageOf(rows) \in Nat
BY UsageIsSum, SumTyped

\* A new row adds its usage.
LEMMA UsageOfAppend ==
  ASSUME NEW T, NEW rows \in Seq(T), NEW row \in T
  PROVE  UsageOf(Append(rows, row)) = UsageOf(rows) + row.usage
<1>1. PICK n \in Nat : n = Len(rows)
  BY LenProperties
<1>2. PICK after : after = Append(rows, row)
  OBVIOUS
<1>3. /\ Len(after) = n + 1 /\ after[n + 1] = row
      /\ \A i \in 1..n : after[i] = rows[i]
  BY <1>1, <1>2, AppendProperties, LenProperties
<1>4. UsageOf(after) = SumUpTo(after, n + 1) /\ UsageOf(rows) = SumUpTo(rows, n)
  BY <1>1, <1>3, UsageIsSum
<1>5. SumUpTo(after, n + 1) = SumUpTo(after, n) + row.usage
  BY <1>3, SumOfNext
<1>6. SumUpTo(after, n) = SumUpTo(rows, n)
  BY <1>3, SumsAgree
<1>7. QED
  BY <1>2, <1>4, <1>5, <1>6

\* Overwriting the last row exchanges its usage.
LEMMA UsageOfChange ==
  ASSUME NEW T, NEW rows \in Seq(T), NEW row \in T, Len(rows) > 0,
         \A i \in 1..Len(rows) : rows[i].usage \in Nat,
         row.usage \in Nat
  PROVE  UsageOf([rows EXCEPT ![Len(rows)] = row])
           = UsageOf(rows) - rows[Len(rows)].usage + row.usage
<1>1. PICK n \in Nat : n + 1 = Len(rows)
  <2>1. Len(rows) \in Nat
    BY LenProperties
  <2>2. Len(rows) - 1 \in Nat /\ (Len(rows) - 1) + 1 = Len(rows)
    BY <2>1
  <2>3. QED
    BY <2>2
<1>2. PICK after : after = [rows EXCEPT ![n + 1] = row]
  OBVIOUS
<1>3. /\ Len(after) = n + 1 /\ after[n + 1] = row
      /\ \A i \in 1..n : after[i] = rows[i]
  BY <1>1, <1>2, ExceptSeq
<1>4. UsageOf(after) = SumUpTo(after, n + 1) /\ UsageOf(rows) = SumUpTo(rows, n + 1)
  BY <1>1, <1>3, UsageIsSum
<1>5. /\ SumUpTo(after, n + 1) = SumUpTo(after, n) + row.usage
      /\ SumUpTo(rows, n + 1) = SumUpTo(rows, n) + rows[n + 1].usage
  BY <1>3, SumOfNext
<1>6. SumUpTo(after, n) = SumUpTo(rows, n)
  BY <1>3, SumsAgree
<1>7. SumUpTo(rows, n) \in Nat /\ rows[n + 1].usage \in Nat
  BY <1>1, SumTyped
<1>8. UsageOf(after) = UsageOf(rows) - rows[n + 1].usage + row.usage
  BY <1>4, <1>5, <1>6, <1>7
<1>9. QED
  BY <1>1, <1>2, <1>8, Zenon
-----------------------------------------------------------------------------
(***************************************************************************)
(* Sums over finite sets.  SumFunction is recursive over the subsets of a  *)
(* domain; what it computes is shown by the smallest counterexample.       *)
(***************************************************************************)
\* Of some finite sets, one is smallest.
LEMMA SmallestSet ==
  ASSUME NEW P, P # {}, \A S \in P : IsFiniteSet(S)
  PROVE  \E S \in P : \A T \in P : Cardinality(S) <= Cardinality(T)
<1> DEFINE Sizes == { Cardinality(S) : S \in P }
<1>1. Sizes \in SUBSET Nat /\ Sizes # {}
  BY FS_CardinalityType
<1>2. PICK n \in Sizes : \A m \in Sizes : n <= m
  BY <1>1, LeastNumber
<1>3. QED
  BY <1>2

\* What holds of the empty set, and of a set with one more element, holds of a finite set.
LEMMA SetInduction ==
  ASSUME NEW S, IsFiniteSet(S), NEW Good, {} \in Good,
         \A T \in SUBSET S : \A x \in S \ T : T \in Good => T \union {x} \in Good
  PROVE  S \in Good
<1> DEFINE Bad == { T \in SUBSET S : T \notin Good }
<1>1. SUFFICES ASSUME Bad # {} PROVE FALSE
  OBVIOUS
<1>2. \A T \in Bad : IsFiniteSet(T)
  BY FS_Subset
<1>3. PICK T \in Bad : \A U \in Bad : Cardinality(T) <= Cardinality(U)
  BY <1>1, <1>2, SmallestSet
<1>4. PICK x : x \in T
  BY <1>3
<1>5. PICK U : U = T \ {x}
  OBVIOUS
<1>6. Cardinality(U) = Cardinality(T) - 1 /\ Cardinality(T) \in Nat
  BY <1>2, <1>3, <1>4, <1>5, FS_RemoveElement, FS_CardinalityType
<1>7. U \notin Bad
  BY <1>3, <1>6
<1>8. U \in SUBSET S /\ x \in S \ U /\ U \union {x} = T
  BY <1>3, <1>4, <1>5
<1>9. QED
  BY <1>3, <1>7, <1>8

\* The sums over the subsets of S.
SetSums(f, S, h) ==
  h = [T \in SUBSET S |-> IF T = {} THEN 0
                          ELSE LET x == CHOOSE x \in T : TRUE IN f[x] + h[T \ {x}]]

\* The sum over all of it.
SumOver(f, S) == (CHOOSE h : SetSums(f, S, h))[S]

LEMMA SumIs ==
  ASSUME NEW f
  PROVE  SumFunction(f) = SumOver(f, DOMAIN f)
BY DEF SumFunction, SumFunctionOnSet, FoldFunctionOnSet, MapThenFoldSet, SumOver, SetSums

\* There is one sum over a set, of whichever set it is a subset.
LEMMA SetSumsUnique ==
  ASSUME NEW f, NEW S, NEW h, SetSums(f, S, h), NEW R, NEW g, SetSums(f, R, g),
         NEW T, IsFiniteSet(T), T \subseteq S, T \subseteq R
  PROVE  h[T] = g[T]
<1> DEFINE Bad == { U \in SUBSET T : h[U] # g[U] }
<1>1. SUFFICES ASSUME Bad # {} PROVE FALSE
  OBVIOUS
<1>2. \A U \in Bad : IsFiniteSet(U)
  BY FS_Subset
<1>3. PICK U \in Bad : \A V \in Bad : Cardinality(U) <= Cardinality(V)
  BY <1>1, <1>2, SmallestSet
<1>4. U \in SUBSET S /\ U \in SUBSET R /\ U \in SUBSET T /\ h[U] # g[U]
  BY <1>3
<1>5. U # {}
  BY <1>4 DEF SetSums
<1>6. PICK x, V : x = (CHOOSE y \in U : TRUE) /\ V = U \ {x}
  OBVIOUS
<1>7. x \in U
  BY <1>5, <1>6
<1>8. Cardinality(V) = Cardinality(U) - 1 /\ Cardinality(U) \in Nat
  BY <1>2, <1>3, <1>6, <1>7, FS_RemoveElement, FS_CardinalityType
<1>9. V \in SUBSET T /\ V \notin Bad
  BY <1>3, <1>4, <1>6, <1>8
<1>10. h[V] = g[V]
  BY <1>9
<1>11. h[U] = f[x] + h[V] /\ g[U] = f[x] + g[V]
  BY <1>4, <1>5, <1>6 DEF SetSums
<1>12. QED
  BY <1>4, <1>10, <1>11

\* There are sums over the subsets of a finite set.
LEMMA SetSumsExist ==
  ASSUME NEW f, NEW S, IsFiniteSet(S)
  PROVE  \E h : SetSums(f, S, h)
<1> DEFINE Without == { T \in SUBSET S : ~ \E h : SetSums(f, T, h) }
<1>1. SUFFICES ASSUME Without # {} PROVE FALSE
  OBVIOUS
<1>2. \A T \in Without : IsFiniteSet(T)
  BY FS_Subset
<1>3. PICK T \in Without : \A U \in Without : Cardinality(T) <= Cardinality(U)
  BY <1>1, <1>2, SmallestSet
<1>4. IsFiniteSet(T) /\ T \in SUBSET S /\ ~ \E h : SetSums(f, T, h)
  BY <1>2, <1>3
<1>5. ASSUME NEW U \in SUBSET T, U # T PROVE IsFiniteSet(U) /\ \E h : SetSums(f, U, h)
  <2>1. IsFiniteSet(U) /\ Cardinality(U) <= Cardinality(T) /\ Cardinality(U) # Cardinality(T)
    BY <1>4, <1>5, FS_Subset
  <2>2. Cardinality(U) \in Nat /\ Cardinality(T) \in Nat
    BY <1>4, <2>1, FS_CardinalityType
  <2>3. U \in SUBSET S /\ U \notin Without
    BY <1>3, <1>4, <2>1, <2>2
  <2>4. QED
    BY <2>1, <2>3
<1> HIDE DEF Without
<1> DEFINE Value(U) == IF U = {} THEN 0
                       ELSE LET x == CHOOSE x \in U : TRUE IN f[x] + SumOver(f, U \ {x})
           all == [U \in SUBSET T |-> Value(U)]
<1>6. ASSUME NEW U \in SUBSET T, U # T PROVE SumOver(f, U) = Value(U)
  <2>1. PICK h : h = CHOOSE k : SetSums(f, U, k)
    OBVIOUS
  <2>2. SetSums(f, U, h) /\ SumOver(f, U) = h[U]
    BY <1>5, <1>6, <2>1 DEF SumOver
  <2>3. CASE U = {}
    BY <2>2, <2>3 DEF SetSums
  <2>4. CASE U # {}
    <3>1. PICK x, V : x = (CHOOSE y \in U : TRUE) /\ V = U \ {x}
      OBVIOUS
    <3>2. V \in SUBSET U /\ V \in SUBSET T /\ V # T
      BY <2>4, <3>1
    <3>3. h[U] = f[x] + h[V]
      BY <2>2, <2>4, <3>1 DEF SetSums
    <3>4. PICK g : g = CHOOSE k : SetSums(f, V, k)
      OBVIOUS
    <3>5. SetSums(f, V, g) /\ SumOver(f, V) = g[V] /\ IsFiniteSet(V)
      BY <1>5, <3>2, <3>4 DEF SumOver
    <3>6. h[V] = g[V]
      BY <2>2, <3>2, <3>5, SetSumsUnique
    <3>7. QED
      BY <2>2, <2>4, <3>1, <3>3, <3>5, <3>6
  <2>5. QED
    BY <2>3, <2>4
<1>7. SetSums(f, T, all)
  <2>1. ASSUME NEW U \in SUBSET T
        PROVE  all[U] = IF U = {} THEN 0
                        ELSE LET x == CHOOSE x \in U : TRUE IN f[x] + all[U \ {x}]
    <3>1. CASE U = {}
      BY <3>1
    <3>2. CASE U # {}
      <4>1. PICK x, V : x = (CHOOSE y \in U : TRUE) /\ V = U \ {x}
        OBVIOUS
      <4>2. V \in SUBSET T /\ V # T
        BY <3>2, <4>1
      <4>3. all[U] = f[x] + SumOver(f, V) /\ all[V] = Value(V)
        BY <3>2, <4>1, <4>2
      <4>4. SumOver(f, V) = Value(V)
        BY <1>6, <4>2
      <4>5. QED
        BY <3>2, <4>1, <4>3, <4>4
    <3>3. QED
      BY <3>1, <3>2
  <2> HIDE DEF Value
  <2>2. all = [U \in SUBSET T |-> all[U]]
    OBVIOUS
  <2> HIDE DEF all
  <2>3. QED
    BY <2>1, <2>2 DEF SetSums
<1>8. QED
  BY <1>4, <1>7

LEMMA SumsAre ==
  ASSUME NEW f, NEW S, IsFiniteSet(S)
  PROVE  \E h : SetSums(f, S, h) /\ \A T \in SUBSET S : SumOver(f, T) = h[T]
<1>1. PICK h : SetSums(f, S, h)
  BY SetSumsExist
<1>2. ASSUME NEW T \in SUBSET S PROVE SumOver(f, T) = h[T]
  <2>1. IsFiniteSet(T)
    BY FS_Subset
  <2>2. PICK g : g = CHOOSE k : SetSums(f, T, k)
    OBVIOUS
  <2>3. SetSums(f, T, g) /\ SumOver(f, T) = g[T]
    BY <2>1, <2>2, SetSumsExist DEF SumOver
  <2>4. QED
    BY <1>1, <2>1, <2>3, SetSumsUnique
<1>3. QED
  BY <1>1, <1>2

\* The sum over no element, and over a set from which one is chosen.
LEMMA SumOverNone ==
  ASSUME NEW f
  PROVE  SumOver(f, {}) = 0
<1>1. PICK h : SetSums(f, {}, h) /\ SumOver(f, {}) = h[{}]
  BY SumsAre, FS_EmptySet
<1>2. QED
  BY <1>1 DEF SetSums

LEMMA SumOverChosen ==
  ASSUME NEW f, NEW S, IsFiniteSet(S), S # {}
  PROVE  \E x \in S : SumOver(f, S) = f[x] + SumOver(f, S \ {x})
<1>1. PICK h : SetSums(f, S, h) /\ \A T \in SUBSET S : SumOver(f, T) = h[T]
  BY SumsAre
<1>2. PICK x \in S : x = CHOOSE y \in S : TRUE
  OBVIOUS
<1>3. h[S] = f[x] + h[S \ {x}]
  BY <1>1, <1>2 DEF SetSums
<1>4. QED
  BY <1>1, <1>3

\* A sum of numbers is a number.
LEMMA SumOverTyped ==
  ASSUME NEW f, NEW S, IsFiniteSet(S), \A x \in S : f[x] \in Nat
  PROVE  SumOver(f, S) \in Nat
<1> DEFINE Bad == { T \in SUBSET S : SumOver(f, T) \notin Nat }
<1>1. SUFFICES ASSUME Bad # {} PROVE FALSE
  OBVIOUS
<1>2. \A T \in Bad : IsFiniteSet(T)
  BY FS_Subset
<1>3. PICK T \in Bad : \A U \in Bad : Cardinality(T) <= Cardinality(U)
  BY <1>1, <1>2, SmallestSet
<1>4. T # {}
  BY <1>3, SumOverNone
<1>5. PICK x \in T : SumOver(f, T) = f[x] + SumOver(f, T \ {x})
  BY <1>2, <1>3, <1>4, SumOverChosen
<1>6. Cardinality(T \ {x}) = Cardinality(T) - 1 /\ Cardinality(T) \in Nat
  BY <1>2, <1>3, <1>5, FS_RemoveElement, FS_CardinalityType
<1>7. T \ {x} \in SUBSET S /\ T \ {x} \notin Bad
  BY <1>3, <1>6
<1>8. f[x] \in Nat /\ SumOver(f, T \ {x}) \in Nat
  BY <1>3, <1>5, <1>7
<1>9. QED
  BY <1>3, <1>5, <1>8

\* The order does not matter: any element may be the one that is added.
LEMMA SumOverOneMore ==
  ASSUME NEW f, NEW S, IsFiniteSet(S), \A y \in S : f[y] \in Nat, NEW x \in S
  PROVE  SumOver(f, S) = f[x] + SumOver(f, S \ {x})
<1> DEFINE Bad == { T \in SUBSET S : \E y \in T : SumOver(f, T) # f[y] + SumOver(f, T \ {y}) }
<1>1. SUFFICES ASSUME Bad # {} PROVE FALSE
  OBVIOUS
<1>2. \A T \in SUBSET S : IsFiniteSet(T)
  BY FS_Subset
<1>3. PICK T \in Bad : \A U \in Bad : Cardinality(T) <= Cardinality(U)
  BY <1>1, <1>2, SmallestSet
<1>4. PICK y \in T : SumOver(f, T) # f[y] + SumOver(f, T \ {y})
  BY <1>3
<1>5. IsFiniteSet(T) /\ T \in SUBSET S
  BY <1>2, <1>3
<1>6. PICK z \in T : SumOver(f, T) = f[z] + SumOver(f, T \ {z})
  BY <1>4, <1>5, SumOverChosen
<1>7. y # z
  BY <1>4, <1>6
<1>8. ASSUME NEW c \in T PROVE T \ {c} \in SUBSET S /\ T \ {c} \notin Bad
  <2>1. Cardinality(T \ {c}) = Cardinality(T) - 1 /\ Cardinality(T) \in Nat
    BY <1>5, FS_RemoveElement, FS_CardinalityType
  <2>2. QED
    BY <1>3, <1>5, <2>1
<1>9. SumOver(f, T \ {z}) = f[y] + SumOver(f, (T \ {z}) \ {y})
  BY <1>7, <1>8
<1>10. SumOver(f, T \ {y}) = f[z] + SumOver(f, (T \ {y}) \ {z})
  BY <1>7, <1>8
<1>11. PICK U : U = (T \ {z}) \ {y} /\ U = (T \ {y}) \ {z}
  OBVIOUS
<1>12. SumOver(f, U) \in Nat /\ f[y] \in Nat /\ f[z] \in Nat
  <2>1. U \in SUBSET S
    BY <1>5, <1>11
  <2>2. QED
    BY <1>2, <1>5, <2>1, SumOverTyped
<1>13. QED
  BY <1>4, <1>6, <1>9, <1>10, <1>11, <1>12

LEMMA SumOverAdded ==
  ASSUME NEW f, NEW S, IsFiniteSet(S), NEW x, x \notin S,
         f[x] \in Nat, \A y \in S : f[y] \in Nat
  PROVE  SumOver(f, S \union {x}) = SumOver(f, S) + f[x]
<1>1. PICK T : T = S \union {x}
  OBVIOUS
<1>2. IsFiniteSet(T) /\ x \in T /\ T \ {x} = S /\ \A y \in T : f[y] \in Nat
  BY <1>1, FS_AddElement
<1>3. SumOver(f, T) = f[x] + SumOver(f, S)
  BY <1>2, SumOverOneMore
<1>4. SumOver(f, S) \in Nat
  BY SumOverTyped
<1>5. QED
  BY <1>1, <1>3, <1>4

\* The sum over two sets that have no element in common.
LEMMA SumOverUnion ==
  ASSUME NEW f, NEW S, NEW T, IsFiniteSet(S), IsFiniteSet(T), S \intersect T = {},
         \A x \in S \union T : f[x] \in Nat
  PROVE  SumOver(f, S \union T) = SumOver(f, S) + SumOver(f, T)
<1> DEFINE Good == { U \in SUBSET T : SumOver(f, S \union U) = SumOver(f, S) + SumOver(f, U) }
<1>1. SumOver(f, S) \in Nat
  BY SumOverTyped
<1>2. {} \in Good
  <2>1. S \union {} = S
    OBVIOUS
  <2>2. QED
    BY <1>1, <2>1, SumOverNone
<1>3. ASSUME NEW U \in SUBSET T, NEW x \in T \ U, U \in Good PROVE U \union {x} \in Good
  <2>1. IsFiniteSet(U) /\ IsFiniteSet(S \union U)
    BY FS_Subset, FS_Union
  <2>2. x \notin S \union U /\ f[x] \in Nat /\ \A y \in S \union U : f[y] \in Nat
    OBVIOUS
  <2>3. SumOver(f, (S \union U) \union {x}) = SumOver(f, S \union U) + f[x]
    BY <2>1, <2>2, SumOverAdded
  <2>4. SumOver(f, U \union {x}) = SumOver(f, U) + f[x]
    BY <2>1, <2>2, SumOverAdded
  <2>5. SumOver(f, U) \in Nat
    BY <2>1, <2>2, SumOverTyped
  <2>6. SumOver(f, S \union U) = SumOver(f, S) + SumOver(f, U)
    BY <1>3
  <2>7. (S \union U) \union {x} = S \union (U \union {x})
    OBVIOUS
  <2>8. SumOver(f, S \union (U \union {x})) = SumOver(f, S) + SumOver(f, U \union {x})
    <3>1. PICK a, b, c : a = SumOver(f, S) /\ b = SumOver(f, U) /\ c = f[x]
      OBVIOUS
    <3>2. a \in Nat /\ b \in Nat /\ c \in Nat
      BY <1>1, <2>2, <2>5, <3>1
    <3>3. SumOver(f, S \union (U \union {x})) = (a + b) + c
      BY <2>3, <2>6, <2>7, <3>1
    <3>4. SumOver(f, U \union {x}) = b + c
      BY <2>4, <3>1
    <3>5. QED
      BY <3>1, <3>2, <3>3, <3>4
  <2>9. QED
    BY <2>8
<1> HIDE DEF Good
<1>4. T \in Good
  BY <1>2, <1>3, SetInduction
<1>5. QED
  BY <1>4 DEF Good

\* What is added determines the sum.
LEMMA SumOverSame ==
  ASSUME NEW f, NEW g, NEW S, IsFiniteSet(S),
         \A x \in S : f[x] \in Nat /\ g[x] = f[x]
  PROVE  SumOver(f, S) = SumOver(g, S)
<1> DEFINE Good == { U \in SUBSET S : SumOver(f, U) = SumOver(g, U) }
<1>1. {} \in Good
  BY SumOverNone
<1>2. ASSUME NEW U \in SUBSET S, NEW x \in S \ U, U \in Good PROVE U \union {x} \in Good
  <2>1. IsFiniteSet(U) /\ x \notin U
    BY FS_Subset
  <2>2. SumOver(f, U \union {x}) = SumOver(f, U) + f[x]
    BY <2>1, SumOverAdded
  <2>3. SumOver(g, U \union {x}) = SumOver(g, U) + g[x]
    BY <2>1, SumOverAdded
  <2>4. QED
    BY <1>2, <2>2, <2>3
<1> HIDE DEF Good
<1>3. S \in Good
  BY <1>1, <1>2, SetInduction
<1>4. QED
  BY <1>3 DEF Good

\* Three numbers.
LEMMA SumOverThree ==
  ASSUME NEW f, NEW a, NEW b, NEW c, a # b, a # c, b # c,
         f[a] \in Nat, f[b] \in Nat, f[c] \in Nat, NEW S, S = {a, b, c}
  PROVE  SumOver(f, S) = (f[a] + f[b]) + f[c]
<1>1. SumOver(f, {} \union {a}) = SumOver(f, {}) + f[a]
  BY FS_EmptySet, SumOverAdded
<1>2. {} \union {a} = {a} /\ IsFiniteSet({a}) /\ SumOver(f, {}) = 0
  BY FS_Singleton, SumOverNone
<1>3. SumOver(f, {a}) = f[a]
  BY <1>1, <1>2
<1>4. SumOver(f, {a} \union {b}) = SumOver(f, {a}) + f[b]
  BY <1>2, SumOverAdded
<1>5. {a} \union {b} = {a, b} /\ IsFiniteSet({a, b})
  BY <1>2, FS_AddElement
<1>6. SumOver(f, {a, b} \union {c}) = SumOver(f, {a, b}) + f[c]
  BY <1>5, SumOverAdded
<1>7. {a, b} \union {c} = S
  OBVIOUS
<1>8. QED
  BY <1>3, <1>4, <1>5, <1>6, <1>7
=============================================================================
