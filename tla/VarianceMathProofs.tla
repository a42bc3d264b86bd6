-------------------------- MODULE VarianceMathProofs --------------------------
(***************************************************************************)
(* Theorems about VarianceMath: sums over sets of rows, the folds that     *)
(* build the tables of pass 1, and what pass 1 makes of the facts.         *)
(***************************************************************************)
EXTENDS VarianceMath, FiniteSetTheorems, SequenceTheorems, WellFoundedInduction, TLAPS

-----------------------------------------------------------------------------
(* Sums *)

Sigma(F, S) == MapThenSumSet(LAMBDA x : F[x], S)

Pick(s) == CHOOSE x \in s : TRUE

Iterates(F, S, g) ==
    g = [s \in SUBSET S |-> IF s = {} THEN 0 ELSE F[Pick(s)] + g[s \ {Pick(s)}]]

Iterated(F, S) == CHOOSE g : Iterates(F, S, g)

\* The sum is the last value of the iteration.
LEMMA SigmaIterated ==
  ASSUME NEW F, NEW S
  PROVE  Sigma(F, S) = Iterated(F, S)[S]
  BY DEF Sigma, MapThenSumSet, MapThenFoldSet, Iterated, Iterates, Pick

\* A set of subsets of a finite set that is not empty has a smallest member.
LEMMA SmallestSubset ==
  ASSUME NEW S, IsFiniteSet(S), NEW B, B \subseteq SUBSET S, B # {}
  PROVE  \E x \in B : \A y \in B : y \subseteq x => y = x
<1>1. IsWellFoundedOn(StrictSubsetOrdering(S), SUBSET S)
  BY FS_StrictSubsetOrderingWellFounded, FS_FiniteSubsetsOfFinite
<1>2. PICK x \in B : \A y \in B : ~ (<<y, x>> \in StrictSubsetOrdering(S))
  BY <1>1, WFMin
<1>3. ASSUME NEW y \in B, y \subseteq x, y # x  PROVE FALSE
  <2>1. <<y, x>> \in (SUBSET S) \X (SUBSET S)
    OBVIOUS
  <2>2. <<y, x>> \in StrictSubsetOrdering(S)
    BY <1>3, <2>1 DEF StrictSubsetOrdering
  <2> QED BY <1>2, <2>2
<1> QED BY <1>3

\* What is picked of a set is in it.
LEMMA PickIn ==
  ASSUME NEW s, s # {}
  PROVE  Pick(s) \in s
  BY DEF Pick

\* Two iterations agree where both are defined.
LEMMA IterationsAgree ==
  ASSUME NEW F, NEW S, IsFiniteSet(S), NEW T \in SUBSET S, NEW g, NEW h,
         Iterates(F, S, g), Iterates(F, T, h)
  PROVE  \A s \in SUBSET T : g[s] = h[s]
<1> DEFINE B == {s \in SUBSET T : g[s] # h[s]}
<1>1. SUFFICES ASSUME B # {}  PROVE FALSE
  OBVIOUS
<1>2. PICK x \in B : \A y \in B : y \subseteq x => y = x
  <2>1. B \subseteq SUBSET S
    OBVIOUS
  <2> HIDE DEF B
  <2> QED BY <1>1, <2>1, SmallestSubset
<1>3. CASE x = {}
  <2>1. g[{}] = 0
    BY DEF Iterates
  <2>2. h[{}] = 0
    BY DEF Iterates
  <2> QED BY <1>3, <2>1, <2>2
<1>4. CASE x # {}
  <2>1. Pick(x) \in x
    BY <1>4, PickIn
  <2>2. x \ {Pick(x)} \in SUBSET T /\ x \ {Pick(x)} # x
    BY <2>1
  <2>3. g[x \ {Pick(x)}] = h[x \ {Pick(x)}]
    BY <1>2, <2>2
  <2>4. g[x] = F[Pick(x)] + g[x \ {Pick(x)}]
    BY <1>4 DEF Iterates
  <2>5. h[x] = F[Pick(x)] + h[x \ {Pick(x)}]
    BY <1>4 DEF Iterates
  <2> QED BY <2>3, <2>4, <2>5
<1> QED BY <1>3, <1>4

Gathered(F, T) ==
    [s \in SUBSET T |-> IF s = {} THEN 0 ELSE F[Pick(s)] + Sigma(F, s \ {Pick(s)})]

\* There is an iteration, for every finite set.
LEMMA IterationExists ==
  ASSUME NEW F, NEW S, IsFiniteSet(S)
  PROVE  Iterates(F, S, Gathered(F, S))
<1> DEFINE B == {T \in SUBSET S : ~ Iterates(F, T, Gathered(F, T))}
<1>1. SUFFICES ASSUME B # {}  PROVE FALSE
  OBVIOUS
<1>2. PICK T \in B : \A y \in B : y \subseteq T => y = T
  <2>1. B \subseteq SUBSET S
    OBVIOUS
  <2> HIDE DEF B
  <2> QED BY <1>1, <2>1, SmallestSubset
<1>3. ASSUME NEW u \in SUBSET T, u # T
      PROVE  Sigma(F, u) = Gathered(F, u)[u]
  <2>1. Iterates(F, u, Gathered(F, u))
    BY <1>2, <1>3
  <2>2. Iterates(F, u, Iterated(F, u))
    BY <2>1 DEF Iterated
  <2>3. IsFiniteSet(u)
    BY FS_Subset
  <2>4. Iterated(F, u)[u] = Gathered(F, u)[u]
    BY <2>1, <2>2, <2>3, IterationsAgree
  <2> QED BY <2>4, SigmaIterated
<1>4. ASSUME NEW u \in SUBSET T
      PROVE  Gathered(F, u)[u] = Gathered(F, T)[u]
  BY DEF Gathered
<1>5. ASSUME NEW s \in SUBSET T, s # {}
      PROVE  Gathered(F, T)[s] = F[Pick(s)] + Gathered(F, T)[s \ {Pick(s)}]
  <2>1. Pick(s) \in s
    BY <1>5, PickIn
  <2>2. s \ {Pick(s)} \in SUBSET T /\ s \ {Pick(s)} # T
    BY <2>1
  <2>3. Sigma(F, s \ {Pick(s)}) = Gathered(F, T)[s \ {Pick(s)}]
    BY <1>3, <1>4, <2>2
  <2>4. Gathered(F, T)[s] = F[Pick(s)] + Sigma(F, s \ {Pick(s)})
    BY <1>5 DEF Gathered
  <2> QED BY <2>3, <2>4
<1>6. Gathered(F, T)[{}] = 0
  BY DEF Gathered
<1>7. Gathered(F, T) = [s \in SUBSET T |-> Gathered(F, T)[s]]
  BY DEF Gathered
<1>8. Iterates(F, T, Gathered(F, T))
  BY <1>5, <1>6, <1>7 DEF Iterates
<1> QED BY <1>2, <1>8

\* The sum over nothing is zero.
LEMMA SigmaEmpty ==
  ASSUME NEW F
  PROVE  Sigma(F, {}) = 0
<1>1. IsFiniteSet({})
  BY FS_EmptySet
<1>2. Iterates(F, {}, Iterated(F, {}))
  BY <1>1, IterationExists DEF Iterated
<1>3. Iterated(F, {})[{}] = 0
  BY <1>2 DEF Iterates
<1> QED BY <1>3, SigmaIterated

\* The sum is the picked value and the sum over the rest.
LEMMA SigmaPick ==
  ASSUME NEW F, NEW S, IsFiniteSet(S), S # {}
  PROVE  Sigma(F, S) = F[Pick(S)] + Sigma(F, S \ {Pick(S)})
<1>1. Iterates(F, S, Gathered(F, S))
  BY IterationExists
<1>2. Iterates(F, S, Iterated(F, S))
  BY <1>1 DEF Iterated
<1>3. Iterated(F, S)[S] = Gathered(F, S)[S]
  BY <1>1, <1>2, IterationsAgree
<1>4. Gathered(F, S)[S] = F[Pick(S)] + Sigma(F, S \ {Pick(S)})
  BY DEF Gathered
<1> QED BY <1>3, <1>4, SigmaIterated

\* The sum of numbers is a number.
LEMMA SigmaInt ==
  ASSUME NEW F, NEW S, IsFiniteSet(S), \A x \in S : F[x] \in Int
  PROVE  Sigma(F, S) \in Int
<1> DEFINE B == {T \in SUBSET S : Sigma(F, T) \notin Int}
<1>1. SUFFICES ASSUME B # {}  PROVE FALSE
  OBVIOUS
<1>2. PICK T \in B : \A y \in B : y \subseteq T => y = T
  <2>1. B \subseteq SUBSET S
    OBVIOUS
  <2> HIDE DEF B
  <2> QED BY <1>1, <2>1, SmallestSubset
<1>3. T # {}
  BY SigmaEmpty
<1>4. Pick(T) \in T
  BY <1>3, PickIn
<1>5. Sigma(F, T \ {Pick(T)}) \in Int
  BY <1>2, <1>4
<1>6. IsFiniteSet(T)
  BY FS_Subset
<1>7. Sigma(F, T) = F[Pick(T)] + Sigma(F, T \ {Pick(T)})
  BY <1>3, <1>6, SigmaPick
<1>8. Sigma(F, T) \in Int
  BY <1>4, <1>5, <1>7
<1> QED BY <1>8

\* Any member of the set may be taken out first.
LEMMA SigmaRemove ==
  ASSUME NEW F, NEW S, IsFiniteSet(S), \A x \in S : F[x] \in Int, NEW e \in S
  PROVE  Sigma(F, S) = F[e] + Sigma(F, S \ {e})
<1> DEFINE Right(T) == \A x \in T : Sigma(F, T) = F[x] + Sigma(F, T \ {x})
<1> DEFINE B == {T \in SUBSET S : ~ Right(T)}
<1>1. SUFFICES ASSUME B # {}  PROVE FALSE
  OBVIOUS
<1>2. PICK T \in B : \A y \in B : y \subseteq T => y = T
  <2>1. B \subseteq SUBSET S
    OBVIOUS
  <2> HIDE DEF B
  <2> QED BY <1>1, <2>1, SmallestSubset
<1>3. ASSUME NEW U \in SUBSET T, U # T, NEW x \in U
      PROVE  Sigma(F, U) = F[x] + Sigma(F, U \ {x})
  BY <1>2, <1>3
<1>4. ASSUME NEW x \in T
      PROVE  Sigma(F, T) = F[x] + Sigma(F, T \ {x})
  <2> DEFINE p == Pick(T)
  <2>1. p \in T
    BY <1>4, PickIn
  <2>2. IsFiniteSet(T)
    BY FS_Subset
  <2>3. Sigma(F, T) = F[p] + Sigma(F, T \ {p})
    BY <1>4, <2>2, SigmaPick
  <2>4. CASE x = p
    BY <2>3, <2>4
  <2>5. CASE x # p
    <3> HIDE DEF p
    <3>1. Sigma(F, T \ {p}) = F[x] + Sigma(F, (T \ {p}) \ {x})
      BY <1>3, <1>4, <2>1, <2>5
    <3>2. Sigma(F, T \ {x}) = F[p] + Sigma(F, (T \ {x}) \ {p})
      BY <1>3, <1>4, <2>1, <2>5
    <3>3. (T \ {p}) \ {x} = (T \ {x}) \ {p}
      OBVIOUS
    <3>4. IsFiniteSet((T \ {x}) \ {p})
      BY <2>2, FS_Subset
    <3>5. Sigma(F, (T \ {x}) \ {p}) \in Int
      BY <3>4, SigmaInt
    <3>6. F[x] \in Int /\ F[p] \in Int
      BY <1>4, <2>1
    <3>7. Sigma(F, (T \ {p}) \ {x}) = Sigma(F, (T \ {x}) \ {p})
      BY <3>3
    <3> DEFINE n == Sigma(F, (T \ {x}) \ {p})
    <3>8. Sigma(F, T) = F[p] + (F[x] + n)
      BY <2>3, <3>1, <3>7
    <3>9. Sigma(F, T \ {x}) = F[p] + n
      BY <3>2
    <3> HIDE DEF n
    <3>10. n \in Int
      BY <3>5 DEF n
    <3> QED BY <3>6, <3>8, <3>9, <3>10
  <2> QED BY <2>4, <2>5
<1> QED BY <1>4

\* Equal terms, equal sums.
LEMMA SigmaSame ==
  ASSUME NEW F, NEW G, NEW S, IsFiniteSet(S), \A x \in S : F[x] = G[x]
  PROVE  Sigma(F, S) = Sigma(G, S)
<1> DEFINE B == {T \in SUBSET S : Sigma(F, T) # Sigma(G, T)}
<1>1. SUFFICES ASSUME B # {}  PROVE FALSE
  OBVIOUS
<1>2. PICK T \in B : \A y \in B : y \subseteq T => y = T
  <2>1. B \subseteq SUBSET S
    OBVIOUS
  <2> HIDE DEF B
  <2> QED BY <1>1, <2>1, SmallestSubset
<1>3. T # {}
  BY SigmaEmpty
<1>4. Pick(T) \in T
  BY <1>3, PickIn
<1>5. Sigma(F, T \ {Pick(T)}) = Sigma(G, T \ {Pick(T)})
  BY <1>2, <1>4
<1>6. IsFiniteSet(T)
  BY FS_Subset
<1>7. Sigma(F, T) = F[Pick(T)] + Sigma(F, T \ {Pick(T)})
  BY <1>3, <1>6, SigmaPick
<1>8. Sigma(G, T) = G[Pick(T)] + Sigma(G, T \ {Pick(T)})
  BY <1>3, <1>6, SigmaPick
<1> QED BY <1>4, <1>5, <1>7, <1>8

\* The sum over two sets that have nothing in common.
LEMMA SigmaUnion ==
  ASSUME NEW F, NEW S, IsFiniteSet(S), NEW R, IsFiniteSet(R), S \cap R = {},
         \A x \in S \cup R : F[x] \in Int
  PROVE  Sigma(F, S \cup R) = Sigma(F, S) + Sigma(F, R)
<1> DEFINE B == {T \in SUBSET S : Sigma(F, T \cup R) # Sigma(F, T) + Sigma(F, R)}
<1>1. SUFFICES ASSUME B # {}  PROVE FALSE
  OBVIOUS
<1>2. PICK T \in B : \A y \in B : y \subseteq T => y = T
  <2>1. B \subseteq SUBSET S
    OBVIOUS
  <2> HIDE DEF B
  <2> QED BY <1>1, <2>1, SmallestSubset
<1>3. Sigma(F, R) \in Int
  BY SigmaInt
<1>4. T # {}
  <2>1. {} \cup R = R
    OBVIOUS
  <2>2. Sigma(F, {}) + Sigma(F, R) = Sigma(F, R)
    BY <1>3, SigmaEmpty
  <2> QED BY <2>1, <2>2
<1>5. PICK e : e \in T
  BY <1>4
<1>6. Sigma(F, (T \ {e}) \cup R) = Sigma(F, T \ {e}) + Sigma(F, R)
  BY <1>2, <1>5
<1>7. IsFiniteSet(T) /\ IsFiniteSet(T \ {e})
  BY FS_Subset
<1>8. Sigma(F, T) = F[e] + Sigma(F, T \ {e})
  BY <1>5, <1>7, SigmaRemove
<1>9. Sigma(F, T \cup R) = F[e] + Sigma(F, (T \cup R) \ {e})
  <2>1. IsFiniteSet(T \cup R)
    BY <1>7, FS_Union
  <2>2. \A x \in T \cup R : F[x] \in Int
    OBVIOUS
  <2>3. e \in T \cup R
    BY <1>5
  <2> QED BY <2>1, <2>2, <2>3, SigmaRemove
<1>10. (T \cup R) \ {e} = (T \ {e}) \cup R
  BY <1>5
<1>11. Sigma(F, T \ {e}) \in Int /\ F[e] \in Int
  BY <1>5, <1>7, SigmaInt
<1>12. Sigma(F, T \cup R) = F[e] + (Sigma(F, T \ {e}) + Sigma(F, R))
  BY <1>6, <1>9, <1>10
<1>13. Sigma(F, T \cup R) = Sigma(F, T) + Sigma(F, R)
  BY <1>3, <1>8, <1>11, <1>12
<1> QED BY <1>2, <1>13

\* The sum of the sums over the parts of a set.
Parts(F, I, part, G) ==
    /\ IsFiniteSet(I)
    /\ \A i \in I : IsFiniteSet(part[i]) /\ \A x \in part[i] : F[x] \in Int
    /\ \A i \in I : \A j \in I : i # j => part[i] \cap part[j] = {}
    /\ \A i \in I : G[i] = Sigma(F, part[i])

AddsUp(F, I, part, G) == Sigma(G, I) = Sigma(F, UNION {part[i] : i \in I})

\* The sum over the parts of a set is the sum over the set.
LEMMA SigmaParts ==
  ASSUME NEW F, NEW I, NEW part, NEW G, Parts(F, I, part, G)
  PROVE  AddsUp(F, I, part, G)
<1>1. /\ IsFiniteSet(I)
      /\ \A i \in I : IsFiniteSet(part[i]) /\ \A x \in part[i] : F[x] \in Int
      /\ \A i \in I : \A j \in I : i # j => part[i] \cap part[j] = {}
      /\ \A i \in I : G[i] = Sigma(F, part[i])
  BY DEF Parts
<1> DEFINE Whole(T) == UNION {part[i] : i \in T}
<1> DEFINE B == {T \in SUBSET I : Sigma(G, T) # Sigma(F, Whole(T))}
<1>2. SUFFICES Sigma(G, I) = Sigma(F, Whole(I))
  BY DEF AddsUp
<1>3. SUFFICES ASSUME B # {}  PROVE FALSE
  OBVIOUS
<1>4. PICK T \in B : \A y \in B : y \subseteq T => y = T
  <2>1. B \subseteq SUBSET I
    OBVIOUS
  <2> HIDE DEF B
  <2> QED BY <1>1, <1>3, <2>1, SmallestSubset
<1>5. T # {}
  <2>1. Whole({}) = {}
    OBVIOUS
  <2> HIDE DEF Whole
  <2> QED BY <2>1, SigmaEmpty
<1>6. PICK e : e \in T
  BY <1>5
<1>7. Sigma(G, T \ {e}) = Sigma(F, Whole(T \ {e}))
  BY <1>4, <1>6
<1>8. IsFiniteSet(T) /\ IsFiniteSet(T \ {e})
  BY <1>1, FS_Subset
<1>9. \A i \in I : G[i] \in Int
  BY <1>1, SigmaInt
<1>10. Sigma(G, T) = G[e] + Sigma(G, T \ {e})
  BY <1>6, <1>8, <1>9, SigmaRemove
<1>11. Whole(T) = part[e] \cup Whole(T \ {e}) /\ part[e] \cap Whole(T \ {e}) = {}
  BY <1>1, <1>6
<1>12. IsFiniteSet(Whole(T \ {e})) /\ \A x \in Whole(T \ {e}) : F[x] \in Int
  <2>1. IsFiniteSet({part[i] : i \in T \ {e}})
    <3> DEFINE f == [i \in T \ {e} |-> part[i]]
    <3>1. f \in Surjection(T \ {e}, {part[i] : i \in T \ {e}})
      BY DEF Surjection
    <3> QED BY <1>8, <3>1, FS_Surjection
  <2>2. \A P \in {part[i] : i \in T \ {e}} : IsFiniteSet(P)
    BY <1>1
  <2>3. IsFiniteSet(UNION {part[i] : i \in T \ {e}})
    BY <2>1, <2>2, FS_UNION
  <2>4. \A x \in Whole(T \ {e}) : F[x] \in Int
    BY <1>1
  <2> QED BY <2>3, <2>4
<1>13. Sigma(F, part[e] \cup Whole(T \ {e})) = Sigma(F, part[e]) + Sigma(F, Whole(T \ {e}))
  <2> HIDE DEF Whole
  <2> QED BY <1>1, <1>6, <1>11, <1>12, SigmaUnion
<1>14. Sigma(G, T) = Sigma(F, Whole(T))
  BY <1>1, <1>6, <1>7, <1>10, <1>11, <1>13
<1> QED BY <1>4, <1>14

\* The sum of differences.
LEMMA SigmaMinus ==
  ASSUME NEW F, NEW G, NEW H, NEW S, IsFiniteSet(S),
         \A x \in S : F[x] \in Int /\ G[x] \in Int /\ H[x] = F[x] - G[x]
  PROVE  Sigma(H, S) = Sigma(F, S) - Sigma(G, S)
<1> DEFINE B == {T \in SUBSET S : Sigma(H, T) # Sigma(F, T) - Sigma(G, T)}
<1>1. SUFFICES ASSUME B # {}  PROVE FALSE
  OBVIOUS
<1>2. PICK T \in B : \A y \in B : y \subseteq T => y = T
  <2>1. B \subseteq SUBSET S
    OBVIOUS
  <2> HIDE DEF B
  <2> QED BY <1>1, <2>1, SmallestSubset
<1>3. T # {}
  <2>1. Sigma(F, {}) = 0 /\ Sigma(G, {}) = 0 /\ Sigma(H, {}) = 0
    BY SigmaEmpty
  <2>2. Sigma(H, {}) = Sigma(F, {}) - Sigma(G, {})
    BY <2>1
  <2>3. Sigma(H, T) # Sigma(F, T) - Sigma(G, T)
    BY <1>2
  <2> QED BY <2>2, <2>3
<1>4. PICK e : e \in T
  BY <1>3
<1>5. Sigma(H, T \ {e}) = Sigma(F, T \ {e}) - Sigma(G, T \ {e})
  BY <1>2, <1>4
<1>6. IsFiniteSet(T) /\ IsFiniteSet(T \ {e})
  BY FS_Subset
<1>7. F[e] \in Int /\ G[e] \in Int /\ H[e] = F[e] - G[e] /\ \A x \in T : H[x] \in Int
  BY <1>4
<1>8. Sigma(F, T \ {e}) \in Int /\ Sigma(G, T \ {e}) \in Int
  BY <1>6, SigmaInt
<1>9. Sigma(F, T) = F[e] + Sigma(F, T \ {e})
  BY <1>4, <1>6, SigmaRemove
<1>10. Sigma(G, T) = G[e] + Sigma(G, T \ {e})
  BY <1>4, <1>6, SigmaRemove
<1>11. Sigma(H, T) = H[e] + Sigma(H, T \ {e})
  BY <1>4, <1>6, <1>7, SigmaRemove
<1>12. Sigma(H, T) = Sigma(F, T) - Sigma(G, T)
  BY <1>5, <1>7, <1>8, <1>9, <1>10, <1>11
<1> QED BY <1>2, <1>12

\* The sums of groupby, term by term.
IteratesRows(rows, f, S, g) ==
    g = [s \in SUBSET S |-> IF s = {} THEN 0 ELSE rows[Pick(s)][f] + g[s \ {Pick(s)}]]

IteratedRows(rows, f, S) == CHOOSE g : IteratesRows(rows, f, S, g)

Column(rows, f) == [k \in DOMAIN rows |-> rows[k][f]]

\* Each amount of a total is a sum over its column.
LEMMA TotalIsSigma ==
  ASSUME NEW rows, NEW K, K \subseteq DOMAIN rows, NEW f \in DOMAIN Zero
  PROVE  Total(rows, K)[f] = Sigma(Column(rows, f), K)
<1>1. Total(rows, K)[f] = IteratedRows(rows, f, K)[K]
  BY DEF Total, MapThenSumSet, MapThenFoldSet, IteratedRows, IteratesRows, Pick
<1>2. \A g : IteratesRows(rows, f, K, g) <=> Iterates(Column(rows, f), K, g)
  <2>1. \A s \in SUBSET K : s # {} => Pick(s) \in K
    BY PickIn
  <2> QED BY <2>1 DEF IteratesRows, Iterates, Column
<1>3. IteratedRows(rows, f, K) = Iterated(Column(rows, f), K)
  BY <1>2, Zenon DEF IteratedRows, Iterated
<1> QED BY <1>1, <1>3, SigmaIterated

\* The total of rows that two tables have in common.
LEMMA TotalSame ==
  ASSUME NEW rows, NEW t, NEW K, IsFiniteSet(K), K \subseteq DOMAIN rows, K \subseteq DOMAIN t,
         \A k \in K : rows[k] = t[k]
  PROVE  \A f \in DOMAIN Zero : Total(rows, K)[f] = Total(t, K)[f]
<1> TAKE f \in DOMAIN Zero
<1>1. \A k \in K : Column(rows, f)[k] = Column(t, f)[k]
  BY DEF Column
<1>2. Sigma(Column(rows, f), K) = Sigma(Column(t, f), K)
  BY <1>1, SigmaSame
<1> QED BY <1>2, TotalIsSigma

-----------------------------------------------------------------------------
(* Folds over accounts *)

\* One account of the roll-up, and one of the calculated accounts; one account listed
\* under its parent, as the data service does it; one number of a sum; and the visit of
\* one account.
Extended(kind, rows, t, a) ==
    CASE kind = "rollup" -> Over(SumInto(rows, a, Children(a)), t)
      [] kind = "formula" -> Over(FormulaRows(t, a), t)
      [] kind = "children" -> IF Parent[a] = Null THEN t
                              ELSE [t EXCEPT ![Parent[a]] = Append(@, a)]
      [] kind = "sum" -> t + a
      [] kind = "visit" -> rows.visit[[t EXCEPT !.account = a]]

\* What a fold begins with.
Begun(kind, rows) == IF kind = "visit" THEN rows.base ELSE rows

Folds(kind, rows, seq, S, g) ==
    g = [s \in SUBSET S |-> IF s = {} THEN Begun(kind, rows)
                           ELSE Extended(kind, rows, g[s \ {Max(s)}], seq[Max(s)])]

Folded(kind, rows, seq, S) == CHOOSE g : Folds(kind, rows, seq, S, g)

\* The roll-up is a fold over the accounts.
LEMMA RollupFolds ==
  ASSUME NEW rows
  PROVE  RollupAccounts(rows)
           = Folded("rollup", rows, AccountOrder, DOMAIN AccountOrder)[DOMAIN AccountOrder]
  BY DEF RollupAccounts, FoldLeft, MapThenFoldSet, Folded, Folds, Extended, Begun

\* The formulas are resolved by a fold over the calculated accounts.
LEMMA ResolveFolds ==
  ASSUME NEW rows
  PROVE  ResolveCalculated(rows)
           = Folded("formula", rows, TopologicalSort, DOMAIN TopologicalSort)[DOMAIN TopologicalSort]
  BY DEF ResolveCalculated, FoldLeft, MapThenFoldSet, Folded, Folds, Extended, Begun

\* A finite set of numbers that is not empty has a greatest member.
LEMMA MaxIn ==
  ASSUME NEW s, \A y \in s : y \in Int, IsFiniteSet(s), s # {}
  PROVE  /\ Max(s) \in s
         /\ \A y \in s : Max(s) >= y
<1> DEFINE Above(x) == {y \in s : y >= x}
           B == {Above(x) : x \in s}
<1>1. PICK A \in B : \A U \in B : U \subseteq A => U = A
  <2>1. B \subseteq SUBSET s /\ B # {}
    OBVIOUS
  <2> HIDE DEF B
  <2> QED BY ONLY <2>1, IsFiniteSet(s), SmallestSubset
<1>2. PICK x \in s : A = Above(x)
  OBVIOUS
<1>3. ASSUME NEW y \in s, ~ (x >= y)  PROVE FALSE
  <2>1. x \in Int /\ y \in Int
    OBVIOUS
  <2>2. y > x
    <3>1. \A p \in Int, q \in Int : ~ (p >= q) => q > p
      OBVIOUS
    <3> QED BY ONLY <1>3, <2>1, <3>1
  <2>3. \A z \in s : z >= y => z >= x
    BY <2>1, <2>2
  <2>4. Above(y) \subseteq Above(x) /\ x \notin Above(y) /\ x \in Above(x)
    <3>1. ~ (x >= y)
      BY <1>3
    <3>2. \A p \in Int : p >= p
      OBVIOUS
    <3>3. x >= x
      BY <2>1, <3>2, Zenon
    <3> QED BY <2>3, <3>1, <3>3, Zenon
  <2>5. Above(y) \in B
    OBVIOUS
  <2> HIDE DEF B, Above
  <2>6. Above(y) = Above(x)
    BY <1>1, <1>2, <2>4, <2>5, Zenon
  <2> QED BY <2>4, <2>6, Zenon
<1> QED BY <1>3 DEF Max

\* Two folds agree where both are defined.
LEMMA FoldsAgree ==
  ASSUME NEW kind, NEW rows, NEW seq, NEW S, \A i \in S : i \in Int, IsFiniteSet(S),
         NEW T \in SUBSET S, NEW g, NEW h,
         Folds(kind, rows, seq, S, g), Folds(kind, rows, seq, T, h)
  PROVE  \A s \in SUBSET T : g[s] = h[s]
<1> DEFINE B == {s \in SUBSET T : g[s] # h[s]}
<1>1. SUFFICES ASSUME B # {}  PROVE FALSE
  OBVIOUS
<1>2. PICK x \in B : \A y \in B : y \subseteq x => y = x
  <2>1. B \subseteq SUBSET S
    OBVIOUS
  <2> HIDE DEF B
  <2> QED BY ONLY <1>1, <2>1, IsFiniteSet(S), SmallestSubset
<1>3. CASE x = {}
  <2>1. g[{}] = Begun(kind, rows)
    BY DEF Folds
  <2>2. h[{}] = Begun(kind, rows)
    BY DEF Folds
  <2> QED BY <1>3, <2>1, <2>2
<1>4. CASE x # {}
  <2>1. Max(x) \in x
    BY <1>4, FS_Subset, MaxIn
  <2>2. x \ {Max(x)} \in SUBSET T /\ x \ {Max(x)} # x
    BY <2>1
  <2>3. g[x \ {Max(x)}] = h[x \ {Max(x)}]
    BY <1>2, <2>2
  <2>4. g[x] = Extended(kind, rows, g[x \ {Max(x)}], seq[Max(x)])
    BY <1>4 DEF Folds
  <2>5. h[x] = Extended(kind, rows, h[x \ {Max(x)}], seq[Max(x)])
    BY <1>4 DEF Folds
  <2> QED BY <2>3, <2>4, <2>5
<1> QED BY <1>3, <1>4

FoldStep(kind, rows, seq, T) ==
    [s \in SUBSET T |-> IF s = {} THEN Begun(kind, rows)
                        ELSE Extended(kind, rows,
                                 Folded(kind, rows, seq, s \ {Max(s)})[s \ {Max(s)}], seq[Max(s)])]

\* There is a fold over every part of a sequence.
LEMMA FoldExists ==
  ASSUME NEW kind, NEW rows, NEW seq, NEW S, \A i \in S : i \in Int, IsFiniteSet(S)
  PROVE  Folds(kind, rows, seq, S, FoldStep(kind, rows, seq, S))
<1> DEFINE Step(T) == FoldStep(kind, rows, seq, T)
<1> DEFINE B == {T \in SUBSET S : ~ Folds(kind, rows, seq, T, Step(T))}
<1>1. SUFFICES ASSUME B # {}  PROVE FALSE
  OBVIOUS
<1>2. PICK T \in B : \A y \in B : y \subseteq T => y = T
  <2>1. B \subseteq SUBSET S
    OBVIOUS
  <2> HIDE DEF B
  <2> QED BY ONLY <1>1, <2>1, IsFiniteSet(S), SmallestSubset
<1>3. ASSUME NEW u \in SUBSET T, u # T
      PROVE  Folded(kind, rows, seq, u)[u] = Step(u)[u]
  <2> DEFINE g == Folded(kind, rows, seq, u)
             h == Step(u)
  <2>1. Folds(kind, rows, seq, u, h)
    BY <1>2, <1>3
  <2>2. Folds(kind, rows, seq, u, g)
    BY <2>1 DEF Folded
  <2> HIDE DEF g, h
  <2>3. (\A i \in u : i \in Int) /\ IsFiniteSet(u) /\ u \in SUBSET u
    BY <1>3, FS_Subset
  <2>4. \A s \in SUBSET u : g[s] = h[s]
    BY <2>1, <2>2, <2>3, FoldsAgree
  <2>5. g[u] = h[u]
    BY <2>4
  <2> QED BY <2>5 DEF g, h
<1>4. ASSUME NEW u \in SUBSET T
      PROVE  Step(u)[u] = Step(T)[u]
  BY DEF FoldStep
<1>5. ASSUME NEW s \in SUBSET T, s # {}
      PROVE  Step(T)[s] = Extended(kind, rows, Step(T)[s \ {Max(s)}], seq[Max(s)])
  <2>1. Max(s) \in s
    BY <1>5, FS_Subset, MaxIn
  <2>2. s \ {Max(s)} \in SUBSET T /\ s \ {Max(s)} # T
    BY <2>1
  <2>3. Folded(kind, rows, seq, s \ {Max(s)})[s \ {Max(s)}] = Step(T)[s \ {Max(s)}]
    BY <1>3, <1>4, <2>2
  <2>4. Step(T)[s] = Extended(kind, rows,
            Folded(kind, rows, seq, s \ {Max(s)})[s \ {Max(s)}], seq[Max(s)])
    BY <1>5 DEF FoldStep
  <2> QED BY <2>3, <2>4
<1>6. Step(T)[{}] = Begun(kind, rows)
  BY DEF FoldStep
<1>7. Step(T) = [s \in SUBSET T |-> Step(T)[s]]
  BY DEF FoldStep
<1>8. Folds(kind, rows, seq, T, Step(T))
  <2> HIDE DEF Step
  <2> QED BY <1>5, <1>6, <1>7 DEF Folds
<1> QED BY <1>2, <1>8

FoldAt(kind, rows, seq, i) == Folded(kind, rows, seq, 1..i)[1..i]

\* Where a fold is defined it is its own iteration.
LEMMA FoldedFolds ==
  ASSUME NEW kind, NEW rows, NEW seq, NEW S, \A i \in S : i \in Int, IsFiniteSet(S)
  PROVE  Folds(kind, rows, seq, S, Folded(kind, rows, seq, S))
<1>1. Folds(kind, rows, seq, S, FoldStep(kind, rows, seq, S))
  BY FoldExists
<1> QED BY <1>1 DEF Folded

\* The fold over no element, and over one more.
LEMMA FoldBegins ==
  ASSUME NEW kind, NEW rows, NEW seq
  PROVE  FoldAt(kind, rows, seq, 0) = Begun(kind, rows)
<1>1. 1..0 = {} /\ IsFiniteSet({})
  BY FS_EmptySet
<1>2. Folds(kind, rows, seq, {}, Folded(kind, rows, seq, {}))
  BY <1>1, FoldedFolds
<1>3. Folded(kind, rows, seq, {})[{}] = Begun(kind, rows)
  BY <1>2 DEF Folds
<1> QED BY <1>1, <1>3 DEF FoldAt

\* A fold goes on with the next member of its sequence.
LEMMA FoldGoesOn ==
  ASSUME NEW kind, NEW rows, NEW seq, NEW i \in Nat
  PROVE  FoldAt(kind, rows, seq, i + 1)
           = Extended(kind, rows, FoldAt(kind, rows, seq, i), seq[i + 1])
<1> DEFINE n == i + 1
           N == 1..n
           M == 1..i
           g == Folded(kind, rows, seq, N)
           h == Folded(kind, rows, seq, M)
<1>1. n \in N /\ (\A j \in N : j \in Int) /\ M \in SUBSET N /\ N \ {n} = M /\ \A y \in N : n >= y
  OBVIOUS
<1>2. IsFiniteSet(N) /\ IsFiniteSet(M)
  BY FS_Interval
<1>3. FoldAt(kind, rows, seq, n) = g[N] /\ FoldAt(kind, rows, seq, i) = h[M]
  BY DEF FoldAt
<1>4. n \in Int
  OBVIOUS
<1> HIDE DEF n, N, M
<1>5. Max(N) = n
  <2>1. Max(N) \in N /\ Max(N) >= n
    BY <1>1, <1>2, MaxIn
  <2>2. Max(N) \in Int /\ n >= Max(N)
    BY <1>1, <2>1
  <2> QED BY <1>4, <2>1, <2>2
<1>6. Folds(kind, rows, seq, N, g)
  BY <1>1, <1>2, FoldedFolds
<1>7. Folds(kind, rows, seq, M, h)
  BY <1>1, <1>2, FoldedFolds
<1> HIDE DEF g, h
<1>8. g[N] = Extended(kind, rows, g[M], seq[n])
  <2>1. g[N] = Extended(kind, rows, g[N \ {Max(N)}], seq[Max(N)])
    BY <1>1, <1>6 DEF Folds
  <2> QED BY <1>1, <1>5, <2>1
<1>9. g[M] = h[M]
  <2>1. \A s \in SUBSET M : g[s] = h[s]
    BY <1>1, <1>2, <1>6, <1>7, FoldsAgree
  <2> QED BY <2>1
<1>10. FoldAt(kind, rows, seq, n) = Extended(kind, rows, FoldAt(kind, rows, seq, i), seq[n])
  BY <1>3, <1>8, <1>9
<1> QED BY <1>10 DEF n

-----------------------------------------------------------------------------
(* Numbers in order *)

\* Induction over the numbers, with a set for the formula.
LEMMA Induction ==
  ASSUME NEW P, 0 \in P, \A i \in Nat : i \in P => i + 1 \in P
  PROVE  \A n \in Nat : n \in P
<1>1. SUFFICES ASSUME NEW n \in Nat, n \notin P  PROVE FALSE
  OBVIOUS
<1> DEFINE T == {x \in 0..n : x \in P}
<1>2. 0 \in T /\ (\A y \in T : y \in Int) /\ IsFiniteSet(T)
  <2>1. IsFiniteSet(0..n)
    BY FS_Interval
  <2>2. T \subseteq 0..n
    OBVIOUS
  <2>3. IsFiniteSet(T)
    BY <2>1, <2>2, FS_Subset
  <2> QED BY <2>3
<1> DEFINE m == Max(T)
<1>3. m \in T /\ \A y \in T : m >= y
  <2> HIDE DEF T
  <2>1. T # {}
    BY <1>2
  <2> QED BY <1>2, <2>1, MaxIn
<1> HIDE DEF m
<1>4. m \in 0..n /\ m \in P
  BY <1>3
<1>5. m # n
  BY <1>1, <1>4
<1>6. m + 1 \in 0..n /\ m + 1 \in P /\ ~ (m >= m + 1)
  BY <1>4, <1>5
<1>7. m + 1 \in T
  BY <1>6
<1> QED BY <1>3, <1>6, <1>7

\* The members of a sequence are finite in number.
LEMMA MembersFinite ==
  ASSUME NEW S, NEW s \in Seq(S)
  PROVE  IsFiniteSet(ToSet(s))
<1>1. IsFiniteSet(1..Len(s))
  BY FS_Interval
<1>2. [i \in 1..Len(s) |-> s[i]] \in Surjection(1..Len(s), ToSet(s))
  BY DEF Surjection, ToSet
<1> QED BY <1>1, <1>2, FS_Surjection

\* The smaller members of a set of numbers.
Smaller(S, x) == {m \in S : m < x}

Rank(S, x) == Cardinality(Smaller(S, x))

\* The ranks of the members of a set of numbers.
LEMMA RanksOfMembers ==
  ASSUME NEW S, IsFiniteSet(S), \A x \in S : x \in Int
  PROVE  /\ Cardinality(S) \in Nat
         /\ \A x \in S : Rank(S, x) \in 0..(Cardinality(S) - 1)
         /\ \A x \in S, y \in S : x < y => Rank(S, x) < Rank(S, y)
<1>1. Cardinality(S) \in Nat
  BY FS_CardinalityType
<1>2. ASSUME NEW x \in S, NEW T \in SUBSET S, Smaller(S, x) \subseteq T \ {x}, x \in T
      PROVE  Rank(S, x) \in Nat /\ Cardinality(T) \in Nat /\ Rank(S, x) <= Cardinality(T) - 1
  <2>1. IsFiniteSet(T)
    BY FS_Subset
  <2>2. IsFiniteSet(T \ {x}) /\ Cardinality(T \ {x}) = Cardinality(T) - 1
    BY <1>2, <2>1, FS_RemoveElement
  <2>3. IsFiniteSet(Smaller(S, x)) /\ Cardinality(Smaller(S, x)) <= Cardinality(T \ {x})
    BY <1>2, <2>2, FS_Subset
  <2>4. Cardinality(Smaller(S, x)) \in Nat /\ Cardinality(T) \in Nat
    BY <2>1, <2>3, FS_CardinalityType
  <2> QED BY <2>2, <2>3, <2>4 DEF Rank
<1>3. \A x \in S : ~(x < x)
  OBVIOUS
<1>4. ASSUME NEW x \in S
      PROVE  Rank(S, x) \in 0..(Cardinality(S) - 1)
  <2>1. Smaller(S, x) \subseteq S \ {x}
    BY <1>3 DEF Smaller
  <2>2. Rank(S, x) \in Nat /\ Rank(S, x) <= Cardinality(S) - 1
    BY <1>2, <2>1
  <2> QED BY <1>1, <2>2
<1>5. ASSUME NEW x \in S, NEW y \in S, x < y
      PROVE  Rank(S, x) < Rank(S, y)
  <2>1. \A m \in S : m < x => m < y
    BY <1>5
  <2>2. Smaller(S, x) \subseteq Smaller(S, y) \ {x} /\ x \in Smaller(S, y)
    BY <1>3, <1>5, <2>1 DEF Smaller
  <2>3. Smaller(S, y) \in SUBSET S
    BY DEF Smaller
  <2>4. /\ Rank(S, x) \in Nat /\ Cardinality(Smaller(S, y)) \in Nat
        /\ Rank(S, x) <= Cardinality(Smaller(S, y)) - 1
    BY <1>2, <2>2, <2>3
  <2> QED BY <2>4 DEF Rank
<1> QED BY <1>1, <1>4, <1>5

\* The members of a finite set of numbers in order: each at one place, the smaller first.
LEMMA AscendingOrder ==
  ASSUME NEW S, IsFiniteSet(S), \A x \in S : x \in Int
  PROVE  /\ Cardinality(S) \in Nat
         /\ DOMAIN Ascending(S) = 1..Cardinality(S)
         /\ \A i \in 1..Cardinality(S) : Ascending(S)[i] \in S
         /\ \A i \in 1..Cardinality(S), j \in 1..Cardinality(S) :
               i < j => Ascending(S)[i] < Ascending(S)[j]
         /\ \A x \in S : \E i \in 1..Cardinality(S) : Ascending(S)[i] = x
<1> DEFINE n == Cardinality(S)
           f == [x \in S |-> Rank(S, x)]
           at == Ascending(S)
<1>1. /\ n \in Nat
      /\ \A x \in S : f[x] \in 0..(n - 1)
      /\ \A x \in S, y \in S : x < y => f[x] < f[y]
  BY RanksOfMembers
<1>2. at = [i \in 1..n |-> CHOOSE x \in S : Rank(S, x) = i - 1]
  BY DEF Ascending, Rank, Smaller
<1>3. f = [x \in S |-> f[x]] /\ \A x \in S : f[x] = Rank(S, x)
  OBVIOUS
<1> HIDE DEF f, n, at
<1>4. \A x \in S, y \in S : f[x] = f[y] => x = y
  <2> SUFFICES ASSUME NEW x \in S, NEW y \in S, f[x] = f[y], x # y  PROVE FALSE
    OBVIOUS
  <2>1. x < y \/ y < x
    OBVIOUS
  <2>2. f[x] < f[y] \/ f[y] < f[x]
    BY <1>1, <2>1
  <2>3. f[x] \in Int /\ f[y] \in Int
    BY <1>1
  <2> QED BY <2>2, <2>3
<1>5. f \in Injection(S, 0..(n - 1))
  BY <1>1, <1>3, <1>4 DEF Injection, IsInjective
<1>6. IsFiniteSet(0..(n - 1)) /\ Cardinality(0..(n - 1)) = n
  BY <1>1, FS_Interval
<1>7. f \in Surjection(S, 0..(n - 1))
  BY <1>5, <1>6, FS_Injection DEF n
<1>8. ASSUME NEW i \in 1..n
      PROVE  at[i] \in S /\ f[at[i]] = i - 1
  <2>1. i - 1 \in 0..(n - 1)
    BY <1>1
  <2>2. \E x \in S : f[x] = i - 1
    BY <1>7, <2>1 DEF Surjection
  <2>3. \E x \in S : Rank(S, x) = i - 1
    BY <1>3, <2>2
  <2>4. at[i] \in S /\ Rank(S, at[i]) = i - 1
    BY <1>2, <2>3
  <2> QED BY <1>3, <2>4
<1>9. ASSUME NEW i \in 1..n, NEW j \in 1..n, i < j
      PROVE  at[i] < at[j]
  <2>1. at[i] \in Int /\ at[j] \in Int
    BY <1>8
  <2>2. ~(at[j] < at[i]) /\ at[j] # at[i]
    <3>1. f[at[i]] = i - 1 /\ f[at[j]] = j - 1 /\ ~(j - 1 < i - 1) /\ j - 1 # i - 1
      BY <1>8, <1>9
    <3> QED BY <1>1, <1>8, <3>1
  <2> QED BY <2>1, <2>2
<1>10. ASSUME NEW x \in S
       PROVE  \E i \in 1..n : at[i] = x
  <2>1. f[x] + 1 \in 1..n /\ (f[x] + 1) - 1 = f[x]
    BY <1>1
  <2>2. f[at[f[x] + 1]] = f[x] /\ at[f[x] + 1] \in S
    BY <1>8, <2>1
  <2>3. at[f[x] + 1] = x
    BY <1>4, <2>2
  <2> QED BY <2>1, <2>3
<1>11. DOMAIN at = 1..n
  BY <1>2
<1> QED BY <1>1, <1>8, <1>9, <1>10, <1>11 DEF n, at

-----------------------------------------------------------------------------
(* Entries among others *)

\* What is taken of a sequence are those of its entries that are in the set; when they
\* are different in the sequence, they still are.
TakenOf(seq, S, taken) ==
    /\ taken \in Seq(S) /\ Len(taken) \in Nat /\ DOMAIN taken = 1..Len(taken)
    /\ \A i \in 1..Len(taken) : taken[i] \in S /\ \E j \in DOMAIN seq : taken[i] = seq[j]
    /\ \A j \in DOMAIN seq : seq[j] \in S => \E i \in 1..Len(taken) : taken[i] = seq[j]
    /\ IsInjective(seq) => \A i, j \in 1..Len(taken) : taken[i] = taken[j] => i = j

\* What is taken of a sequence has those entries, in their order.
LEMMA AmongEntries ==
    ASSUME NEW U, NEW seq \in Seq(U), NEW S
    PROVE  TakenOf(seq, S, Among(seq, S))
  <1> DEFINE T == {i \in DOMAIN seq : seq[i] \in S}
             places == Ascending(T)
             n == Cardinality(T)
             taken == [i \in 1..n |-> seq[places[i]]]
  <1>1. Len(seq) \in Nat /\ DOMAIN seq = 1..Len(seq)
    BY LenProperties
  <1>2. IsFiniteSet(T) /\ \A x \in T : x \in Int
    <2>1. T \subseteq 1..Len(seq) /\ IsFiniteSet(1..Len(seq))
      BY <1>1, FS_Interval
    <2> HIDE DEF T
    <2>2. IsFiniteSet(T)
      BY <2>1, FS_Subset
    <2> QED
      BY <1>1, <2>1, <2>2
  <1>3. /\ n \in Nat /\ DOMAIN places = 1..n
        /\ \A i \in 1..n : places[i] \in T
        /\ \A i \in 1..n, j \in 1..n : i < j => places[i] < places[j]
        /\ \A x \in T : \E i \in 1..n : places[i] = x
    <2> HIDE DEF T
    <2> QED
      BY <1>2, AscendingOrder
  <1>4. Among(seq, S) = taken
    BY <1>3 DEF Among
  <1> HIDE DEF places, n
  <1>5. DOMAIN taken = 1..n /\ Len(taken) = n
    BY <1>3
  <1>6. \A i \in 1..n : taken[i] = seq[places[i]] /\ places[i] \in DOMAIN seq /\ taken[i] \in S
    BY <1>3
  <1>10. taken \in Seq(S)
    <2>1. taken \in [1..n -> S]
      BY <1>6
    <2> HIDE DEF taken
    <2> QED
      BY <1>3, <2>1
  <1> HIDE DEF taken
  <1>7. \A j \in DOMAIN seq : seq[j] \in S => \E i \in 1..n : taken[i] = seq[j]
    <2> SUFFICES ASSUME NEW j \in DOMAIN seq, seq[j] \in S
                 PROVE  \E i \in 1..n : taken[i] = seq[j]
      OBVIOUS
    <2>1. PICK i \in 1..n : places[i] = j
      BY <1>3
    <2> QED
      BY <1>6, <2>1
  <1>8. ASSUME IsInjective(seq), NEW i \in 1..n, NEW j \in 1..n, taken[i] = taken[j]
        PROVE  i = j
    <2>1. places[i] = places[j] /\ places[i] \in Int /\ i \in Int /\ j \in Int
      BY <1>2, <1>3, <1>6, <1>8 DEF IsInjective
    <2>2. ~(i < j) /\ ~(j < i)
      BY <1>3, <2>1
    <2> QED
      BY <2>1, <2>2
  <1>9. TakenOf(seq, S, taken)
    BY <1>3, <1>5, <1>6, <1>7, <1>8, <1>10 DEF TakenOf
  <1> QED
    BY <1>4, <1>9

-----------------------------------------------------------------------------
(* The order of the formulas *)

Calc(S) == Among(AccountOrder, DOMAIN Formula \cap S)

Walks ==
    [account : DOMAIN Formula, visited : SUBSET DOMAIN Formula, resolved : Seq(DOMAIN Formula)]

\* How far an account is above those whose formula is about none with a formula.
Level ==
    CHOOSE level \in [DOMAIN Formula -> 0..(Cardinality(DOMAIN Formula) - 1)] :
        \A a, d \in DOMAIN Formula : d \in Dependencies(a) => level[d] < level[a]

\* What a formula is about is below its account.
LEMMA LevelsFall ==
  /\ Level \in [DOMAIN Formula -> 0..(Cardinality(DOMAIN Formula) - 1)]
  /\ \A a, d \in DOMAIN Formula : d \in Dependencies(a) => Level[d] < Level[a]
BY FormulasOK DEF FormulasOK, Level

\* There are finitely many formulas.
LEMMA FormulasFinite ==
  /\ IsFiniteSet(DOMAIN Formula) /\ Cardinality(DOMAIN Formula) \in Nat
  /\ DOMAIN Formula \subseteq Accounts
<1>1. IsFiniteSet(Accounts) /\ DOMAIN Formula \subseteq Accounts
  BY AccountsOK, MembersFinite DEF AccountsOK, Accounts
<1> QED BY <1>1, FS_Subset, FS_CardinalityType

\* The accounts a visit goes on to are accounts with a formula, and all there are.
LEMMA CalcEntries ==
  ASSUME NEW S
  PROVE  /\ Calc(S) \in Seq(DOMAIN Formula)
         /\ \A i \in 1..Len(Calc(S)) : Calc(S)[i] \in DOMAIN Formula \cap S
         /\ \A d \in DOMAIN Formula \cap S : \E i \in 1..Len(Calc(S)) : Calc(S)[i] = d
<1> DEFINE T == DOMAIN Formula \cap S
<1>1. TakenOf(AccountOrder, T, Calc(S))
  BY AccountsOK, AmongEntries DEF AccountsOK, Calc
<1>2. \A d \in T : \E j \in DOMAIN AccountOrder : AccountOrder[j] = d
  BY FormulasFinite DEF Accounts, ToSet
<1>3. Calc(S) \in Seq(T) /\ T \subseteq DOMAIN Formula
  BY <1>1 DEF TakenOf
<1>4. Calc(S) \in Seq(DOMAIN Formula)
  <2>1. \A i \in 1..Len(Calc(S)) : Calc(S)[i] \in DOMAIN Formula
    BY <1>3, ElementOfSeq
  <2>2. Calc(S) \in [1..Len(Calc(S)) -> DOMAIN Formula] /\ Len(Calc(S)) \in Nat
    BY <1>3, <2>1, LenProperties
  <2> QED BY <2>2
<1>5. \A i \in 1..Len(Calc(S)) : Calc(S)[i] \in T
  BY <1>3, ElementOfSeq
<1>6. \A d \in T : \E i \in 1..Len(Calc(S)) : Calc(S)[i] = d
  BY <1>1, <1>2 DEF TakenOf
<1> QED BY <1>4, <1>5, <1>6

\* The visits of one account after another.
VisitAll(v, base, seq) ==
    FoldLeft(LAMBDA y, d : v[[y EXCEPT !.account = d]], base, seq)

VisitsAt(v, base, seq, i) == FoldAt("visit", [base |-> base, visit |-> v], seq, i)

VisitFolds(v, base, seq, S, g) ==
    g = [s \in SUBSET S |-> IF s = {} THEN base
                           ELSE v[[g[s \ {Max(s)}] EXCEPT !.account = seq[Max(s)]]]]

NextVisit(v, base, seq, i) ==
    VisitsAt(v, base, seq, i + 1) = v[[VisitsAt(v, base, seq, i) EXCEPT !.account = seq[i + 1]]]

\* They are a fold, and go on from one to the next.
LEMMA VisitsGoOn ==
  ASSUME NEW v, NEW base, NEW S, NEW seq \in Seq(S)
  PROVE  /\ VisitAll(v, base, seq) = VisitsAt(v, base, seq, Len(seq))
         /\ VisitsAt(v, base, seq, 0) = base
         /\ \A i \in Nat : NextVisit(v, base, seq, i)
<1> DEFINE rows == [base |-> base, visit |-> v]
           D == DOMAIN seq
<1>1. rows.base = base /\ rows.visit = v
  OBVIOUS
<1>2. VisitAll(v, base, seq) = (CHOOSE g : VisitFolds(v, base, seq, D, g))[D]
  BY DEF VisitAll, FoldLeft, MapThenFoldSet, VisitFolds
<1>3. D = 1..Len(seq)
  BY LenProperties
<1>4. \A i : VisitsAt(v, base, seq, i) = FoldAt("visit", rows, seq, i)
  BY DEF VisitsAt
<1> HIDE DEF rows, D
<1>5. /\ Begun("visit", rows) = base
      /\ \A t, a : Extended("visit", rows, t, a) = v[[t EXCEPT !.account = a]]
  BY <1>1 DEF Extended, Begun
<1>6. \A g : VisitFolds(v, base, seq, D, g) <=> Folds("visit", rows, seq, D, g)
  <2> SUFFICES ASSUME NEW g
               PROVE  VisitFolds(v, base, seq, D, g) <=> Folds("visit", rows, seq, D, g)
    OBVIOUS
  <2> DEFINE next(t) == IF t = {} THEN base
                        ELSE v[[g[t \ {Max(t)}] EXCEPT !.account = seq[Max(t)]]]
             folded(t) == IF t = {} THEN Begun("visit", rows)
                          ELSE Extended("visit", rows, g[t \ {Max(t)}], seq[Max(t)])
  <2>1. \A t : next(t) = folded(t)
    BY <1>5
  <2>2. VisitFolds(v, base, seq, D, g) <=> g = [t \in SUBSET D |-> next(t)]
    BY DEF VisitFolds
  <2>3. Folds("visit", rows, seq, D, g) <=> g = [t \in SUBSET D |-> folded(t)]
    BY DEF Folds
  <2> HIDE DEF next, folded
  <2> QED BY <2>1, <2>2, <2>3
<1>7. (CHOOSE g : VisitFolds(v, base, seq, D, g)) = Folded("visit", rows, seq, D)
  BY <1>6, Zenon DEF Folded
<1>8. VisitAll(v, base, seq) = VisitsAt(v, base, seq, Len(seq))
  BY <1>2, <1>3, <1>4, <1>7 DEF FoldAt
<1>9. VisitsAt(v, base, seq, 0) = base
  BY <1>4, <1>5, FoldBegins
<1>10. ASSUME NEW i \in Nat
       PROVE  NextVisit(v, base, seq, i)
  <2>1. FoldAt("visit", rows, seq, i + 1)
          = Extended("visit", rows, FoldAt("visit", rows, seq, i), seq[i + 1])
    BY FoldGoesOn
  <2> QED BY <1>4, <1>5, <2>1 DEF NextVisit
<1> QED BY <1>8, <1>9, <1>10

\* One visit, by the visits with one account less on the way down.
VisitStep(n, v, x) ==
    IF n = 0 \/ x.account \in x.visited THEN x
    ELSE LET below == VisitAll(v, [x EXCEPT !.visited = @ \cup {x.account}],
                               Calc(Dependencies(x.account)))
         IN  [below EXCEPT !.resolved = Append(@, x.account)]

Visits(N, w) == w = [n \in 0..N |-> [x \in Walks |-> VisitStep(n, w[n - 1], x)]]

Visit(N) == CHOOSE w : Visits(N, w)

\* The sort of the code is the visits of all accounts with a formula.
LEMMA SortIsVisits ==
  TopologicalSort
    = IF Calc(Accounts) = <<>> THEN <<>>
      ELSE VisitAll(Visit(Cardinality(DOMAIN Formula))[Cardinality(DOMAIN Formula)],
                    [account |-> Head(Calc(Accounts)), visited |-> {}, resolved |-> <<>>],
                    Calc(Accounts)).resolved
BY DEF TopologicalSort, Visit, Visits, VisitStep, VisitAll, Walks, Calc

\* The recursion of the visits is defined.
LEMMA VisitsExist ==
  ASSUME NEW N \in Nat
  PROVE  \E w : Visits(N, w)
<1> DEFINE P == {n \in Nat : \E w : Visits(n, w)}
<1>1. 0 \in P
  <2> DEFINE w == [n \in 0..0 |-> [x \in Walks |-> VisitStep(n, 0, x)]]
  <2>1. \A n \in 0..0 : w[n] = [x \in Walks |-> VisitStep(n, w[n - 1], x)]
    <3> SUFFICES ASSUME NEW n \in 0..0
                 PROVE  w[n] = [x \in Walks |-> VisitStep(n, w[n - 1], x)]
      OBVIOUS
    <3>1. n = 0 /\ w[n] = [x \in Walks |-> VisitStep(n, 0, x)]
      OBVIOUS
    <3> HIDE DEF w
    <3>2. \A u, x : VisitStep(n, u, x) = x
      BY <3>1 DEF VisitStep
    <3> QED BY <3>1, <3>2
  <2>2. w = [n \in 0..0 |-> w[n]]
    OBVIOUS
  <2> HIDE DEF w
  <2>3. Visits(0, w)
    BY <2>1, <2>2 DEF Visits
  <2> QED BY <2>3
<1>2. ASSUME NEW n \in Nat, n \in P
      PROVE  n + 1 \in P
  <2>1. PICK w : Visits(n, w)
    BY <1>2
  <2> DEFINE u == [i \in 0..(n + 1) |-> IF i <= n THEN w[i]
                                        ELSE [x \in Walks |-> VisitStep(i, w[n], x)]]
  <2>2. \A i \in 0..n : w[i] = [x \in Walks |-> VisitStep(i, w[i - 1], x)]
    BY <2>1 DEF Visits
  <2>3. \A i \in 0..(n + 1) : u[i] = [x \in Walks |-> VisitStep(i, u[i - 1], x)]
    <3> SUFFICES ASSUME NEW i \in 0..(n + 1)
                 PROVE  u[i] = [x \in Walks |-> VisitStep(i, u[i - 1], x)]
      OBVIOUS
    <3>1. CASE i = 0
      <4>1. u[i] = w[i] /\ i \in 0..n
        BY <3>1
      <4>2. \A r, x : VisitStep(i, r, x) = x
        BY <3>1 DEF VisitStep
      <4> HIDE DEF u
      <4> QED BY <2>2, <4>1, <4>2
    <3>2. CASE i # 0 /\ i <= n
      <4>1. i - 1 \in 0..(n + 1) /\ i - 1 <= n /\ i \in 0..n
        BY <3>2
      <4>2. u[i] = w[i] /\ u[i - 1] = w[i - 1]
        BY <3>2, <4>1
      <4> HIDE DEF u
      <4> QED BY <2>2, <4>1, <4>2
    <3>3. CASE i = n + 1
      <4>1. ~(n + 1 <= n) /\ n \in 0..(n + 1) /\ i - 1 = n
        BY <3>3
      <4>2. u[n] = w[n] /\ u[i] = [x \in Walks |-> VisitStep(i, w[n], x)]
        BY <3>3, <4>1
      <4> HIDE DEF u
      <4> QED BY <4>1, <4>2
    <3> QED BY <3>1, <3>2, <3>3
  <2>4. u = [i \in 0..(n + 1) |-> u[i]]
    OBVIOUS
  <2> HIDE DEF u
  <2>5. Visits(n + 1, u)
    BY <2>3, <2>4 DEF Visits
  <2> QED BY <2>5
<1> HIDE DEF P
<1>3. \A n \in Nat : n \in P
  BY <1>1, <1>2, Induction
<1> QED BY <1>3 DEF P

\* A list of accounts with a formula, each once and after what its formula is about.
InTurn(list) ==
    /\ list \in Seq(DOMAIN Formula)
    /\ \A i, j \in 1..Len(list) : list[i] = list[j] => i = j
    /\ \A i \in 1..Len(list) : \A d \in DOMAIN Formula \cap Dependencies(list[i]) :
          \E j \in 1..Len(list) : j < i /\ list[j] = d

\* The accounts on the way down: visited and not resolved.
OnTheWay(x) == x.visited \ ToSet(x.resolved)

WalkOK(x) == x \in Walks /\ ToSet(x.resolved) \subseteq x.visited /\ InTurn(x.resolved)

\* A visit may be made of an account below those on the way, with that many to go.
MayVisit(x, a, n) == a \in DOMAIN Formula /\ Level[a] < n /\ \A s \in OnTheWay(x) : Level[a] < Level[s]

\* What a walk comes to: more is resolved, and the same is on the way.
Walked(x, y) ==
    /\ WalkOK(y)
    /\ OnTheWay(y) = OnTheWay(x)
    /\ ToSet(x.resolved) \subseteq ToSet(y.resolved)

VisitsResolve(v, n) ==
    \A x \in Walks : WalkOK(x) /\ MayVisit(x, x.account, n) =>
        Walked(x, v[x]) /\ x.account \in ToSet(v[x].resolved)

\* Visits one after another resolve each of their accounts.
LEMMA VisitsInTurn ==
  ASSUME NEW v, NEW n, VisitsResolve(v, n), NEW base, WalkOK(base),
         NEW seq \in Seq(DOMAIN Formula),
         \A i \in 1..Len(seq) : MayVisit(base, seq[i], n)
  PROVE  /\ Walked(base, VisitAll(v, base, seq))
         /\ \A i \in 1..Len(seq) : seq[i] \in ToSet(VisitAll(v, base, seq).resolved)
<1> DEFINE at(i) == VisitsAt(v, base, seq, i)
           P == {i \in Nat : i <= Len(seq) =>
                     /\ Walked(base, at(i))
                     /\ \A j \in 1..i : seq[j] \in ToSet(at(i).resolved)}
<1>1. /\ VisitAll(v, base, seq) = at(Len(seq))
      /\ at(0) = base
      /\ \A i \in Nat : NextVisit(v, base, seq, i)
  BY VisitsGoOn
<1>2. Len(seq) \in Nat /\ \A i \in 1..Len(seq) : seq[i] \in DOMAIN Formula
  BY LenProperties, ElementOfSeq
<1>6. \A i \in Nat : at(i + 1) = v[[at(i) EXCEPT !.account = seq[i + 1]]]
  BY <1>1 DEF NextVisit
<1> HIDE DEF at
<1>3. 0 \in P
  BY <1>1 DEF Walked
<1>4. ASSUME NEW i \in Nat, i \in P
      PROVE  i + 1 \in P
  <2> SUFFICES ASSUME i + 1 <= Len(seq)
               PROVE  /\ Walked(base, at(i + 1))
                      /\ \A j \in 1..(i + 1) : seq[j] \in ToSet(at(i + 1).resolved)
    OBVIOUS
  <2> DEFINE t == at(i)
             a == seq[i + 1]
             x == [t EXCEPT !.account = a]
             y == at(i + 1)
  <2>1. i + 1 \in 1..Len(seq) /\ i <= Len(seq)
    BY <1>2
  <2>2. Walked(base, t) /\ \A j \in 1..i : seq[j] \in ToSet(t.resolved)
    BY <1>4, <2>1
  <2>3. a \in DOMAIN Formula /\ MayVisit(base, a, n) /\ y = v[x]
    BY <1>2, <1>6, <2>1
  <2>4. t \in Walks
    BY <2>2 DEF Walked, WalkOK
  <2> HIDE DEF t, a, y
  <2>5. /\ x \in Walks /\ x.account = a
        /\ x.visited = t.visited /\ x.resolved = t.resolved
    BY <2>3, <2>4 DEF Walks
  <2> HIDE DEF x
  <2>6. WalkOK(x) /\ OnTheWay(x) = OnTheWay(base)
    BY <2>2, <2>5 DEF Walked, WalkOK, OnTheWay
  <2>7. MayVisit(x, x.account, n)
    BY <2>3, <2>5, <2>6 DEF MayVisit
  <2>8. Walked(x, y) /\ a \in ToSet(y.resolved)
    BY <2>3, <2>5, <2>6, <2>7 DEF VisitsResolve
  <2>9. ToSet(t.resolved) \subseteq ToSet(y.resolved) /\ ToSet(base.resolved) \subseteq ToSet(t.resolved)
    BY <2>2, <2>5, <2>8 DEF Walked
  <2>10. Walked(base, y)
    BY <2>6, <2>8, <2>9 DEF Walked
  <2>11. \A j \in 1..(i + 1) : seq[j] \in ToSet(y.resolved)
    <3> SUFFICES ASSUME NEW j \in 1..(i + 1)
                 PROVE  seq[j] \in ToSet(y.resolved)
      OBVIOUS
    <3>1. CASE j = i + 1
      BY <2>8, <3>1 DEF a
    <3>2. CASE j # i + 1
      <4>1. j \in 1..i
        BY <3>2
      <4> QED BY <2>2, <2>9, <4>1
    <3> QED BY <3>1, <3>2
  <2> QED BY <2>10, <2>11 DEF y
<1> HIDE DEF P
<1>5. \A i \in Nat : i \in P
  BY <1>3, <1>4, Induction
<1> QED BY <1>1, <1>2, <1>5 DEF P

\* One more account after those its formula is about.
LEMMA OneMoreInTurn ==
  ASSUME NEW list, InTurn(list), NEW a \in DOMAIN Formula, a \notin ToSet(list),
         \A d \in DOMAIN Formula \cap Dependencies(a) : d \in ToSet(list)
  PROVE  InTurn(Append(list, a)) /\ ToSet(Append(list, a)) = ToSet(list) \cup {a}
<1> DEFINE more == Append(list, a)
           n == Len(list)
<1>1. /\ n \in Nat /\ list \in Seq(DOMAIN Formula) /\ DOMAIN list = 1..n
      /\ \A i, j \in 1..n : list[i] = list[j] => i = j
      /\ \A i \in 1..n : \A d \in DOMAIN Formula \cap Dependencies(list[i]) :
            \E j \in 1..n : j < i /\ list[j] = d
  BY LenProperties DEF InTurn
<1>2. /\ more \in Seq(DOMAIN Formula) /\ Len(more) = n + 1 /\ DOMAIN more = 1..(n + 1)
      /\ more[n + 1] = a /\ \A i \in 1..n : more[i] = list[i]
  BY <1>1, AppendProperties, LenProperties
<1>3. \A i \in 1..n : list[i] # a
  BY <1>1 DEF ToSet
<1>4. \A d \in ToSet(list) : \E j \in 1..n : list[j] = d
  BY <1>1 DEF ToSet
<1> HIDE DEF more, n
<1>5. ASSUME NEW i \in 1..(n + 1), NEW j \in 1..(n + 1), more[i] = more[j]
      PROVE  i = j
  <2>1. CASE i \in 1..n /\ j \in 1..n
    BY <1>1, <1>2, <1>5, <2>1
  <2>2. CASE i = n + 1 /\ j \in 1..n
    BY <1>2, <1>3, <1>5, <2>2
  <2>3. CASE i \in 1..n /\ j = n + 1
    BY <1>2, <1>3, <1>5, <2>3
  <2>4. CASE i = n + 1 /\ j = n + 1
    BY <2>4
  <2>5. (i \in 1..n \/ i = n + 1) /\ (j \in 1..n \/ j = n + 1)
    BY <1>1
  <2> QED BY <2>1, <2>2, <2>3, <2>4, <2>5
<1>6. ASSUME NEW i \in 1..(n + 1), NEW d \in DOMAIN Formula \cap Dependencies(more[i])
      PROVE  \E j \in 1..(n + 1) : j < i /\ more[j] = d
  <2>1. CASE i \in 1..n
    <3>1. PICK j \in 1..n : j < i /\ list[j] = d
      BY <1>1, <1>2, <1>6, <2>1
    <3>2. j \in 1..(n + 1) /\ more[j] = d
      BY <1>1, <1>2, <3>1
    <3> QED BY <3>1, <3>2
  <2>2. CASE i = n + 1
    <3>1. d \in ToSet(list)
      BY <1>2, <1>6, <2>2
    <3>2. PICK j \in 1..n : list[j] = d
      BY <1>4, <3>1
    <3>3. j \in 1..(n + 1) /\ j < i /\ more[j] = d
      BY <1>1, <1>2, <2>2, <3>2
    <3> QED BY <3>3
  <2> QED BY <1>1, <2>1, <2>2
<1>7. InTurn(more)
  BY <1>2, <1>5, <1>6 DEF InTurn
<1>8. ToSet(more) = ToSet(list) \cup {a}
  <2>1. \A i \in 1..(n + 1) : more[i] \in ToSet(list) \cup {a}
    BY <1>1, <1>2 DEF ToSet
  <2>2. \A d \in ToSet(list) : d \in ToSet(more)
    <3> SUFFICES ASSUME NEW d \in ToSet(list)
                 PROVE  d \in ToSet(more)
      OBVIOUS
    <3>1. PICK j \in 1..n : list[j] = d
      BY <1>4
    <3>2. j \in 1..(n + 1) /\ more[j] = d
      BY <1>1, <1>2, <3>1
    <3> QED BY <1>2, <3>2 DEF ToSet
  <2>3. a \in ToSet(more)
    BY <1>1, <1>2 DEF ToSet
  <2>4. \A d \in ToSet(more) : d \in ToSet(list) \cup {a}
    BY <1>2, <2>1 DEF ToSet
  <2> QED BY <2>2, <2>3, <2>4
<1> QED BY <1>7, <1>8 DEF more

\* A visit resolves its account, with one account more on the way down.
LEMMA OneVisit ==
  ASSUME NEW v, NEW n \in Nat, VisitsResolve(v, n),
         NEW x \in Walks, WalkOK(x), MayVisit(x, x.account, n + 1)
  PROVE  /\ Walked(x, VisitStep(n + 1, v, x))
         /\ x.account \in ToSet(VisitStep(n + 1, v, x).resolved)
<1> DEFINE a == x.account
           base == [x EXCEPT !.visited = @ \cup {x.account}]
           deps == Calc(Dependencies(a))
           below == VisitAll(v, base, deps)
           y == VisitStep(n + 1, v, x)
<1>1. a \in DOMAIN Formula /\ Level[a] < n + 1 /\ \A s \in OnTheWay(x) : Level[a] < Level[s]
  BY DEF MayVisit
<1>2. \A d \in DOMAIN Formula : Level[d] \in Int
  BY LevelsFall, FormulasFinite
<1>3. n + 1 # 0
  OBVIOUS
<1>4. CASE a \in x.visited
  <2>1. y = x
    BY <1>4 DEF VisitStep
  <2>2. a \notin OnTheWay(x)
    BY <1>1, <1>2
  <2>3. a \in ToSet(x.resolved)
    BY <1>4, <2>2 DEF OnTheWay
  <2> HIDE DEF y
  <2> QED BY <2>1, <2>3 DEF Walked, y
<1>5. CASE a \notin x.visited
  <2>1. y = [below EXCEPT !.resolved = Append(@, a)]
    BY <1>3, <1>5 DEF VisitStep
  <2>2. /\ base \in Walks /\ base.visited = x.visited \cup {a} /\ base.resolved = x.resolved
    BY <1>1 DEF Walks
  <2>3. a \notin ToSet(x.resolved)
    BY <1>5 DEF WalkOK
  <2> HIDE DEF base
  <2>4. WalkOK(base) /\ OnTheWay(base) = OnTheWay(x) \cup {a}
    BY <2>2, <2>3 DEF WalkOK, OnTheWay
  <2>5. /\ deps \in Seq(DOMAIN Formula)
        /\ \A i \in 1..Len(deps) : deps[i] \in DOMAIN Formula \cap Dependencies(a)
        /\ \A d \in DOMAIN Formula \cap Dependencies(a) : \E i \in 1..Len(deps) : deps[i] = d
    BY CalcEntries
  <2> HIDE DEF deps, a
  <2>6. \A i \in 1..Len(deps) : MayVisit(base, deps[i], n)
    <3> SUFFICES ASSUME NEW i \in 1..Len(deps)
                 PROVE  MayVisit(base, deps[i], n)
      OBVIOUS
    <3> DEFINE d == deps[i]
    <3>1. d \in DOMAIN Formula /\ d \in Dependencies(a)
      BY <2>5
    <3> HIDE DEF d
    <3>2. Level[d] < Level[a] /\ Level[d] \in Int /\ Level[a] \in Int
      BY <1>1, <1>2, <3>1, LevelsFall
    <3>3. Level[d] < n
      BY <1>1, <3>2
    <3>4. ASSUME NEW s \in OnTheWay(base)
          PROVE  Level[d] < Level[s]
      <4>1. CASE s = a
        BY <3>2, <4>1
      <4>2. CASE s \in OnTheWay(x)
        <5>1. s \in DOMAIN Formula
          BY <4>2 DEF OnTheWay, Walks
        <5> QED BY <1>1, <1>2, <3>2, <4>2, <5>1
      <4> QED BY <2>4, <4>1, <4>2
    <3> QED BY <3>1, <3>3, <3>4 DEF MayVisit, d
  <2>7. /\ Walked(base, below)
        /\ \A i \in 1..Len(deps) : deps[i] \in ToSet(below.resolved)
    BY <2>4, <2>5, <2>6, VisitsInTurn
  <2> HIDE DEF below
  <2>8. /\ below \in Walks /\ ToSet(below.resolved) \subseteq below.visited
        /\ InTurn(below.resolved) /\ OnTheWay(below) = OnTheWay(x) \cup {a}
        /\ ToSet(x.resolved) \subseteq ToSet(below.resolved)
    BY <2>2, <2>4, <2>7 DEF Walked, WalkOK
  <2>9. a \in below.visited /\ a \notin ToSet(below.resolved)
    BY <2>8 DEF OnTheWay
  <2>10. \A d \in DOMAIN Formula \cap Dependencies(a) : d \in ToSet(below.resolved)
    BY <2>5, <2>7
  <2> DEFINE more == Append(below.resolved, a)
  <2>11. InTurn(more) /\ ToSet(more) = ToSet(below.resolved) \cup {a}
    BY <1>1, <2>8, <2>9, <2>10, OneMoreInTurn
  <2>12. more \in Seq(DOMAIN Formula)
    BY <2>11 DEF InTurn
  <2> HIDE DEF more
  <2>13. y \in Walks /\ y.visited = below.visited /\ y.resolved = more
    <3>1. y = [below EXCEPT !.resolved = more]
      BY <2>1 DEF more
    <3> HIDE DEF y
    <3> QED BY <2>8, <2>12, <3>1 DEF Walks
  <2> HIDE DEF y
  <2>14. OnTheWay(y) = OnTheWay(x)
    <3>1. a \notin OnTheWay(x)
      BY <1>1, <1>2
    <3> QED BY <2>8, <2>11, <2>13, <3>1 DEF OnTheWay
  <2>15. Walked(x, y) /\ a \in ToSet(y.resolved)
    BY <2>8, <2>9, <2>11, <2>13, <2>14 DEF Walked, WalkOK
  <2> QED BY <2>15 DEF y, a
<1> QED BY <1>4, <1>5

\* With as many accounts to go as there are formulas, every visit resolves its account.
LEMMA AllVisitsResolve ==
  ASSUME NEW N, N = Cardinality(DOMAIN Formula)
  PROVE  VisitsResolve(Visit(N)[N], N)
<1> DEFINE P == {n \in Nat : n <= N => VisitsResolve(Visit(N)[n], n)}
<1>1. N \in Nat
  BY FormulasFinite
<1>2. \A n \in 0..N : Visit(N)[n] = [x \in Walks |-> VisitStep(n, Visit(N)[n - 1], x)]
  <2> DEFINE w == Visit(N)
  <2>1. Visits(N, w)
    BY <1>1, VisitsExist DEF Visit
  <2> HIDE DEF w
  <2>2. \A n \in 0..N : w[n] = [x \in Walks |-> VisitStep(n, w[n - 1], x)]
    BY <2>1 DEF Visits
  <2> QED BY <2>2 DEF w
<1>3. 0 \in P
  <2>1. \A a \in DOMAIN Formula : ~(Level[a] < 0)
    BY FormulasFinite, LevelsFall
  <2> QED BY <2>1 DEF VisitsResolve, MayVisit
<1>4. ASSUME NEW n \in Nat, n \in P
      PROVE  n + 1 \in P
  <2> SUFFICES ASSUME n + 1 <= N
               PROVE  VisitsResolve(Visit(N)[n + 1], n + 1)
    OBVIOUS
  <2> DEFINE v == Visit(N)[n]
  <2>1. n + 1 \in 0..N /\ (n + 1) - 1 = n /\ n <= N
    BY <1>1
  <2>2. VisitsResolve(v, n)
    BY <1>4, <2>1
  <2>3. \A x \in Walks : Visit(N)[n + 1][x] = VisitStep(n + 1, v, x)
    <3>1. Visit(N)[n + 1] = [x \in Walks |-> VisitStep(n + 1, Visit(N)[(n + 1) - 1], x)]
      BY <1>2, <2>1
    <3>2. Visit(N)[(n + 1) - 1] = v
      BY <2>1
    <3> HIDE DEF v
    <3> QED BY <3>1, <3>2
  <2> HIDE DEF v
  <2> SUFFICES ASSUME NEW x \in Walks, WalkOK(x), MayVisit(x, x.account, n + 1)
               PROVE  /\ Walked(x, Visit(N)[n + 1][x])
                      /\ x.account \in ToSet(Visit(N)[n + 1][x].resolved)
    BY DEF VisitsResolve
  <2>4. /\ Walked(x, VisitStep(n + 1, v, x))
        /\ x.account \in ToSet(VisitStep(n + 1, v, x).resolved)
    BY <2>2, OneVisit
  <2> QED BY <2>3, <2>4
<1> HIDE DEF P
<1>5. \A n \in Nat : n \in P
  BY <1>3, <1>4, Induction
<1> QED BY <1>1, <1>5 DEF P

\* The sort of the calculated accounts lists each account with a formula once and after
\* what its formula is about (pass1_variance.py:223-246).
THEOREM SortedInTurn ==
  InTurn(TopologicalSort) /\ ToSet(TopologicalSort) = DOMAIN Formula
<1> DEFINE N == Cardinality(DOMAIN Formula)
           roots == Calc(Accounts)
           v == Visit(N)[N]
           start == [account |-> Head(roots), visited |-> {}, resolved |-> <<>>]
           y == VisitAll(v, start, roots)
<1>1. TopologicalSort = IF roots = <<>> THEN <<>> ELSE y.resolved
  BY SortIsVisits
<1>2. /\ roots \in Seq(DOMAIN Formula)
      /\ \A i \in 1..Len(roots) : roots[i] \in DOMAIN Formula
      /\ \A d \in DOMAIN Formula : \E i \in 1..Len(roots) : roots[i] = d
  BY CalcEntries, FormulasFinite
<1>3. VisitsResolve(v, N)
  BY AllVisitsResolve
<1> HIDE DEF v, N, roots
<1> DEFINE none == <<>>
<1>4. /\ none \in Seq(DOMAIN Formula) /\ Len(none) = 0 /\ DOMAIN none = {} /\ 1..0 = {}
  BY EmptySeq
<1>5. start.resolved = none /\ start.visited = {} /\ start.account = Head(roots)
  OBVIOUS
<1>6. roots = none => Len(roots) = 0
  BY <1>4
<1>7. TopologicalSort = IF roots = none THEN none ELSE y.resolved
  BY <1>1
<1> HIDE DEF none
<1>8. InTurn(none) /\ ToSet(none) = {}
  BY <1>4 DEF InTurn, ToSet
<1>9. CASE roots = none
  <2>1. DOMAIN Formula = {}
    BY <1>2, <1>4, <1>6, <1>9
  <2> QED BY <1>7, <1>8, <1>9, <2>1
<1>10. CASE roots # none
  <2>1. Head(roots) \in DOMAIN Formula
    BY <1>2, <1>10, HeadTailProperties DEF none
  <2>2. start \in Walks
    BY <1>4, <2>1 DEF Walks, none
  <2> HIDE DEF start
  <2>3. WalkOK(start) /\ OnTheWay(start) = {}
    BY <1>5, <1>8, <2>2 DEF WalkOK, OnTheWay
  <2>4. \A i \in 1..Len(roots) : MayVisit(start, roots[i], N)
    <3>1. \A d \in DOMAIN Formula : Level[d] < N
      BY FormulasFinite, LevelsFall DEF N
    <3> QED BY <1>2, <2>3, <3>1 DEF MayVisit
  <2>5. Walked(start, y) /\ \A i \in 1..Len(roots) : roots[i] \in ToSet(y.resolved)
    BY <1>2, <1>3, <2>3, <2>4, VisitsInTurn
  <2> HIDE DEF y
  <2>6. InTurn(y.resolved)
    BY <2>5 DEF Walked, WalkOK
  <2>7. ToSet(y.resolved) = DOMAIN Formula
    <3>1. ToSet(y.resolved) \subseteq DOMAIN Formula
      BY <2>5 DEF Walked, WalkOK, Walks
    <3> QED BY <1>2, <2>5, <3>1
  <2> QED BY <1>7, <1>10, <2>6, <2>7
<1> QED BY <1>9, <1>10

\* The order of the calculated accounts lists accounts that have a formula.
FormulasSorted == TopologicalSort \in Seq(DOMAIN Formula)

\* It lists an account once and after what its formula is about; and an account whose
\* formula subtracts is nobody's parent.
DependenciesFirst ==
    /\ \A a \in DOMAIN Formula : Formula[a].op = "minus" => Children(a) = {}
    /\ \A i \in DOMAIN TopologicalSort :
          LET a == TopologicalSort[i]
          IN  /\ \A j \in DOMAIN TopologicalSort : TopologicalSort[j] = a => j = i
              /\ Formula[a].op = "minus" => \A j \in DOMAIN TopologicalSort :
                    TopologicalSort[j] \in Formula[a].plus \cup Formula[a].minus => j < i

\* So the order in which the accounts are resolved is one that resolves them.
LEMMA FormulasInOrder == FormulasSorted /\ DependenciesFirst
<1> DEFINE s == TopologicalSort
<1>1. InTurn(s)
  BY SortedInTurn
<1> HIDE DEF s
<1>2. /\ s \in Seq(DOMAIN Formula) /\ Len(s) \in Nat /\ DOMAIN s = 1..Len(s)
      /\ \A i, j \in 1..Len(s) : s[i] = s[j] => i = j
      /\ \A i \in 1..Len(s) : \A d \in DOMAIN Formula \cap Dependencies(s[i]) :
            \E j \in 1..Len(s) : j < i /\ s[j] = d
      /\ \A i \in 1..Len(s) : s[i] \in DOMAIN Formula
  BY <1>1, LenProperties, ElementOfSeq DEF InTurn
<1>3. FormulasSorted
  BY <1>2 DEF FormulasSorted, s
<1>4. ASSUME NEW i \in DOMAIN s, Formula[s[i]].op = "minus",
             NEW j \in DOMAIN s, s[j] \in Formula[s[i]].plus \cup Formula[s[i]].minus
      PROVE  j < i
  <2>1. s[j] \in DOMAIN Formula \cap Dependencies(s[i])
    BY <1>2, <1>4 DEF Dependencies
  <2>2. PICK k \in 1..Len(s) : k < i /\ s[k] = s[j]
    BY <1>2, <2>1
  <2> QED BY <1>2, <2>2
<1>5. \A a \in DOMAIN Formula : Formula[a].op = "minus" => Children(a) = {}
  BY FormulasOK DEF FormulasOK
<1>6. DependenciesFirst
  BY <1>2, <1>4, <1>5 DEF DependenciesFirst, s
<1> QED BY <1>3, <1>6

-----------------------------------------------------------------------------
(* The tables of pass 1 *)

AmountFields == {"actual", "comparator", "variance"}

AllKeys == [account : Accounts, slice : Slices, period : Periods, view : Views, base : Bases]

\* A table of month rows in whole cents, in which whatever is compared is
\* compared with the budget too.
MonthTable(rows) ==
    /\ \A k \in DOMAIN rows : k \in AllKeys /\ k.view = "MTD"
    /\ \A k \in DOMAIN rows : \A f \in AmountFields : rows[k][f] \in Int
    /\ \A k \in DOMAIN rows : [k EXCEPT !.base = "BUDGET"] \in DOMAIN rows

\* The amounts have these fields.
LEMMA FieldsOfAmounts ==
  DOMAIN Zero = AmountFields
  BY DEF Zero, AmountFields

\* There are finitely many views.
LEMMA ViewsFinite == IsFiniteSet(Views)
<1>1. IsFiniteSet({"MTD"}) /\ IsFiniteSet({"QTD"}) /\ IsFiniteSet({"YTD"})
  BY FS_Singleton
<1>2. IsFiniteSet({"MTD"} \cup {"QTD"})
  BY <1>1, FS_Union
<1>3. IsFiniteSet(({"MTD"} \cup {"QTD"}) \cup {"YTD"})
  BY <1>1, <1>2, FS_Union
<1>4. Views = ({"MTD"} \cup {"QTD"}) \cup {"YTD"}
  BY DEF Views
<1> QED BY <1>3, <1>4

\* There are finitely many keys of rows.
LEMMA KeysFinite == IsFiniteSet(AllKeys)
<1>1. IsFiniteSet(Accounts) /\ IsFiniteSet(Slices) /\ IsFiniteSet(Bases) /\ IsFiniteSet(Periods)
  BY AccountsOK, MembersFinite DEF AccountsOK, Accounts, Slices, Bases
<1>2. IsFiniteSet(Views)
  BY ViewsFinite
<1> DEFINE P == ((Accounts \X Slices) \X (Periods \X Views)) \X Bases
<1>3. IsFiniteSet(P)
  <2>1. IsFiniteSet(Accounts \X Slices)
    BY <1>1, FS_Product
  <2>2. IsFiniteSet(Periods \X Views)
    BY <1>1, <1>2, FS_Product
  <2>3. IsFiniteSet((Accounts \X Slices) \X (Periods \X Views))
    BY <2>1, <2>2, FS_Product
  <2> QED BY <1>1, <2>3, FS_Product
<1> DEFINE key(x) == [account |-> x[1][1][1], slice |-> x[1][1][2], period |-> x[1][2][1],
                      view |-> x[1][2][2], base |-> x[2]]
<1>4. [x \in P |-> key(x)] \in Surjection(P, AllKeys)
  <2>1. \A x \in P : key(x) \in AllKeys
    BY DEF AllKeys
  <2>2. ASSUME NEW k \in AllKeys
        PROVE  \E x \in P : key(x) = k
    <3> DEFINE x == <<<<<<k.account, k.slice>>, <<k.period, k.view>>>>, k.base>>
    <3>1. x \in P
      BY DEF AllKeys
    <3>2. key(x) = k
      BY DEF AllKeys
    <3> QED BY <3>1, <3>2
  <2> QED BY <2>1, <2>2 DEF Surjection
<1> QED BY <1>3, <1>4, FS_Surjection

\* The total of rows in whole cents is in whole cents.
LEMMA TotalInt ==
  ASSUME NEW rows, NEW K, K \subseteq DOMAIN rows, K \subseteq AllKeys,
         NEW f \in AmountFields, \A k \in K : rows[k][f] \in Int
  PROVE  Total(rows, K)[f] \in Int
<1>1. IsFiniteSet(K)
  BY KeysFinite, FS_Subset
<1>2. \A k \in K : Column(rows, f)[k] \in Int
  BY DEF Column
<1>3. Sigma(Column(rows, f), K) \in Int
  BY <1>1, <1>2, SigmaInt
<1> QED BY <1>3, TotalIsSigma, FieldsOfAmounts

\* The rows of the leaves are a table of months.
LEMMA LeafTable ==
  ASSUME NEW facts, FactsOK(facts)
  PROVE  MonthTable(LeafRows(facts))
<1> DEFINE fact(k) == facts[[account |-> k.account, slice |-> k.slice, period |-> k.period]]
           keys == {Key(x.account, x.slice, x.period, "MTD", b) : x \in DOMAIN facts, b \in Bases}
           valid == {k \in keys : fact(k).comparator[k.base] # Null}
           rows == LeafRows(facts)
<1>1. rows = [k \in valid |-> [actual |-> fact(k).actual,
                               comparator |-> fact(k).comparator[k.base],
                               variance |-> fact(k).actual - fact(k).comparator[k.base]]]
  BY DEF LeafRows
<1>2. ASSUME NEW k \in keys
      PROVE  /\ k \in AllKeys /\ k.view = "MTD"
             /\ fact(k).actual \in Int /\ fact(k).comparator[k.base] \in Int \cup {Null}
             /\ fact(k).comparator["BUDGET"] # Null
             /\ [k EXCEPT !.base = "BUDGET"] \in keys
             /\ [k EXCEPT !.base = "BUDGET"].base = "BUDGET"
             /\ fact([k EXCEPT !.base = "BUDGET"]) = fact(k)
  <2>1. PICK x \in DOMAIN facts, b \in Bases : k = Key(x.account, x.slice, x.period, "MTD", b)
    OBVIOUS
  <2>2. x \in [account : Leaves, slice : Slices, period : Periods] /\ Leaves \subseteq Accounts
    BY DEF FactsOK, FactKeys, Leaves
  <2>3. x = [account |-> x.account, slice |-> x.slice, period |-> x.period]
    BY <2>2
  <2>4. k = [account |-> x.account, slice |-> x.slice, period |-> x.period, view |-> "MTD",
             base |-> b]
    BY <2>1 DEF Key
  <2>5. k \in AllKeys /\ k.view = "MTD"
    BY <2>2, <2>4 DEF AllKeys, Views
  <2>6. fact(k) = facts[x] /\ k.base = b
    BY <2>3, <2>4
  <2>7. /\ facts[x].actual \in Int /\ facts[x].comparator[b] \in Int \cup {Null}
        /\ facts[x].comparator["BUDGET"] # Null
    BY DEF FactsOK
  <2>8. "BUDGET" \in Bases
    BY AccountsOK DEF AccountsOK, Bases
  <2>9. [k EXCEPT !.base = "BUDGET"] = Key(x.account, x.slice, x.period, "MTD", "BUDGET")
    BY <2>4 DEF Key
  <2>10. [k EXCEPT !.base = "BUDGET"] \in keys
    BY <2>8, <2>9
  <2>11. fact([k EXCEPT !.base = "BUDGET"]) = fact(k) /\ [k EXCEPT !.base = "BUDGET"].base = "BUDGET"
    BY <2>4
  <2> HIDE DEF fact, keys
  <2> QED BY <2>5, <2>6, <2>7, <2>10, <2>11
<1> HIDE DEF fact, keys, rows
<1>3. DOMAIN rows = valid
  BY <1>1
<1>4. \A k \in DOMAIN rows : k \in AllKeys /\ k.view = "MTD"
  BY <1>2, <1>3
<1>5. ASSUME NEW k \in DOMAIN rows
      PROVE  \A f \in AmountFields : rows[k][f] \in Int
  <2>1. fact(k).actual \in Int /\ fact(k).comparator[k.base] \in Int
    BY <1>2, <1>3
  <2>2. rows[k] = [actual |-> fact(k).actual, comparator |-> fact(k).comparator[k.base],
                   variance |-> fact(k).actual - fact(k).comparator[k.base]]
    BY <1>1, <1>3
  <2> QED BY <2>1, <2>2 DEF AmountFields
<1>6. \A k \in DOMAIN rows : [k EXCEPT !.base = "BUDGET"] \in DOMAIN rows
  BY <1>2, <1>3
<1> QED BY <1>4, <1>5, <1>6 DEF MonthTable, rows

\* Rows of one account, made of rows of a month table.
AccountTable(new, rows, a) ==
    /\ \A k \in DOMAIN new : \E j \in DOMAIN rows : k = [j EXCEPT !.account = a]
    /\ \A k \in DOMAIN new : \A f \in AmountFields : new[k][f] \in Int
    /\ \A k \in DOMAIN new : [k EXCEPT !.base = "BUDGET"] \in DOMAIN new

\* A table of months with the rows of one more account still is one.
LEMMA ExtendedTable ==
  ASSUME NEW t, MonthTable(t), NEW rows, MonthTable(rows), NEW new, NEW a \in Accounts,
         AccountTable(new, rows, a)
  PROVE  MonthTable(Over(new, t))
<1>1. DOMAIN Over(new, t) = DOMAIN new \cup DOMAIN t
  BY DEF Over
<1>2. ASSUME NEW k \in DOMAIN new
      PROVE  k \in AllKeys /\ k.view = "MTD"
  <2>1. PICK j \in DOMAIN rows : k = [j EXCEPT !.account = a]
    BY DEF AccountTable
  <2>2. j \in AllKeys /\ j.view = "MTD"
    BY DEF MonthTable
  <2> QED BY <2>1, <2>2 DEF AllKeys
<1>3. ASSUME NEW k \in DOMAIN new
      PROVE  Over(new, t)[k] = new[k]
  BY DEF Over
<1>4. ASSUME NEW k \in DOMAIN t, k \notin DOMAIN new
      PROVE  Over(new, t)[k] = t[k]
  BY <1>4 DEF Over
<1>5. \A k \in DOMAIN Over(new, t) : k \in AllKeys /\ k.view = "MTD"
  BY <1>1, <1>2 DEF MonthTable
<1>6. \A k \in DOMAIN Over(new, t) : \A f \in AmountFields : Over(new, t)[k][f] \in Int
  BY <1>1, <1>3, <1>4 DEF MonthTable, AccountTable
<1>7. \A k \in DOMAIN Over(new, t) : [k EXCEPT !.base = "BUDGET"] \in DOMAIN Over(new, t)
  BY <1>1 DEF MonthTable, AccountTable
<1> QED BY <1>5, <1>6, <1>7 DEF MonthTable

\* What is summed into an account are rows of that account.
LEMMA SumIntoTable ==
  ASSUME NEW rows, MonthTable(rows), NEW a \in Accounts, NEW sources
  PROVE  AccountTable(SumInto(rows, a, sources), rows, a)
<1> DEFINE mine == {i \in DOMAIN rows : i.account \in sources}
           from(k) == {j \in DOMAIN rows : j.account \in sources /\ [j EXCEPT !.account = a] = k}
           new == SumInto(rows, a, sources)
<1>1. new = [k \in {[j EXCEPT !.account = a] : j \in mine} |-> Total(rows, from(k))]
  BY DEF SumInto
<1>2. \A k \in DOMAIN new : \E j \in mine : k = [j EXCEPT !.account = a]
  BY <1>1
<1>3. ASSUME NEW k \in DOMAIN new, NEW f \in AmountFields
      PROVE  new[k][f] \in Int
  <2>1. new[k] = Total(rows, from(k))
    BY <1>1
  <2>2. from(k) \subseteq DOMAIN rows
    OBVIOUS
  <2> HIDE DEF from, new
  <2>3. Total(rows, from(k))[f] \in Int
    BY <2>2, TotalInt DEF MonthTable
  <2> QED BY <2>1, <2>3
<1>4. ASSUME NEW k \in DOMAIN new
      PROVE  [k EXCEPT !.base = "BUDGET"] \in DOMAIN new
  <2>1. PICK j \in mine : k = [j EXCEPT !.account = a]
    BY <1>2
  <2>2. j \in AllKeys /\ [j EXCEPT !.base = "BUDGET"] \in DOMAIN rows
    BY DEF MonthTable
  <2>3. [j EXCEPT !.base = "BUDGET"].account = j.account
    BY <2>2 DEF AllKeys
  <2>4. [j EXCEPT !.base = "BUDGET"] \in mine
    BY <2>2, <2>3
  <2>5. [k EXCEPT !.base = "BUDGET"] = [[j EXCEPT !.base = "BUDGET"] EXCEPT !.account = a]
    BY <2>1, <2>2 DEF AllKeys
  <2>6. DOMAIN new = {[i EXCEPT !.account = a] : i \in mine}
    BY <1>1
  <2> QED BY <2>4, <2>5, <2>6
<1> QED BY <1>2, <1>3, <1>4 DEF AccountTable

\* What a formula makes are rows of its account.
LEMMA FormulaTable ==
  ASSUME NEW rows, MonthTable(rows), NEW a \in Accounts
  PROVE  AccountTable(FormulaRows(rows, a), rows, a)
<1> DEFINE plus == Formula[a].plus
           minus == Formula[a].minus
           mine == {i \in DOMAIN rows : i.account \in plus \cup minus}
           part(k, S) == {j \in DOMAIN rows : j.account \in S /\ [j EXCEPT !.account = a] = k}
           new == [k \in {[j EXCEPT !.account = a] : j \in mine} |->
                      [c \in DOMAIN Zero |-> Total(rows, part(k, plus))[c]
                                             - Total(rows, part(k, minus))[c]]]
<1>1. FormulaRows(rows, a) = IF Formula[a].op = "sum"
                             THEN SumInto(rows, a, Children(Formula[a].of)) ELSE new
  BY DEF FormulaRows
<1>2. AccountTable(new, rows, a)
  <2>1. \A k \in DOMAIN new : \E j \in mine : k = [j EXCEPT !.account = a]
    OBVIOUS
  <2>2. ASSUME NEW k \in DOMAIN new, NEW f \in AmountFields
        PROVE  new[k][f] \in Int
    <3>1. new[k][f] = Total(rows, part(k, plus))[f] - Total(rows, part(k, minus))[f]
      BY FieldsOfAmounts
    <3>2. part(k, plus) \subseteq DOMAIN rows /\ part(k, minus) \subseteq DOMAIN rows
      OBVIOUS
    <3> HIDE DEF part, new
    <3>3. Total(rows, part(k, plus))[f] \in Int /\ Total(rows, part(k, minus))[f] \in Int
      BY <3>2, TotalInt DEF MonthTable
    <3> QED BY <3>1, <3>3
  <2>3. ASSUME NEW k \in DOMAIN new
        PROVE  [k EXCEPT !.base = "BUDGET"] \in DOMAIN new
    <3>1. PICK j \in mine : k = [j EXCEPT !.account = a]
      BY <2>1
    <3>2. j \in AllKeys /\ [j EXCEPT !.base = "BUDGET"] \in DOMAIN rows
      BY DEF MonthTable
    <3>3. [j EXCEPT !.base = "BUDGET"].account = j.account
      BY <3>2 DEF AllKeys
    <3>4. [j EXCEPT !.base = "BUDGET"] \in mine
      BY <3>2, <3>3
    <3>5. [k EXCEPT !.base = "BUDGET"] = [[j EXCEPT !.base = "BUDGET"] EXCEPT !.account = a]
      BY <3>1, <3>2 DEF AllKeys
    <3>6. DOMAIN new = {[i EXCEPT !.account = a] : i \in mine}
      OBVIOUS
    <3> QED BY <3>4, <3>5, <3>6
  <2> QED BY <2>1, <2>2, <2>3 DEF AccountTable
<1> HIDE DEF new
<1> QED BY <1>1, <1>2, SumIntoTable

\* So the folds of pass 1 give tables of months, after any number of accounts,
LEMMA FoldTablesAt ==
  ASSUME NEW kind \in {"rollup", "formula"}, NEW rows, MonthTable(rows), NEW seq \in Seq(Accounts)
  PROVE  \A i \in 0..Len(seq) : MonthTable(FoldAt(kind, rows, seq, i))
<1> DEFINE at(i) == FoldAt(kind, rows, seq, i)
           P == {i \in Nat : i <= Len(seq) => MonthTable(at(i))}
<1>1. 0 \in P
  <2>1. at(0) = rows
    BY FoldBegins DEF Begun
  <2> QED BY <2>1
<1>2. ASSUME NEW i \in Nat, i \in P
      PROVE  i + 1 \in P
  <2> SUFFICES ASSUME i + 1 <= Len(seq)
               PROVE  MonthTable(at(i + 1))
    BY <1>2
  <2> DEFINE t == at(i)
             a == seq[i + 1]
  <2>1. MonthTable(t)
    BY <1>2
  <2>2. a \in Accounts
    OBVIOUS
  <2>3. at(i + 1) = Extended(kind, rows, t, a)
    BY FoldGoesOn
  <2> HIDE DEF at, t, a, P
  <2>4. CASE kind = "rollup"
    <3>1. Extended(kind, rows, t, a) = Over(SumInto(rows, a, Children(a)), t)
      BY <2>4 DEF Extended
    <3>2. AccountTable(SumInto(rows, a, Children(a)), rows, a)
      BY <2>2, SumIntoTable
    <3>3. MonthTable(Over(SumInto(rows, a, Children(a)), t))
      BY <2>1, <2>2, <3>2, ExtendedTable
    <3> QED BY <2>3, <3>1, <3>3
  <2>5. CASE kind = "formula"
    <3>1. Extended(kind, rows, t, a) = Over(FormulaRows(t, a), t)
      BY <2>5 DEF Extended
    <3>2. AccountTable(FormulaRows(t, a), t, a)
      BY <2>1, <2>2, FormulaTable
    <3>3. MonthTable(Over(FormulaRows(t, a), t))
      BY <2>1, <2>2, <3>2, ExtendedTable
    <3> QED BY <2>3, <3>1, <3>3
  <2> QED BY <2>4, <2>5
<1>3. \A i \in Nat : i \in P
  <2> HIDE DEF P
  <2> QED BY <1>1, <1>2, Induction
<1> QED BY <1>3

\* and after all of them.
LEMMA FoldTables ==
  ASSUME NEW kind \in {"rollup", "formula"}, NEW rows, MonthTable(rows), NEW seq \in Seq(Accounts)
  PROVE  MonthTable(Folded(kind, rows, seq, DOMAIN seq)[DOMAIN seq])
<1>1. MonthTable(FoldAt(kind, rows, seq, Len(seq)))
  BY FoldTablesAt
<1>2. DOMAIN seq = 1..Len(seq)
  OBVIOUS
<1> QED BY <1>1, <1>2 DEF FoldAt

\* The month rows of pass 1: of every table of facts, whatever dim_account says.
LEMMA MonthRows ==
  ASSUME NEW facts, FactsOK(facts)
  PROVE  MonthTable(ResolveCalculated(RollupAccounts(LeafRows(facts))))
<1>1. MonthTable(LeafRows(facts))
  BY LeafTable
<1>2. AccountOrder \in Seq(Accounts)
  BY AccountsOK DEF AccountsOK
<1>3. MonthTable(RollupAccounts(LeafRows(facts)))
  BY <1>1, <1>2, FoldTables, RollupFolds
<1>4. TopologicalSort \in Seq(Accounts)
  <2>1. TopologicalSort \in Seq(DOMAIN Formula)
    BY FormulasInOrder DEF FormulasSorted
  <2>2. DOMAIN Formula \subseteq Accounts
    BY AccountsOK DEF AccountsOK
  <2> QED BY <2>1, <2>2
<1> QED BY <1>3, <1>4, FoldTables, ResolveFolds

-----------------------------------------------------------------------------
(* Quarters and years *)

\* The periods the data has for the group of period p, and the place of row j in
\* a view.
GroupPeriods(rows, view, p) ==
    {q \in {j.period : j \in DOMAIN rows} : SameGroup(view, q, p)}

Place(rows, view, j) == [j EXCEPT !.view = view, !.period = Max(GroupPeriods(rows, view, j.period))]

SumViews == {"QTD", "YTD"}

\* Periods are numbers.
LEMMA PeriodsAreNumbers == \A p \in Periods : p \in Int
<1>1. Periods \subseteq Nat
  BY AccountsOK, Zenon DEF AccountsOK
<1>2. \A n \in Nat : n \in Int
  OBVIOUS
<1> QED BY <1>1, <1>2, Zenon

\* The last period of a group is one of the data, and the same for each of its months.
LEMMA LastOfGroup ==
  ASSUME NEW rows, MonthTable(rows), NEW view \in SumViews, NEW j \in DOMAIN rows
  PROVE  LET p == Max(GroupPeriods(rows, view, j.period))
         IN  /\ p \in Periods /\ SameGroup(view, p, j.period)
             /\ \E i \in DOMAIN rows : i.period = p
             /\ \A i \in DOMAIN rows : SameGroup(view, i.period, p) => i.period <= p
             /\ GroupPeriods(rows, view, p) = GroupPeriods(rows, view, j.period)
<1> DEFINE S == GroupPeriods(rows, view, j.period)
           p == Max(S)
<1>1. S \subseteq Periods /\ S # {}
  <2>1. j.period \in S
    BY DEF GroupPeriods, SameGroup, SameQuarter, SameYear
  <2>2. \A i \in DOMAIN rows : i.period \in Periods
    BY DEF MonthTable, AllKeys
  <2> QED BY <2>1, <2>2 DEF GroupPeriods
<1>2. p \in S /\ \A q \in S : p >= q
  <2>1. IsFiniteSet(S)
    BY <1>1, AccountsOK, FS_Subset DEF AccountsOK
  <2>2. \A q \in S : q \in Int
    BY <1>1, PeriodsAreNumbers, Zenon
  <2> HIDE DEF S
  <2> QED BY <1>1, <2>1, <2>2, MaxIn
<1>3. p \in Periods
  BY <1>1, <1>2
<1>4. SameGroup(view, p, j.period) /\ \E i \in DOMAIN rows : i.period = p
  BY <1>2 DEF GroupPeriods
<1> HIDE DEF p
<1>5. GroupPeriods(rows, view, p) = S
  BY <1>4 DEF GroupPeriods, SameGroup, SameQuarter, SameYear
<1>6. ASSUME NEW i \in DOMAIN rows, SameGroup(view, i.period, p)
      PROVE  i.period <= p
  <2>1. i.period \in S
    BY <1>5, <1>6 DEF GroupPeriods
  <2>2. p >= i.period
    BY <1>2, <2>1
  <2>3. p \in Int /\ i.period \in Int
    BY <1>1, <1>3, <2>1, PeriodsAreNumbers, Zenon
  <2> QED BY <2>2, <2>3
<1> QED BY <1>3, <1>4, <1>5, <1>6 DEF p

\* The rows of a view, place by place.
LEMMA ViewTable ==
  ASSUME NEW rows, MonthTable(rows), NEW view \in SumViews
  PROVE  /\ DOMAIN ViewRows(rows, view) = {Place(rows, view, j) : j \in DOMAIN rows}
         /\ \A k \in DOMAIN ViewRows(rows, view) :
               /\ k \in AllKeys /\ k.view = view
               /\ ViewRows(rows, view)[k] = Total(rows, GroupOf(rows, k, view))
               /\ \A f \in AmountFields : ViewRows(rows, view)[k][f] \in Int
<1> DEFINE new == ViewRows(rows, view)
<1>1. new = [k \in {Place(rows, view, j) : j \in DOMAIN rows} |->
                Total(rows, GroupOf(rows, k, view))]
  BY DEF ViewRows, Place, GroupPeriods
<1>2. ASSUME NEW j \in DOMAIN rows
      PROVE  Place(rows, view, j) \in AllKeys /\ Place(rows, view, j).view = view
  <2>1. j \in AllKeys
    BY DEF MonthTable
  <2>2. Max(GroupPeriods(rows, view, j.period)) \in Periods
    BY LastOfGroup
  <2>3. view \in Views
    BY DEF SumViews, Views
  <2> QED BY <2>1, <2>2, <2>3 DEF Place, AllKeys
<1>3. ASSUME NEW k \in DOMAIN new, NEW f \in AmountFields
      PROVE  new[k][f] \in Int
  <2>1. GroupOf(rows, k, view) \subseteq DOMAIN rows
    BY DEF GroupOf
  <2>2. Total(rows, GroupOf(rows, k, view))[f] \in Int
    BY <2>1, TotalInt DEF MonthTable
  <2> QED BY <1>1, <2>2
<1> HIDE DEF new
<1>4. DOMAIN new = {Place(rows, view, j) : j \in DOMAIN rows}
  BY <1>1
<1>5. \A k \in DOMAIN new : /\ k \in AllKeys /\ k.view = view
                            /\ new[k] = Total(rows, GroupOf(rows, k, view))
  BY <1>1, <1>2, <1>4
<1> QED BY <1>3, <1>4, <1>5 DEF new

\* All rows: those of the months, of the quarters and of the years.
LEMMA AllRows ==
  ASSUME NEW rows, MonthTable(rows)
  PROVE  LET all == QtdYtd(rows)
         IN  /\ \A k \in DOMAIN all : k \in AllKeys
             /\ \A k \in DOMAIN all : \A f \in AmountFields : all[k][f] \in Int
             /\ DOMAIN rows = {k \in DOMAIN all : k.view = "MTD"}
             /\ \A k \in DOMAIN rows : all[k] = rows[k]
             /\ \A view \in SumViews :
                   /\ {k \in DOMAIN all : k.view = view}
                      = {Place(rows, view, j) : j \in DOMAIN rows}
                   /\ \A k \in DOMAIN all : k.view = view =>
                         all[k] = Total(rows, GroupOf(rows, k, view))
<1> DEFINE all == QtdYtd(rows)
           quarters == ViewRows(rows, "QTD")
           years == ViewRows(rows, "YTD")
<1>1. DOMAIN all = DOMAIN rows \cup (DOMAIN quarters \cup DOMAIN years)
  BY DEF QtdYtd, Over
<1>2. /\ \A k \in DOMAIN rows : k \in AllKeys /\ k.view = "MTD"
      /\ \A k \in DOMAIN quarters : k \in AllKeys /\ k.view = "QTD"
      /\ \A k \in DOMAIN years : k \in AllKeys /\ k.view = "YTD"
  BY ViewTable DEF MonthTable, SumViews
<1>3. /\ \A k \in DOMAIN rows : all[k] = rows[k]
      /\ \A k \in DOMAIN quarters : k.view # "MTD" => all[k] = quarters[k]
      /\ \A k \in DOMAIN years : k.view = "YTD" => all[k] = years[k]
  BY <1>2 DEF QtdYtd, Over
<1>4. /\ DOMAIN quarters = {Place(rows, "QTD", j) : j \in DOMAIN rows}
      /\ DOMAIN years = {Place(rows, "YTD", j) : j \in DOMAIN rows}
      /\ \A k \in DOMAIN quarters : quarters[k] = Total(rows, GroupOf(rows, k, "QTD"))
      /\ \A k \in DOMAIN years : years[k] = Total(rows, GroupOf(rows, k, "YTD"))
      /\ \A k \in DOMAIN quarters : \A f \in AmountFields : quarters[k][f] \in Int
      /\ \A k \in DOMAIN years : \A f \in AmountFields : years[k][f] \in Int
  BY ViewTable DEF SumViews
<1> HIDE DEF all, quarters, years
<1>5. \A k \in DOMAIN all : k \in AllKeys
  BY <1>1, <1>2
<1>6. \A k \in DOMAIN all : \A f \in AmountFields : all[k][f] \in Int
  BY <1>1, <1>2, <1>3, <1>4 DEF MonthTable
<1>7. DOMAIN rows = {k \in DOMAIN all : k.view = "MTD"}
  BY <1>1, <1>2
<1>8. DOMAIN quarters = {k \in DOMAIN all : k.view = "QTD"}
  BY <1>1, <1>2
<1>9. DOMAIN years = {k \in DOMAIN all : k.view = "YTD"}
  BY <1>1, <1>2
<1>10. ASSUME NEW view \in SumViews
       PROVE  /\ {k \in DOMAIN all : k.view = view} = {Place(rows, view, j) : j \in DOMAIN rows}
              /\ \A k \in DOMAIN all : k.view = view =>
                    all[k] = Total(rows, GroupOf(rows, k, view))
  <2>1. CASE view = "QTD"
    BY <1>2, <1>3, <1>4, <1>8, <2>1
  <2>2. CASE view = "YTD"
    BY <1>2, <1>3, <1>4, <1>9, <2>2
  <2> QED BY <2>1, <2>2 DEF SumViews
<1> QED BY <1>3, <1>5, <1>6, <1>7, <1>10 DEF all

\* Row i of a view stands for row j and its group.
PlacedFrom(rows, view, i, j) ==
    /\ i.account = j.account /\ i.slice = j.slice /\ i.base = j.base
    /\ i.period = Max(GroupPeriods(rows, view, j.period))
    /\ i.period \in Periods /\ SameGroup(view, i.period, j.period)
    /\ i.period = Max(GroupPeriods(rows, view, i.period))
    /\ \A h \in DOMAIN rows : SameGroup(view, h.period, i.period) => h.period <= i.period

\* A row of a quarter or a year is placed from one of a month.
LEMMA PlacedRow ==
  ASSUME NEW rows, MonthTable(rows), NEW all, all = QtdYtd(rows),
         NEW i \in DOMAIN all, NEW view \in SumViews, i.view = view
  PROVE  \E j \in DOMAIN rows : PlacedFrom(rows, view, i, j)
<1>0. \A w \in SumViews : {k \in DOMAIN QtdYtd(rows) : k.view = w}
                              = {Place(rows, w, j) : j \in DOMAIN rows}
  BY ONLY MonthTable(rows), AllRows
<1>1. PICK j \in DOMAIN rows : i = Place(rows, view, j)
  <2>1. i \in {k \in DOMAIN QtdYtd(rows) : k.view = view}
    OBVIOUS
  <2> QED BY <1>0, <2>1
<1>2. j \in AllKeys
  BY DEF MonthTable
<1>3. /\ i.account = j.account /\ i.slice = j.slice /\ i.base = j.base
      /\ i.period = Max(GroupPeriods(rows, view, j.period))
  BY <1>1, <1>2 DEF Place, AllKeys
<1> QED BY <1>3, LastOfGroup DEF PlacedFrom

\* The quarter rows that year row k is made of.
QuartersOf(all, k) ==
    {j \in DOMAIN all : /\ j.view = "QTD" /\ SameYear(j.period, k.period) /\ j.period <= k.period
                        /\ j.account = k.account /\ j.slice = k.slice /\ j.base = k.base}

\* A year row is the sum of its quarter rows: each month of the year is in one of
\* them.
LEMMA YearsAddUp ==
  ASSUME NEW rows, MonthTable(rows), NEW all, all = QtdYtd(rows),
         NEW k \in DOMAIN all, k.view = "YTD"
  PROVE  all[k] = Total(all, QuartersOf(all, k))
<1> DEFINE J == QuartersOf(all, k)
           M == GroupOf(rows, k, "YTD")
           part == [j \in J |-> GroupOf(rows, j, "QTD")]
<1>1. /\ \A i \in DOMAIN all : i \in AllKeys
      /\ \A i \in DOMAIN all : \A f \in AmountFields : all[i][f] \in Int
      /\ \A view \in SumViews : {i \in DOMAIN all : i.view = view}
                                = {Place(rows, view, j) : j \in DOMAIN rows}
      /\ \A view \in SumViews : \A i \in DOMAIN all : i.view = view =>
            all[i] = Total(rows, GroupOf(rows, i, view))
  BY AllRows
<1>2. "QTD" \in SumViews /\ "YTD" \in SumViews
  BY DEF SumViews
<1>3. ASSUME NEW i \in DOMAIN all, NEW view \in SumViews, i.view = view
      PROVE  \E j \in DOMAIN rows : PlacedFrom(rows, view, i, j)
  BY <1>3, PlacedRow
<1>4. ASSUME NEW i \in J, NEW j \in J, i # j
      PROVE  part[i] \cap part[j] = {}
  <2> SUFFICES ASSUME NEW m \in DOMAIN rows, m \in part[i], m \in part[j]  PROVE FALSE
    BY DEF GroupOf
  <2>1. SameQuarter(m.period, i.period) /\ SameQuarter(m.period, j.period)
    BY DEF GroupOf, SameGroup
  <2>2. i.period = Max(GroupPeriods(rows, "QTD", i.period))
    BY <1>2, <1>3 DEF QuartersOf, PlacedFrom
  <2>3. j.period = Max(GroupPeriods(rows, "QTD", j.period))
    BY <1>2, <1>3 DEF QuartersOf, PlacedFrom
  <2>4. GroupPeriods(rows, "QTD", i.period) = GroupPeriods(rows, "QTD", j.period)
    BY <2>1 DEF GroupPeriods, SameGroup, SameQuarter, SameYear
  <2>5. i \in AllKeys /\ j \in AllKeys
    BY <1>1 DEF QuartersOf
  <2>6. i.account = j.account /\ i.slice = j.slice /\ i.base = j.base /\ i.view = j.view
    BY DEF QuartersOf
  <2>7. i = j
    BY <2>2, <2>3, <2>4, <2>5, <2>6 DEF AllKeys
  <2> QED BY <1>4, <2>7
<1>5. UNION {part[j] : j \in J} = M
  <2>1. ASSUME NEW j \in J, NEW m \in part[j]
        PROVE  m \in M
    BY DEF QuartersOf, GroupOf, SameGroup, SameQuarter, SameYear
  <2>2. ASSUME NEW m \in M
        PROVE  \E j \in J : m \in part[j]
    <3> DEFINE j == Place(rows, "QTD", m)
    <3>1. m \in DOMAIN rows /\ m \in AllKeys
      BY DEF GroupOf, MonthTable
    <3>2. j \in DOMAIN all /\ j.view = "QTD"
      BY <1>1, <1>2, <3>1
    <3>3. /\ j.account = m.account /\ j.slice = m.slice /\ j.base = m.base
          /\ j.period = Max(GroupPeriods(rows, "QTD", m.period))
      BY <3>1 DEF Place, AllKeys
    <3>4. /\ SameGroup("QTD", j.period, m.period)
          /\ \E h \in DOMAIN rows : h.period = j.period
      BY <1>2, <3>1, <3>3, LastOfGroup
    <3> HIDE DEF j
    <3>5. SameYear(m.period, k.period) /\ SameQuarter(m.period, j.period)
      BY <3>4 DEF GroupOf, SameGroup, SameQuarter, SameYear
    <3>6. SameYear(j.period, k.period)
      BY <3>5 DEF SameQuarter, SameYear
    <3>7. j.period <= k.period
      <4>1. PICK h \in DOMAIN rows : h.period = j.period
        BY <3>4
      <4>2. SameGroup("YTD", h.period, k.period)
        BY <3>6, <4>1 DEF SameGroup
      <4> QED BY <1>2, <1>3, <4>1, <4>2 DEF PlacedFrom
    <3>8. j \in J
      BY <3>2, <3>3, <3>6, <3>7 DEF QuartersOf, GroupOf
    <3>9. m \in part[j]
      BY <3>1, <3>3, <3>5, <3>8 DEF GroupOf, SameGroup
    <3> QED BY <3>8, <3>9
  <2> HIDE DEF J, M
  <2> QED BY <2>1, <2>2
<1>6. ASSUME NEW f \in AmountFields
      PROVE  all[k][f] = Total(all, J)[f]
  <2> DEFINE F == Column(rows, f)
             G == Column(all, f)
  <2>1. J \subseteq DOMAIN all /\ M \subseteq DOMAIN rows
    BY DEF QuartersOf, GroupOf
  <2>2. IsFiniteSet(J)
    <3>1. J \subseteq AllKeys
      BY <1>1, <2>1
    <3> QED BY <3>1, KeysFinite, FS_Subset
  <2>3. ASSUME NEW j \in J
        PROVE  /\ IsFiniteSet(part[j]) /\ \A x \in part[j] : F[x] \in Int
               /\ G[j] = Sigma(F, part[j])
    <3>1. part[j] = GroupOf(rows, j, "QTD") /\ part[j] \subseteq DOMAIN rows
      BY DEF GroupOf
    <3>2. part[j] \subseteq AllKeys
      BY <3>1 DEF MonthTable
    <3>3. IsFiniteSet(part[j])
      BY <3>2, KeysFinite, FS_Subset
    <3>4. \A x \in part[j] : F[x] \in Int
      BY <3>1 DEF Column, MonthTable
    <3>5. all[j] = Total(rows, part[j])
      BY <1>1, <1>2, <2>1, <3>1 DEF QuartersOf
    <3>6. G[j] = all[j][f]
      BY <2>1 DEF Column
    <3>7. Total(rows, part[j])[f] = Sigma(F, part[j])
      BY <3>1, TotalIsSigma, FieldsOfAmounts
    <3> QED BY <3>3, <3>4, <3>5, <3>6, <3>7
  <2>4. Total(all, J)[f] = Sigma(G, J)
    BY <2>1, TotalIsSigma, FieldsOfAmounts
  <2>5. all[k][f] = Sigma(F, M)
    <3>1. all[k] = Total(rows, M)
      BY <1>1, <1>2
    <3>2. Total(rows, M)[f] = Sigma(F, M)
      BY <2>1, TotalIsSigma, FieldsOfAmounts
    <3> QED BY <3>1, <3>2
  <2> HIDE DEF J, M, part, F, G
  <2>6. Sigma(G, J) = Sigma(F, UNION {part[j] : j \in J})
    <3>1. Parts(F, J, part, G)
      BY <1>4, <2>2, <2>3 DEF Parts
    <3>2. AddsUp(F, J, part, G)
      BY ONLY <3>1, SigmaParts
    <3> QED BY <3>2 DEF AddsUp
  <2> QED BY <1>5, <2>4, <2>5, <2>6
<1>7. all[k] = [f \in AmountFields |-> all[k][f]]
  <2>1. all[k] = Total(rows, M)
    BY <1>1, <1>2
  <2> QED BY <2>1, FieldsOfAmounts DEF Total
<1>8. Total(all, J) = [f \in AmountFields |-> Total(all, J)[f]]
  BY FieldsOfAmounts DEF Total
<1> HIDE DEF J, M, part
<1>9. all[k] = Total(all, J)
  BY <1>6, <1>7, <1>8
<1> QED BY <1>9 DEF J

-----------------------------------------------------------------------------
(* Calculated accounts *)

\* The rows of the accounts in S at the place of row k.
Beside(rows, S, k) ==
    {j \in DOMAIN rows : j.account \in S /\ [j EXCEPT !.account = k.account] = k}

\* Accounts whose formula is a difference, and what it is about.
Differences == {a \in DOMAIN Formula : Formula[a].op = "minus"}

Operands(a) == Formula[a].plus \cup Formula[a].minus

\* The rows of account a follow its formula, and are where its operands are.
Follows(rows, a) ==
    /\ \A k \in DOMAIN rows : k.account = a =>
          \A f \in DOMAIN Zero :
              rows[k][f] = Total(rows, Beside(rows, Formula[a].plus, k))[f]
                           - Total(rows, Beside(rows, Formula[a].minus, k))[f]
    /\ \A j \in DOMAIN rows : j.account \in Operands(a) => [j EXCEPT !.account = a] \in DOMAIN rows

\* Rows of one account are added to a table.
Adds(rows, t, a) ==
    /\ DOMAIN t \subseteq DOMAIN rows
    /\ \A k \in DOMAIN rows : k.account # a => k \in DOMAIN t /\ rows[k] = t[k]

\* Rows of one account put over a table change nothing else.
LEMMA OverAdds ==
  ASSUME NEW t, NEW new, NEW a, \A k \in DOMAIN new : k.account = a
  PROVE  Adds(Over(new, t), t, a)
  BY DEF Adds, Over

\* What is beside a row does not change when rows of another account are added.
LEMMA BesideStays ==
  ASSUME NEW t, MonthTable(t), NEW rows, NEW b, Adds(rows, t, b), NEW S, b \notin S, NEW k
  PROVE  /\ Beside(rows, S, k) = Beside(t, S, k)
         /\ \A f \in DOMAIN Zero : Total(rows, Beside(rows, S, k))[f] = Total(t, Beside(t, S, k))[f]
<1> DEFINE K == Beside(t, S, k)
<1>1. Beside(rows, S, k) = K
  BY DEF Adds, Beside
<1>2. K \subseteq DOMAIN t /\ K \subseteq DOMAIN rows /\ K \subseteq AllKeys
  BY DEF Adds, Beside, MonthTable
<1>3. IsFiniteSet(K)
  BY <1>2, KeysFinite, FS_Subset
<1>4. \A j \in K : rows[j] = t[j]
  BY DEF Adds, Beside
<1> HIDE DEF K
<1>5. \A f \in DOMAIN Zero : Total(rows, K)[f] = Total(t, K)[f]
  BY <1>2, <1>3, <1>4, TotalSame
<1> QED BY <1>1, <1>5 DEF K

\* An account goes on following its formula when rows of another one are added that
\* the formula is not about.
LEMMA FollowsStays ==
  ASSUME NEW t, MonthTable(t), NEW rows, NEW a \in Differences, NEW b, a # b,
         b \notin Operands(a), Adds(rows, t, b), Follows(t, a)
  PROVE  Follows(rows, a)
<1>1. b \notin Formula[a].plus /\ b \notin Formula[a].minus
  BY DEF Operands
<1>2. ASSUME NEW k \in DOMAIN rows, k.account = a, NEW f \in DOMAIN Zero
      PROVE  rows[k][f] = Total(rows, Beside(rows, Formula[a].plus, k))[f]
                          - Total(rows, Beside(rows, Formula[a].minus, k))[f]
  <2>1. k \in DOMAIN t /\ rows[k] = t[k]
    BY <1>2 DEF Adds
  <2>2. t[k][f] = Total(t, Beside(t, Formula[a].plus, k))[f]
                  - Total(t, Beside(t, Formula[a].minus, k))[f]
    BY <1>2, <2>1 DEF Follows
  <2>3. Total(rows, Beside(rows, Formula[a].plus, k))[f] = Total(t, Beside(t, Formula[a].plus, k))[f]
    BY <1>1, BesideStays
  <2>4. Total(rows, Beside(rows, Formula[a].minus, k))[f] = Total(t, Beside(t, Formula[a].minus, k))[f]
    BY <1>1, BesideStays
  <2> QED BY <2>1, <2>2, <2>3, <2>4
<1>3. ASSUME NEW j \in DOMAIN rows, j.account \in Operands(a)
      PROVE  [j EXCEPT !.account = a] \in DOMAIN rows
  <2>1. j \in DOMAIN t
    BY <1>3 DEF Adds
  <2>2. [j EXCEPT !.account = a] \in DOMAIN t
    BY <1>3, <2>1 DEF Follows
  <2> QED BY <2>2 DEF Adds
<1> QED BY <1>2, <1>3 DEF Follows

\* Resolving an account that has no rows yet makes it follow its formula.
LEMMA ResolvedFollows ==
  ASSUME NEW t, MonthTable(t), NEW a \in Differences, a \notin Operands(a),
         \A k \in DOMAIN t : k.account # a
  PROVE  Follows(Over(FormulaRows(t, a), t), a)
<1> DEFINE new == FormulaRows(t, a)
           rows == Over(new, t)
           plus == Formula[a].plus
           minus == Formula[a].minus
           mine == {j \in DOMAIN t : j.account \in Operands(a)}
           part(k, S) == {j \in DOMAIN t : j.account \in S /\ [j EXCEPT !.account = a] = k}
<1>1. Formula[a].op # "sum"
  BY DEF Differences
<1>2. new = [k \in {[j EXCEPT !.account = a] : j \in mine} |-> [c \in DOMAIN Zero |->
                 Total(t, part(k, plus))[c] - Total(t, part(k, minus))[c]]]
  BY <1>1 DEF FormulaRows, Operands
<1>3. \A k \in DOMAIN new : k.account = a
  <2>1. \A j \in mine : j \in AllKeys
    BY DEF MonthTable
  <2> HIDE DEF mine
  <2>2. \A j \in mine : [j EXCEPT !.account = a].account = a
    BY <2>1 DEF AllKeys
  <2>3. DOMAIN new = {[j EXCEPT !.account = a] : j \in mine}
    BY <1>2
  <2> HIDE DEF new
  <2> QED BY <2>2, <2>3
<1>4. \A k \in DOMAIN new : \A c \in DOMAIN Zero :
          new[k][c] = Total(t, part(k, plus))[c] - Total(t, part(k, minus))[c]
  BY <1>2
<1>5. DOMAIN new = {[j EXCEPT !.account = a] : j \in mine}
  BY <1>2
<1> HIDE DEF new
<1>6. Adds(rows, t, a)
  BY <1>3, OverAdds
<1>7. ASSUME NEW k \in DOMAIN rows, k.account = a, NEW f \in DOMAIN Zero
      PROVE  rows[k][f] = Total(rows, Beside(rows, plus, k))[f]
                          - Total(rows, Beside(rows, minus, k))[f]
  <2>1. k \in DOMAIN new /\ rows[k] = new[k]
    BY <1>7 DEF Over
  <2>2. part(k, plus) = Beside(t, plus, k) /\ part(k, minus) = Beside(t, minus, k)
    BY <1>7 DEF Beside
  <2> HIDE DEF rows, part
  <2>3. Total(rows, Beside(rows, plus, k))[f] = Total(t, Beside(t, plus, k))[f]
    BY <1>6, BesideStays DEF Operands
  <2>4. Total(rows, Beside(rows, minus, k))[f] = Total(t, Beside(t, minus, k))[f]
    BY <1>6, BesideStays DEF Operands
  <2> QED BY <1>4, <2>1, <2>2, <2>3, <2>4
<1>8. ASSUME NEW j \in DOMAIN rows, j.account \in Operands(a)
      PROVE  [j EXCEPT !.account = a] \in DOMAIN rows
  <2>1. j \in DOMAIN t
    BY <1>6, <1>8 DEF Adds
  <2>2. [j EXCEPT !.account = a] \in DOMAIN new
    BY <1>5, <1>8, <2>1
  <2> QED BY <2>2 DEF Over
<1> HIDE DEF rows, plus, minus
<1>9. Follows(rows, a)
  BY <1>7, <1>8 DEF Follows, plus, minus
<1> QED BY <1>9 DEF rows, new

\* No row of the roll-up is of an account whose formula is a difference.
NoDifferences(rows) == \A k \in DOMAIN rows : k.account \notin Differences

\* A leaf is not a difference of accounts.
LEMMA LeavesAreNoDifferences ==
  ASSUME NEW facts, FactsOK(facts)
  PROVE  NoDifferences(LeafRows(facts))
<1>1. ASSUME NEW k \in DOMAIN LeafRows(facts)
      PROVE  \E x \in DOMAIN facts : k.account = x.account
  BY DEF LeafRows, Key
<1>2. \A x \in DOMAIN facts : x.account \in Leaves
  BY DEF FactsOK, FactKeys
<1>3. \A a \in Leaves : a \notin DOMAIN Formula
  BY AccountsOK DEF AccountsOK, Leaves
<1> QED BY <1>1, <1>2, <1>3 DEF NoDifferences, Differences

\* Neither is what is rolled up from leaves.
LEMMA RollupIsNoDifference ==
  ASSUME NEW facts, FactsOK(facts)
  PROVE  NoDifferences(RollupAccounts(LeafRows(facts)))
<1> DEFINE rows == LeafRows(facts)
           at(i) == FoldAt("rollup", rows, AccountOrder, i)
           P == {i \in Nat : NoDifferences(at(i))}
<1>1. MonthTable(rows)
  BY LeafTable
<1>2. 0 \in P
  <2>1. at(0) = rows
    BY FoldBegins DEF Begun
  <2> QED BY <2>1, LeavesAreNoDifferences
<1>3. ASSUME NEW i \in Nat, NoDifferences(at(i))
      PROVE  NoDifferences(at(i + 1))
  <2> DEFINE t == at(i)
             a == AccountOrder[i + 1]
             new == SumInto(rows, a, Children(a))
  <2>1. at(i + 1) = Over(new, t)
    <3>1. at(i + 1) = Extended("rollup", rows, t, a)
      BY FoldGoesOn
    <3>2. Extended("rollup", rows, t, a) = Over(new, t)
      BY DEF Extended
    <3> QED BY <3>1, <3>2
  <2>2. ASSUME NEW k \in DOMAIN new
        PROVE  k.account \notin Differences
    <3>1. PICK j \in DOMAIN rows : j.account \in Children(a) /\ k = [j EXCEPT !.account = a]
      BY DEF SumInto
    <3>2. k.account = a
      BY <1>1, <3>1 DEF MonthTable, AllKeys
    <3>3. a \notin Differences
      BY <3>1, FormulasInOrder DEF DependenciesFirst, Differences
    <3> QED BY <3>2, <3>3
  <2>3. NoDifferences(t)
    BY <1>3
  <2> HIDE DEF at, t, new, rows
  <2>4. NoDifferences(Over(new, t))
    BY <2>2, <2>3 DEF NoDifferences, Over
  <2> QED BY <2>1, <2>4
<1> HIDE DEF at
<1>4. \A i \in Nat : i \in P
  <2>1. \A i \in Nat : i \in P => i + 1 \in P
    BY <1>3
  <2> HIDE DEF P
  <2> QED BY <1>2, <2>1, Induction
<1>5. NoDifferences(at(Len(AccountOrder)))
  <2>1. Len(AccountOrder) \in Nat
    BY AccountsOK DEF AccountsOK
  <2> QED BY <1>4, <2>1
<1>6. DOMAIN AccountOrder = 1..Len(AccountOrder)
  BY AccountsOK DEF AccountsOK
<1>7. RollupAccounts(rows) = at(Len(AccountOrder))
  BY <1>6, RollupFolds DEF FoldAt, at
<1> QED BY <1>5, <1>7

\* Once all calculated accounts are resolved those with rows follow their formula.
LEMMA MonthsFollow ==
  ASSUME NEW facts, FactsOK(facts),
         NEW rows, rows = ResolveCalculated(RollupAccounts(LeafRows(facts)))
  PROVE  \A k \in DOMAIN rows : k.account \in Differences => Follows(rows, k.account)
<1> DEFINE start == RollupAccounts(LeafRows(facts))
           S == TopologicalSort
           at(i) == FoldAt("formula", start, S, i)
           Resolved(i) == {S[h] : h \in 1..i}
           Right(i) ==
               /\ \A a \in Differences : a \in Resolved(i) => Follows(at(i), a)
               /\ \A k \in DOMAIN at(i) : k.account \in Differences => k.account \in Resolved(i)
           P == {i \in Nat : i <= Len(S) => Right(i)}
<1>1. S \in Seq(DOMAIN Formula) /\ S \in Seq(Accounts) /\ DOMAIN S = 1..Len(S) /\ Len(S) \in Nat
  BY AccountsOK, FormulasInOrder DEF FormulasSorted, AccountsOK
<1>2. MonthTable(start)
  <2>1. MonthTable(LeafRows(facts))
    BY LeafTable
  <2>2. AccountOrder \in Seq(Accounts)
    BY AccountsOK DEF AccountsOK
  <2> QED BY <2>1, <2>2, FoldTables, RollupFolds
<1>3. \A i \in 0..Len(S) : MonthTable(at(i))
  BY <1>1, <1>2, FoldTablesAt
<1>4. 0 \in P
  <2>1. at(0) = start /\ Resolved(0) = {}
    BY FoldBegins DEF Begun
  <2>2. NoDifferences(start)
    BY RollupIsNoDifference
  <2> HIDE DEF start, at, Resolved
  <2> QED BY <2>1, <2>2 DEF NoDifferences
<1>5. ASSUME NEW i \in Nat, i + 1 <= Len(S), Right(i)
      PROVE  Right(i + 1)
  <2> DEFINE t == at(i)
             b == S[i + 1]
             new == FormulaRows(t, b)
  <2>1. at(i + 1) = Over(new, t)
    <3>1. at(i + 1) = Extended("formula", start, t, b)
      BY FoldGoesOn
    <3>2. Extended("formula", start, t, b) = Over(new, t)
      BY DEF Extended
    <3> QED BY <3>1, <3>2
  <2>2. MonthTable(t) /\ b \in DOMAIN Formula /\ b \in Accounts
    BY <1>1, <1>3, <1>5
  <2>3. \A k \in DOMAIN new : k.account = b
    <3>1. AccountTable(new, t, b)
      BY <2>2, FormulaTable
    <3>2. \A k \in DOMAIN new : \E j \in DOMAIN t : k = [j EXCEPT !.account = b]
      BY <3>1 DEF AccountTable
    <3> QED BY <2>2, <3>2 DEF MonthTable, AllKeys
  <2>4. Resolved(i + 1) = Resolved(i) \cup {b}
    OBVIOUS
  <2>5. ASSUME NEW h \in 1..i
        PROVE  S[h] # b /\ (S[h] \in Differences => b \notin Operands(S[h]))
    BY <1>1, <1>5, FormulasInOrder DEF DependenciesFirst, Differences, Operands
  <2>6. b \in Differences => b \notin Operands(b)
    BY <1>1, <1>5, FormulasInOrder DEF DependenciesFirst, Differences, Operands
  <2>7. \A a \in Resolved(i) : a # b /\ (a \in Differences => b \notin Operands(a))
    BY <2>5
  <2>8. Right(i)
    BY <1>5
  <2> HIDE DEF at, Resolved, S, start
  <2>9. Adds(at(i + 1), t, b)
    <3> HIDE DEF new, t, b
    <3> QED BY <2>1, <2>3, OverAdds
  <2>10. ASSUME NEW a \in Differences, a \in Resolved(i + 1)
         PROVE  Follows(at(i + 1), a)
    <3>1. CASE a = b
      <4>1. \A k \in DOMAIN t : k.account # b
        BY <2>7, <2>8, <2>10, <3>1
      <4> HIDE DEF t, b
      <4>2. Follows(Over(FormulaRows(t, b), t), b)
        BY <2>2, <2>6, <2>10, <3>1, <4>1, ResolvedFollows
      <4> QED BY <2>1, <3>1, <4>2
    <3>2. CASE a # b
      <4>1. a \in Resolved(i) /\ Follows(t, a) /\ b \notin Operands(a)
        BY <2>4, <2>7, <2>8, <2>10, <3>2
      <4> HIDE DEF t, b
      <4> QED BY <2>2, <2>9, <2>10, <3>2, <4>1, FollowsStays
    <3> QED BY <3>1, <3>2
  <2>11. ASSUME NEW k \in DOMAIN at(i + 1), k.account \in Differences
         PROVE  k.account \in Resolved(i + 1)
    <3>1. CASE k.account = b
      BY <2>4, <3>1
    <3>2. CASE k.account # b
      <4>1. k \in DOMAIN t
        BY <2>9, <3>2 DEF Adds
      <4> QED BY <2>4, <2>8, <2>11, <4>1
    <3> QED BY <3>1, <3>2
  <2> QED BY <2>10, <2>11
<1> HIDE DEF Right
<1>6. \A i \in Nat : i \in P => i + 1 \in P
  <2> SUFFICES ASSUME NEW i \in Nat, i \in P, i + 1 <= Len(S)  PROVE Right(i + 1)
    OBVIOUS
  <2>1. i <= Len(S)
    BY <1>1
  <2> QED BY <1>5, <2>1
<1>7. \A i \in Nat : i \in P
  <2> HIDE DEF P
  <2> QED BY <1>4, <1>6, Induction
<1>8. Right(Len(S))
  BY <1>1, <1>7
<1>9. rows = at(Len(S))
  BY <1>1, ResolveFolds DEF FoldAt
<1> HIDE DEF at, S, start
<1> QED BY <1>8, <1>9 DEF Right

-----------------------------------------------------------------------------
(* Calculated accounts in quarters and years *)

\* The month rows of the accounts in S that stand behind row k of a view.
Behind(rows, S, k, view) ==
    {x \in DOMAIN rows : /\ x.account \in S /\ x.slice = k.slice /\ x.base = k.base
                         /\ SameGroup(view, x.period, k.period)}

\* Their sum is that of the rows beside k in its view.
LEMMA BesideInView ==
  ASSUME NEW rows, MonthTable(rows), NEW all, all = QtdYtd(rows), NEW view \in SumViews,
         NEW k \in DOMAIN all, k.view = view, NEW S, NEW f \in DOMAIN Zero
  PROVE  Total(all, Beside(all, S, k))[f] = Sigma(Column(rows, f), Behind(rows, S, k, view))
<1> DEFINE J == Beside(all, S, k)
           X == Behind(rows, S, k, view)
           part == [j \in J |-> GroupOf(rows, j, view)]
           F == Column(rows, f)
           G == Column(all, f)
<1>1. /\ \A i \in DOMAIN all : i \in AllKeys
      /\ \A i \in DOMAIN all : i.view = view => all[i] = Total(rows, GroupOf(rows, i, view))
      /\ {i \in DOMAIN all : i.view = view} = {Place(rows, view, j) : j \in DOMAIN rows}
  BY AllRows
<1>2. ASSUME NEW j \in J
      PROVE  /\ j \in DOMAIN all /\ j \in AllKeys /\ j.account \in S /\ j.view = view
             /\ j.slice = k.slice /\ j.base = k.base /\ j.period = k.period
  BY <1>1 DEF Beside, AllKeys
<1>3. ASSUME NEW i \in J, NEW j \in J, i # j
      PROVE  part[i] \cap part[j] = {}
  <2>1. i.account # j.account
    BY <1>2, <1>3 DEF AllKeys
  <2> QED BY <2>1 DEF GroupOf
<1>4. UNION {part[j] : j \in J} = X
  <2>1. ASSUME NEW j \in J, NEW m \in part[j]
        PROVE  m \in X
    BY <1>2 DEF GroupOf, Behind
  <2>2. ASSUME NEW m \in X
        PROVE  \E j \in J : m \in part[j]
    <3> DEFINE j == Place(rows, view, m)
    <3>1. m \in DOMAIN rows /\ m \in AllKeys
      BY DEF Behind, MonthTable
    <3>2. j \in DOMAIN all /\ j.view = view
      BY <1>1, <3>1
    <3>3. /\ j.account = m.account /\ j.slice = m.slice /\ j.base = m.base
          /\ j.period = Max(GroupPeriods(rows, view, m.period))
      BY <3>1 DEF Place, AllKeys
    <3>4. GroupPeriods(rows, view, m.period) = GroupPeriods(rows, view, k.period)
      BY DEF Behind, GroupPeriods, SameGroup, SameQuarter, SameYear
    <3>5. k.period = Max(GroupPeriods(rows, view, k.period))
      BY PlacedRow DEF PlacedFrom
    <3>6. j.period = k.period
      BY <3>3, <3>4, <3>5
    <3> HIDE DEF j
    <3>7. j \in J
      BY <1>1, <3>2, <3>3, <3>6 DEF Beside, Behind, AllKeys
    <3>8. m \in part[j]
      BY <3>1, <3>3, <3>6, <3>7 DEF GroupOf, Behind
    <3> QED BY <3>7, <3>8
  <2> HIDE DEF J, X
  <2> QED BY <2>1, <2>2
<1>5. J \subseteq DOMAIN all /\ IsFiniteSet(J)
  <2>1. J \subseteq DOMAIN all /\ J \subseteq AllKeys
    BY <1>2
  <2> QED BY <2>1, KeysFinite, FS_Subset
<1>6. ASSUME NEW j \in J
      PROVE  /\ IsFiniteSet(part[j]) /\ \A x \in part[j] : F[x] \in Int
             /\ G[j] = Sigma(F, part[j])
  <2>1. part[j] = GroupOf(rows, j, view) /\ part[j] \subseteq DOMAIN rows
    BY DEF GroupOf
  <2>2. part[j] \subseteq AllKeys
    BY <2>1 DEF MonthTable
  <2>3. IsFiniteSet(part[j])
    BY <2>2, KeysFinite, FS_Subset
  <2>4. \A x \in part[j] : F[x] \in Int
    BY <2>1, FieldsOfAmounts DEF Column, MonthTable
  <2>5. all[j] = Total(rows, part[j])
    BY <1>1, <1>2, <2>1
  <2>6. G[j] = all[j][f]
    BY <1>2 DEF Column
  <2>7. Total(rows, part[j])[f] = Sigma(F, part[j])
    BY <2>1, TotalIsSigma
  <2> QED BY <2>3, <2>4, <2>5, <2>6, <2>7
<1>7. Total(all, J)[f] = Sigma(G, J)
  BY <1>5, TotalIsSigma
<1> HIDE DEF J, X, part, F, G
<1>8. Sigma(G, J) = Sigma(F, UNION {part[j] : j \in J})
  <2>1. Parts(F, J, part, G)
    BY ONLY <1>3, <1>5, <1>6 DEF Parts
  <2>2. AddsUp(F, J, part, G)
    BY ONLY <2>1, SigmaParts
  <2> QED BY <2>2 DEF AddsUp
<1>9. Total(all, J)[f] = Sigma(F, X)
  BY <1>4, <1>7, <1>8
<1> QED BY <1>9 DEF J, F, X

\* Month by month: the rows beside those that row k of a view is made of.
LEMMA BesideMonths ==
  ASSUME NEW rows, MonthTable(rows), NEW view \in SumViews, NEW k, NEW S, NEW f \in DOMAIN Zero,
         \A j \in DOMAIN rows : j.account \in S => [j EXCEPT !.account = k.account] \in DOMAIN rows,
         NEW G, \A m \in GroupOf(rows, k, view) : G[m] = Total(rows, Beside(rows, S, m))[f]
  PROVE  /\ Sigma(G, GroupOf(rows, k, view)) = Sigma(Column(rows, f), Behind(rows, S, k, view))
         /\ \A m \in GroupOf(rows, k, view) : G[m] \in Int
<1> DEFINE M == GroupOf(rows, k, view)
           X == Behind(rows, S, k, view)
           part == [m \in M |-> Beside(rows, S, m)]
           F == Column(rows, f)
<1>1. M \subseteq DOMAIN rows /\ M \subseteq AllKeys /\ \A m \in M : m.account = k.account
  BY DEF GroupOf, MonthTable
<1>2. IsFiniteSet(M)
  BY <1>1, KeysFinite, FS_Subset
<1>3. ASSUME NEW i \in M, NEW j \in M, i # j
      PROVE  part[i] \cap part[j] = {}
  BY <1>1, <1>3 DEF Beside
<1>4. UNION {part[m] : m \in M} = X
  <2>1. ASSUME NEW m \in M, NEW x \in part[m]
        PROVE  x \in X
    <3>1. x \in DOMAIN rows /\ x \in AllKeys /\ x.account \in S /\ [x EXCEPT !.account = m.account] = m
      BY DEF Beside, MonthTable
    <3>2. x.slice = m.slice /\ x.base = m.base /\ x.period = m.period
      BY <1>1, <3>1 DEF AllKeys
    <3> QED BY <3>1, <3>2 DEF GroupOf, Behind
  <2>2. ASSUME NEW x \in X
        PROVE  \E m \in M : x \in part[m]
    <3> DEFINE m == [x EXCEPT !.account = k.account]
    <3>1. x \in DOMAIN rows /\ x \in AllKeys
      BY DEF Behind, MonthTable
    <3>2. m \in DOMAIN rows
      BY <3>1 DEF Behind
    <3>3. m.account = k.account /\ m.slice = x.slice /\ m.base = x.base /\ m.period = x.period
      BY <3>1 DEF AllKeys
    <3>4. m \in M
      BY <3>2, <3>3 DEF GroupOf, Behind
    <3>5. [x EXCEPT !.account = m.account] = m
      BY <3>3
    <3> HIDE DEF m
    <3>6. x \in part[m]
      BY <3>1, <3>4, <3>5 DEF Beside, Behind
    <3> QED BY <3>4, <3>6
  <2> HIDE DEF M, X
  <2> QED BY <2>1, <2>2
<1>5. ASSUME NEW m \in M
      PROVE  /\ IsFiniteSet(part[m]) /\ \A x \in part[m] : F[x] \in Int
             /\ G[m] = Sigma(F, part[m])
  <2>1. part[m] = Beside(rows, S, m) /\ part[m] \subseteq DOMAIN rows
    BY DEF Beside
  <2>2. part[m] \subseteq AllKeys
    BY <2>1 DEF MonthTable
  <2>3. IsFiniteSet(part[m])
    BY <2>2, KeysFinite, FS_Subset
  <2>4. \A x \in part[m] : F[x] \in Int
    BY <2>1, FieldsOfAmounts DEF Column, MonthTable
  <2>5. Total(rows, part[m])[f] = Sigma(F, part[m])
    BY <2>1, TotalIsSigma
  <2> QED BY <2>1, <2>3, <2>4, <2>5
<1> HIDE DEF M, X, part, F
<1>6. \A m \in M : G[m] \in Int
  BY <1>5, SigmaInt
<1>7. Sigma(G, M) = Sigma(F, UNION {part[m] : m \in M})
  <2>1. Parts(F, M, part, G)
    BY <1>2, <1>3, <1>5 DEF Parts
  <2>2. AddsUp(F, M, part, G)
    BY ONLY <2>1, SigmaParts
  <2> QED BY <2>2 DEF AddsUp
<1>8. Sigma(G, M) = Sigma(F, X)
  BY <1>4, <1>7
<1> QED BY <1>6, <1>8 DEF M, F, X

\* Every row of an account whose formula is a difference follows it: those of the
\* months because they were resolved so, those of a quarter or year since sums and
\* differences may be exchanged.
LEMMA DifferencesFollow ==
  ASSUME NEW rows, MonthTable(rows), NEW all, all = QtdYtd(rows),
         \A k \in DOMAIN rows : k.account \in Differences => Follows(rows, k.account),
         NEW k \in DOMAIN all, k.account \in Differences, NEW f \in DOMAIN Zero
  PROVE  all[k][f] = Total(all, Beside(all, Formula[k.account].plus, k))[f]
                     - Total(all, Beside(all, Formula[k.account].minus, k))[f]
<1> DEFINE a == k.account
           plus == Formula[a].plus
           minus == Formula[a].minus
<1>1. /\ \A i \in DOMAIN all : i \in AllKeys
      /\ DOMAIN rows = {i \in DOMAIN all : i.view = "MTD"}
      /\ \A i \in DOMAIN rows : all[i] = rows[i]
      /\ \A view \in SumViews : \A i \in DOMAIN all :
            i.view = view => all[i] = Total(rows, GroupOf(rows, i, view))
  BY AllRows
<1>2. CASE k.view = "MTD"
  <2>1. k \in DOMAIN rows /\ Follows(rows, a) /\ all[k] = rows[k]
    BY <1>1, <1>2
  <2>2. ASSUME NEW S
        PROVE  Total(rows, Beside(rows, S, k))[f] = Total(all, Beside(all, S, k))[f]
    <3>1. Beside(all, S, k) = Beside(rows, S, k)
      BY <1>1, <1>2 DEF Beside, AllKeys
    <3>2. /\ Beside(rows, S, k) \subseteq DOMAIN rows /\ Beside(rows, S, k) \subseteq DOMAIN all
          /\ Beside(rows, S, k) \subseteq AllKeys
      BY <1>1 DEF Beside
    <3>3. IsFiniteSet(Beside(rows, S, k))
      BY <3>2, KeysFinite, FS_Subset
    <3>4. \A j \in Beside(rows, S, k) : rows[j] = all[j]
      BY <1>1, <3>2
    <3>5. Total(rows, Beside(rows, S, k))[f] = Total(all, Beside(rows, S, k))[f]
      BY <3>2, <3>3, <3>4, TotalSame
    <3> QED BY <3>1, <3>5
  <2>3. rows[k][f] = Total(rows, Beside(rows, plus, k))[f] - Total(rows, Beside(rows, minus, k))[f]
    BY <2>1 DEF Follows
  <2> QED BY <2>1, <2>2, <2>3
<1>3. ASSUME NEW view \in SumViews, k.view = view
      PROVE  all[k][f] = Total(all, Beside(all, plus, k))[f] - Total(all, Beside(all, minus, k))[f]
  <2> DEFINE M == GroupOf(rows, k, view)
             A == [m \in M |-> Total(rows, Beside(rows, plus, m))[f]]
             B == [m \in M |-> Total(rows, Beside(rows, minus, m))[f]]
             F == Column(rows, f)
  <2>1. PICK j \in DOMAIN rows : PlacedFrom(rows, view, k, j)
    BY <1>3, PlacedRow
  <2>2. Follows(rows, a)
    BY <2>1 DEF PlacedFrom
  <2>3. /\ \A i \in DOMAIN rows : i.account \in plus => [i EXCEPT !.account = k.account] \in DOMAIN rows
        /\ \A i \in DOMAIN rows : i.account \in minus => [i EXCEPT !.account = k.account] \in DOMAIN rows
    BY <2>2 DEF Follows, Operands
  <2>4. M \subseteq DOMAIN rows /\ M \subseteq AllKeys /\ \A m \in M : m.account = a
    BY DEF GroupOf, MonthTable
  <2>5. IsFiniteSet(M)
    BY <2>4, KeysFinite, FS_Subset
  <2>6. \A m \in M : F[m] = A[m] - B[m]
    <3> SUFFICES ASSUME NEW m \in M  PROVE F[m] = A[m] - B[m]
      OBVIOUS
    <3>1. F[m] = rows[m][f]
      BY <2>4 DEF Column
    <3>2. rows[m][f] = Total(rows, Beside(rows, plus, m))[f] - Total(rows, Beside(rows, minus, m))[f]
      BY <2>2, <2>4 DEF Follows
    <3> QED BY <3>1, <3>2
  <2>7. \A m \in M : A[m] = Total(rows, Beside(rows, plus, m))[f]
    OBVIOUS
  <2>8. \A m \in M : B[m] = Total(rows, Beside(rows, minus, m))[f]
    OBVIOUS
  <2> HIDE DEF A, B, F, plus, minus, a
  <2>9. /\ Sigma(A, M) = Sigma(Column(rows, f), Behind(rows, plus, k, view))
        /\ \A m \in M : A[m] \in Int
    BY <2>3, <2>7, BesideMonths
  <2>10. /\ Sigma(B, M) = Sigma(Column(rows, f), Behind(rows, minus, k, view))
         /\ \A m \in M : B[m] \in Int
    BY <2>3, <2>8, BesideMonths
  <2>11. Total(all, Beside(all, plus, k))[f] = Sigma(Column(rows, f), Behind(rows, plus, k, view))
    BY <1>3, BesideInView
  <2>12. Total(all, Beside(all, minus, k))[f] = Sigma(Column(rows, f), Behind(rows, minus, k, view))
    BY <1>3, BesideInView
  <2>13. all[k][f] = Sigma(F, M)
    <3>1. all[k] = Total(rows, M)
      BY <1>1, <1>3
    <3>2. Total(rows, M)[f] = Sigma(F, M)
      BY <2>4, TotalIsSigma DEF F
    <3> QED BY <3>1, <3>2
  <2> HIDE DEF M
  <2>14. Sigma(F, M) = Sigma(A, M) - Sigma(B, M)
    BY <2>5, <2>6, <2>9, <2>10, SigmaMinus
  <2> QED BY <2>9, <2>10, <2>11, <2>12, <2>13, <2>14
<1>4. k.view \in Views
  BY <1>1 DEF AllKeys
<1> QED BY <1>2, <1>3, <1>4 DEF Views, SumViews

-----------------------------------------------------------------------------
(* Every month *)

\* A row against the budget stands in every period.
EveryMonth(rows) ==
    \A k \in DOMAIN rows : \A p \in Periods :
        k.base = "BUDGET" => [k EXCEPT !.period = p] \in DOMAIN rows

\* The leaf rows: a leaf row against the budget is of a fact, and each fact has one.
LEMMA LeafMonths ==
  ASSUME NEW facts, FactsOK(facts), MonthsComplete(facts)
  PROVE  EveryMonth(LeafRows(facts))
<1> DEFINE fact(k) == facts[[account |-> k.account, slice |-> k.slice, period |-> k.period]]
           keys == {Key(x.account, x.slice, x.period, "MTD", b) : x \in DOMAIN facts, b \in Bases}
<1>1. DOMAIN LeafRows(facts) = {k \in keys : fact(k).comparator[k.base] # Null}
  BY DEF LeafRows
<1>2. "BUDGET" \in Bases
  BY AccountsOK DEF AccountsOK, Bases
<1>3. SUFFICES ASSUME NEW k \in keys, NEW p \in Periods, k.base = "BUDGET"
               PROVE  /\ [k EXCEPT !.period = p] \in keys
                      /\ fact([k EXCEPT !.period = p]).comparator[[k EXCEPT !.period = p].base] # Null
  <2> HIDE DEF keys, fact
  <2> QED BY <1>1 DEF EveryMonth
<1>4. PICK x \in DOMAIN facts, b \in Bases : k = Key(x.account, x.slice, x.period, "MTD", b)
  OBVIOUS
<1> DEFINE y == [x EXCEPT !.period = p]
<1>5. x \in [account : Leaves, slice : Slices, period : Periods]
  BY DEF FactsOK, FactKeys
<1>6. y \in DOMAIN facts /\ y = [account |-> x.account, slice |-> x.slice, period |-> p]
  BY <1>5 DEF MonthsComplete
<1>7. [k EXCEPT !.period = p] = Key(y.account, y.slice, y.period, "MTD", "BUDGET")
  BY <1>3, <1>4, <1>6 DEF Key
<1>8. [k EXCEPT !.period = p] \in keys
  BY <1>2, <1>6, <1>7
<1>9. fact([k EXCEPT !.period = p]) = facts[y] /\ [k EXCEPT !.period = p].base = "BUDGET"
  BY <1>6, <1>7 DEF Key
<1>10. facts[y].comparator["BUDGET"] # Null
  BY <1>6 DEF FactsOK
<1> QED BY <1>8, <1>9, <1>10

\* Rows of one account made of all rows of some accounts.
MadeFrom(new, rows, a, sources) ==
    DOMAIN new = {[j EXCEPT !.account = a] : j \in {i \in DOMAIN rows : i.account \in sources}}

\* What is made from rows of every month has rows of every month.
LEMMA MadeMonths ==
  ASSUME NEW rows, MonthTable(rows), EveryMonth(rows), NEW a \in Accounts, NEW sources, NEW new,
         MadeFrom(new, rows, a, sources)
  PROVE  EveryMonth(new)
<1> SUFFICES ASSUME NEW k \in DOMAIN new, NEW p \in Periods, k.base = "BUDGET"
             PROVE  [k EXCEPT !.period = p] \in DOMAIN new
  BY DEF EveryMonth
<1>1. PICK j \in DOMAIN rows : j.account \in sources /\ k = [j EXCEPT !.account = a]
  BY DEF MadeFrom
<1> DEFINE i == [j EXCEPT !.period = p]
<1>2. j \in AllKeys
  BY DEF MonthTable
<1>3. j.base = "BUDGET"
  BY <1>1, <1>2 DEF AllKeys
<1>4. i \in DOMAIN rows
  BY <1>3 DEF EveryMonth
<1>5. i.account \in sources /\ [k EXCEPT !.period = p] = [i EXCEPT !.account = a]
  BY <1>1, <1>2 DEF AllKeys
<1> HIDE DEF i
<1> QED BY <1>4, <1>5 DEF MadeFrom

\* A sum of accounts is made from rows of those accounts,
LEMMA SumMadeFrom ==
  ASSUME NEW rows, NEW a, NEW sources
  PROVE  MadeFrom(SumInto(rows, a, sources), rows, a, sources)
  BY DEF SumInto, MadeFrom

\* and so is the result of a formula.
LEMMA FormulaMadeFrom ==
  ASSUME NEW rows, NEW a
  PROVE  \E sources : MadeFrom(FormulaRows(rows, a), rows, a, sources)
<1>1. CASE Formula[a].op = "sum"
  <2>1. FormulaRows(rows, a) = SumInto(rows, a, Children(Formula[a].of))
    BY <1>1 DEF FormulaRows
  <2> QED BY <2>1, SumMadeFrom
<1>2. CASE Formula[a].op # "sum"
  <2>1. DOMAIN FormulaRows(rows, a)
          = {[j EXCEPT !.account = a] :
                j \in {i \in DOMAIN rows : i.account \in Formula[a].plus \cup Formula[a].minus}}
    BY <1>2 DEF FormulaRows
  <2> QED BY <2>1 DEF MadeFrom
<1> QED BY <1>1, <1>2

\* Two tables with rows of every month, one put over the other, have rows of every month.
LEMMA OverMonths ==
  ASSUME NEW new, NEW t, EveryMonth(new), EveryMonth(t)
  PROVE  EveryMonth(Over(new, t))
<1>1. DOMAIN Over(new, t) = DOMAIN new \cup DOMAIN t
  BY DEF Over
<1> QED BY <1>1 DEF EveryMonth

\* So have the folds of pass 1.
LEMMA FoldMonths ==
  ASSUME NEW kind \in {"rollup", "formula"}, NEW rows, MonthTable(rows), EveryMonth(rows),
         NEW seq \in Seq(Accounts)
  PROVE  EveryMonth(Folded(kind, rows, seq, DOMAIN seq)[DOMAIN seq])
<1> DEFINE at(i) == FoldAt(kind, rows, seq, i)
           P == {i \in Nat : i <= Len(seq) => EveryMonth(at(i))}
<1>1. 0 \in P
  <2>1. at(0) = rows
    BY FoldBegins DEF Begun
  <2> QED BY <2>1
<1>2. ASSUME NEW i \in Nat, i \in P
      PROVE  i + 1 \in P
  <2> SUFFICES ASSUME i + 1 <= Len(seq)
               PROVE  EveryMonth(at(i + 1))
    BY <1>2
  <2> DEFINE t == at(i)
             a == seq[i + 1]
  <2>1. EveryMonth(t)
    BY <1>2
  <2>2. MonthTable(t)
    <3>1. i \in 0..Len(seq)
      OBVIOUS
    <3> QED BY <3>1, FoldTablesAt
  <2>3. a \in Accounts
    OBVIOUS
  <2>4. at(i + 1) = Extended(kind, rows, t, a)
    BY FoldGoesOn
  <2> HIDE DEF at, t, a, P
  <2>5. CASE kind = "rollup"
    <3>1. Extended(kind, rows, t, a) = Over(SumInto(rows, a, Children(a)), t)
      BY <2>5 DEF Extended
    <3>2. EveryMonth(SumInto(rows, a, Children(a)))
      BY <2>3, SumMadeFrom, MadeMonths
    <3> QED BY <2>1, <2>4, <3>1, <3>2, OverMonths
  <2>6. CASE kind = "formula"
    <3>1. Extended(kind, rows, t, a) = Over(FormulaRows(t, a), t)
      BY <2>6 DEF Extended
    <3>2. EveryMonth(FormulaRows(t, a))
      <4>1. PICK sources : MadeFrom(FormulaRows(t, a), t, a, sources)
        BY FormulaMadeFrom
      <4> QED BY <2>1, <2>2, <2>3, <4>1, MadeMonths
    <3> QED BY <2>1, <2>4, <3>1, <3>2, OverMonths
  <2> QED BY <2>5, <2>6
<1>3. \A i \in Nat : i \in P
  <2> HIDE DEF P
  <2> QED BY <1>1, <1>2, Induction
<1>4. Len(seq) \in Nat /\ DOMAIN seq = 1..Len(seq)
  OBVIOUS
<1>5. EveryMonth(at(Len(seq)))
  BY <1>3, <1>4
<1> QED BY <1>4, <1>5 DEF FoldAt

\* The month rows of pass 1 against the budget go through all periods when the facts do.
LEMMA MonthsThrough ==
  ASSUME NEW facts, FactsOK(facts), MonthsComplete(facts)
  PROVE  EveryMonth(ResolveCalculated(RollupAccounts(LeafRows(facts))))
<1>1. MonthTable(LeafRows(facts)) /\ EveryMonth(LeafRows(facts))
  BY LeafTable, LeafMonths
<1>2. AccountOrder \in Seq(Accounts)
  BY AccountsOK DEF AccountsOK
<1>3. MonthTable(RollupAccounts(LeafRows(facts))) /\ EveryMonth(RollupAccounts(LeafRows(facts)))
  BY <1>1, <1>2, FoldTables, FoldMonths, RollupFolds
<1>4. TopologicalSort \in Seq(Accounts)
  <2>1. TopologicalSort \in Seq(DOMAIN Formula)
    BY FormulasInOrder DEF FormulasSorted
  <2>2. DOMAIN Formula \subseteq Accounts
    BY AccountsOK DEF AccountsOK
  <2> QED BY <2>1, <2>2
<1> QED BY <1>3, <1>4, FoldMonths, ResolveFolds

===============================================================================
