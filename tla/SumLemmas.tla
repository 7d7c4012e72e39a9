------------------------------ MODULE SumLemmas ------------------------------
(***************************************************************************)
(* Sums of functions over finite sets (SumFunctionOnSet of Functions), for *)
(* the properties that compare a total with the entries it is the total    *)
(* of.  The fold behind the sum is a recursive function: it exists and is  *)
(* unique because a smallest set on which it did not or was not would      *)
(* contradict the sets below it, and every fact about all finite sets is   *)
(* proved the same way, from MinimalSubset.                                *)
(***************************************************************************)
EXTENDS Integers, Functions, FiniteSets, FiniteSetTheorems, WellFoundedInduction, TLAPS

\* The element the fold takes next, and the equation of the fold.
Pick(s) == CHOOSE x \in s : TRUE
Sums(f, S, g) ==
    g = [s \in SUBSET S |-> IF s = {} THEN 0 ELSE f[Pick(s)] + g[s \ {Pick(s)}]]

\* Among some subsets of a finite set there is a minimal one.
LEMMA MinimalSubset ==
  ASSUME NEW S, IsFiniteSet(S), NEW C \in SUBSET SUBSET S, C # {}
  PROVE  \E T \in C : \A U \in C : U \subseteq T => U = T
<1>1. IsWellFoundedOn(StrictSubsetOrdering(S), SUBSET S)
  BY FS_StrictSubsetOrderingWellFounded, FS_FiniteSubsetsOfFinite
<1>2. \E T \in C : \A U \in C : ~ (<<U, T>> \in StrictSubsetOrdering(S))
  BY <1>1, WFMin
<1> QED BY <1>2 DEF StrictSubsetOrdering

\* Two solutions of the equation agree where both are defined,
LEMMA SumsUnique ==
  ASSUME NEW f, NEW S, IsFiniteSet(S), NEW g, NEW h, Sums(f, S, g), NEW T \in SUBSET S, Sums(f, T, h)
  PROVE  \A s \in SUBSET T : g[s] = h[s]
<1> DEFINE C == {s \in SUBSET T : g[s] # h[s]}
<1>1. SUFFICES ASSUME C # {} PROVE FALSE  OBVIOUS
<1>2. PICK s \in C : \A u \in C : u \subseteq s => u = s
  <2>1. C \in SUBSET SUBSET S  OBVIOUS
  <2> HIDE DEF C
  <2> QED BY <1>1, <2>1, MinimalSubset
<1>3. s \in SUBSET S /\ s \in SUBSET T  OBVIOUS
<1>4. CASE s = {}
  BY <1>3, <1>4 DEF Sums
<1>5. CASE s # {}
  <2>1. Pick(s) \in s  BY <1>5 DEF Pick
  <2> DEFINE r == s \ {Pick(s)}
  <2>2. r \in SUBSET T /\ r \subseteq s /\ r # s  BY <2>1, <1>3
  <2>3. g[r] = h[r]  BY <2>2, <1>2
  <2> HIDE DEF r
  <2>4. g[s] = f[Pick(s)] + g[r] /\ h[s] = f[Pick(s)] + h[r]
    BY <1>3, <1>5 DEF Sums, r
  <2> QED BY <2>3, <2>4
<1> QED BY <1>4, <1>5

\* and every finite set has one.
LEMMA SumsExist ==
  ASSUME NEW f, NEW S, IsFiniteSet(S)
  PROVE  \E g : Sums(f, S, g)
<1> DEFINE C == {T \in SUBSET S : ~ \E g : Sums(f, T, g)}
<1>1. SUFFICES ASSUME C # {} PROVE FALSE  OBVIOUS
<1>2. PICK T \in C : \A U \in C : U \subseteq T => U = T
  <2>1. C \in SUBSET SUBSET S  OBVIOUS
  <2> HIDE DEF C
  <2> QED BY <1>1, <2>1, MinimalSubset
<1> DEFINE H(U) == CHOOSE g : Sums(f, U, g)
           W(s) == IF s = {} THEN 0 ELSE f[Pick(s)] + H(s \ {Pick(s)})[s \ {Pick(s)}]
           g == [s \in SUBSET T |-> W(s)]
<1>3. ASSUME NEW U \in SUBSET T, U # T  PROVE Sums(f, U, H(U))
  <2>1. \E h : Sums(f, U, h)  BY <1>2, <1>3
  <2> QED BY <2>1, Zenon
<1>4. ASSUME NEW s \in SUBSET T, s # T  PROVE H(s)[s] = W(s)
  <2>1. Sums(f, s, H(s))  BY <1>3, <1>4
  <2>2. CASE s = {}
    BY <2>1, <2>2 DEF Sums
  <2>3. CASE s # {}
    <3> DEFINE r == s \ {Pick(s)}
    <3>1. Pick(s) \in s  BY <2>3 DEF Pick
    <3>2. r \in SUBSET s /\ r \in SUBSET T /\ r # T  BY <3>1
    <3>3. Sums(f, r, H(r))  BY <3>2, <1>3
    <3>4. IsFiniteSet(s)  BY FS_Subset
    <3>5. H(s)[r] = H(r)[r]
      <4> HIDE DEF H, r
      <4> QED BY <3>2, <3>3, <3>4, <2>1, SumsUnique
    <3>6. H(s)[s] = f[Pick(s)] + H(s)[r]
      <4> HIDE DEF H
      <4> QED BY <2>1, <2>3 DEF Sums
    <3> QED BY <3>5, <3>6, <2>3
  <2> QED BY <2>2, <2>3
<1>5. ASSUME NEW s \in SUBSET T
      PROVE  g[s] = IF s = {} THEN 0 ELSE f[Pick(s)] + g[s \ {Pick(s)}]
  <2>1. CASE s = {}
    BY <2>1
  <2>2. CASE s # {}
    <3> DEFINE r == s \ {Pick(s)}
    <3>1. Pick(s) \in s  BY <2>2 DEF Pick
    <3>2. r \in SUBSET T /\ r # T  BY <3>1
    <3>3. H(r)[r] = g[r]
      <4>1. H(r)[r] = W(r)  BY <3>2, <1>4
      <4> HIDE DEF r, W
      <4> QED BY <4>1, <3>2
    <3>4. g[s] = f[Pick(s)] + H(r)[r]  BY <2>2
    <3> HIDE DEF H, g
    <3> QED BY <3>3, <3>4, <2>2
  <2> QED BY <2>1, <2>2
<1>6. g = [s \in SUBSET T |-> IF s = {} THEN 0 ELSE f[Pick(s)] + g[s \ {Pick(s)}]]
  <2> DEFINE h(s) == IF s = {} THEN 0 ELSE f[Pick(s)] + g[s \ {Pick(s)}]
  <2>1. \A s \in SUBSET T : W(s) = h(s)
    <3> SUFFICES ASSUME NEW s \in SUBSET T PROVE W(s) = h(s)  OBVIOUS
    <3>1. g[s] = W(s)
      <4> HIDE DEF W
      <4> QED OBVIOUS
    <3>2. g[s] = h(s)  BY <1>5
    <3> QED BY <3>1, <3>2
  <2>2. g = [s \in SUBSET T |-> h(s)]
    <3> HIDE DEF h, W
    <3> QED BY <2>1, Zenon
  <2> QED BY <2>2, Zenon
<1>7. Sums(f, T, g)
  <2> HIDE DEF g
  <2> QED BY <1>6 DEF Sums
<1> QED BY <1>7, <1>2

\* The sum is what any solution says.
LEMMA SumIs ==
  ASSUME NEW f, NEW S, IsFiniteSet(S), NEW g, Sums(f, S, g)
  PROVE  SumFunctionOnSet(f, S) = g[S]
<1> DEFINE h == CHOOSE h : Sums(f, S, h)
<1>1. Sums(f, S, h) BY Zenon
<1>2. SumFunctionOnSet(f, S) = h[S]
  BY DEF SumFunctionOnSet, FoldFunctionOnSet, MapThenFoldSet, Sums, Pick
<1>3. g[S] = h[S]
  <2> HIDE DEF h
  <2> QED BY <1>1, SumsUnique
<1> QED BY <1>2, <1>3

\* The sum of no values is 0, that of others the first one and the rest.
LEMMA SumStep ==
  ASSUME NEW f, NEW S, IsFiniteSet(S)
  PROVE  SumFunctionOnSet(f, S) =
           IF S = {} THEN 0 ELSE f[Pick(S)] + SumFunctionOnSet(f, S \ {Pick(S)})
<1>1. PICK g : Sums(f, S, g)  BY SumsExist
<1>2. SumFunctionOnSet(f, S) = g[S]  BY <1>1, SumIs
<1> DEFINE R == S \ {Pick(S)}
<1>3. IsFiniteSet(R) /\ R \in SUBSET S  BY FS_Subset
<1>4. PICK h : Sums(f, R, h)  BY <1>3, SumsExist
<1>5. SumFunctionOnSet(f, R) = h[R]  BY <1>3, <1>4, SumIs
<1>6. g[R] = h[R]  BY <1>1, <1>3, <1>4, SumsUnique
<1>7. g[S] = IF S = {} THEN 0 ELSE f[Pick(S)] + g[R]
  BY <1>1 DEF Sums
<1> QED BY <1>2, <1>5, <1>6, <1>7

\* A function that is 0 everywhere has the sum 0.
LEMMA SumZero ==
  ASSUME NEW S, IsFiniteSet(S), NEW f, f = [x \in S |-> 0]
  PROVE  SumFunctionOnSet(f, S) = 0
<1> DEFINE C == {T \in SUBSET S : SumFunctionOnSet(f, T) # 0}
<1>1. SUFFICES ASSUME C # {} PROVE FALSE  OBVIOUS
<1>2. PICK T \in C : \A U \in C : U \subseteq T => U = T
  <2>1. C \in SUBSET SUBSET S  OBVIOUS
  <2> HIDE DEF C
  <2> QED BY <1>1, <2>1, MinimalSubset
<1>3. IsFiniteSet(T)  BY FS_Subset
<1>4. CASE T = {}
  <2>1. SumFunctionOnSet(f, T) = 0  BY <1>3, <1>4, SumStep
  <2> QED BY <2>1
<1>5. CASE T # {}
  <2>1. Pick(T) \in T  BY <1>5 DEF Pick
  <2> DEFINE R == T \ {Pick(T)}
  <2>2. R \in SUBSET S /\ R \subseteq T /\ R # T  BY <2>1
  <2>3. SumFunctionOnSet(f, R) = 0  BY <2>2, <1>2
  <2>4. SumFunctionOnSet(f, T) = f[Pick(T)] + SumFunctionOnSet(f, R)  BY <1>3, <1>5, SumStep
  <2>5. f[Pick(T)] = 0  BY <2>1
  <2>6. SumFunctionOnSet(f, T) = 0  BY <2>3, <2>4, <2>5
  <2> QED BY <2>6
<1> QED BY <1>4, <1>5

\* A sum of integers is one.
LEMMA SumInt ==
  ASSUME NEW D, NEW f \in [D -> Int], NEW S \in SUBSET D, IsFiniteSet(S)
  PROVE  SumFunctionOnSet(f, S) \in Int
<1> DEFINE C == {T \in SUBSET S : SumFunctionOnSet(f, T) \notin Int}
<1>1. SUFFICES ASSUME C # {} PROVE FALSE  OBVIOUS
<1>2. PICK T \in C : \A U \in C : U \subseteq T => U = T
  <2>1. C \in SUBSET SUBSET S  OBVIOUS
  <2> HIDE DEF C
  <2> QED BY <1>1, <2>1, MinimalSubset
<1>3. IsFiniteSet(T)  BY FS_Subset
<1>4. CASE T = {}
  <2>1. SumFunctionOnSet(f, T) = 0  BY <1>3, <1>4, SumStep
  <2> QED BY <2>1
<1>5. CASE T # {}
  <2>1. Pick(T) \in T  BY <1>5 DEF Pick
  <2> DEFINE R == T \ {Pick(T)}
  <2>2. R \in SUBSET S /\ R \subseteq T /\ R # T  BY <2>1
  <2>3. SumFunctionOnSet(f, R) \in Int  BY <2>2, <1>2
  <2>4. SumFunctionOnSet(f, T) = f[Pick(T)] + SumFunctionOnSet(f, R)  BY <1>3, <1>5, SumStep
  <2>5. f[Pick(T)] \in Int  BY <2>1
  <2>6. SumFunctionOnSet(f, T) \in Int  BY <2>3, <2>4, <2>5
  <2> QED BY <2>6
<1> QED BY <1>4, <1>5

\* Any element may be taken out of a sum.
LEMMA SumSplit ==
  ASSUME NEW D, NEW f \in [D -> Int], NEW S \in SUBSET D, IsFiniteSet(S)
  PROVE  \A x \in S : SumFunctionOnSet(f, S) = f[x] + SumFunctionOnSet(f, S \ {x})
<1> DEFINE Splits(T) == \A x \in T : SumFunctionOnSet(f, T) = f[x] + SumFunctionOnSet(f, T \ {x})
           C == {T \in SUBSET S : ~ Splits(T)}
<1>1. SUFFICES ASSUME C # {} PROVE FALSE  OBVIOUS
<1>2. PICK T \in C : \A U \in C : U \subseteq T => U = T
  <2>1. C \in SUBSET SUBSET S  OBVIOUS
  <2> HIDE DEF C
  <2> QED BY <1>1, <2>1, MinimalSubset
<1>3. IsFiniteSet(T) /\ T \in SUBSET D BY FS_Subset
<1>4. ASSUME NEW x \in T  PROVE SumFunctionOnSet(f, T) = f[x] + SumFunctionOnSet(f, T \ {x})
  <2> DEFINE p == Pick(T)
             R == T \ {p}
             Q == T \ {x}
             M == T \ {p, x}
  <2>1. p \in T  BY DEF Pick
  <2>2. SumFunctionOnSet(f, T) = f[p] + SumFunctionOnSet(f, R)  BY <1>3, SumStep
  <2>3. CASE p = x
    BY <2>2, <2>3
  <2>4. CASE p # x
    <3>1. R \in SUBSET S /\ R \subseteq T /\ R # T /\ x \in R /\ R \ {x} = M
      BY <2>1, <2>4
    <3>2. Q \in SUBSET S /\ Q \subseteq T /\ Q # T /\ p \in Q /\ Q \ {p} = M
      BY <2>1, <2>4
    <3>3. Splits(R) /\ Splits(Q)
      <4> HIDE DEF R, Q, Splits
      <4> QED BY <1>2, <3>1, <3>2
    <3>4. SumFunctionOnSet(f, R) = f[x] + SumFunctionOnSet(f, M)
      <4> HIDE DEF R, M
      <4> QED BY <3>1, <3>3
    <3>5. SumFunctionOnSet(f, Q) = f[p] + SumFunctionOnSet(f, M)
      <4> HIDE DEF Q, M
      <4> QED BY <3>2, <3>3
    <3>6. IsFiniteSet(M) /\ M \in SUBSET D  BY <1>3, FS_Subset
    <3>7. SumFunctionOnSet(f, M) \in Int /\ f[p] \in Int /\ f[x] \in Int
      <4> HIDE DEF M, p
      <4> QED BY <3>6, <2>1, SumInt
    <3>8. SumFunctionOnSet(f, T) = f[x] + SumFunctionOnSet(f, Q)
      <4> HIDE DEF R, Q, M, p
      <4> QED BY <2>2, <3>4, <3>5, <3>7
    <3> QED BY <3>8
  <2> QED BY <2>3, <2>4
<1> QED BY <1>4, <1>2

\* Functions that agree on a set have the same sum over it.
LEMMA SumSame ==
  ASSUME NEW f, NEW g, NEW S, IsFiniteSet(S), \A x \in S : f[x] = g[x]
  PROVE  SumFunctionOnSet(f, S) = SumFunctionOnSet(g, S)
<1> DEFINE C == {T \in SUBSET S : SumFunctionOnSet(f, T) # SumFunctionOnSet(g, T)}
<1>1. SUFFICES ASSUME C # {} PROVE FALSE  OBVIOUS
<1>2. PICK T \in C : \A U \in C : U \subseteq T => U = T
  <2>1. C \in SUBSET SUBSET S  OBVIOUS
  <2> HIDE DEF C
  <2> QED BY <1>1, <2>1, MinimalSubset
<1>3. IsFiniteSet(T)  BY FS_Subset
<1>4. CASE T = {}
  <2>1. SumFunctionOnSet(f, T) = 0 /\ SumFunctionOnSet(g, T) = 0  BY <1>3, <1>4, SumStep
  <2> QED BY <2>1
<1>5. CASE T # {}
  <2> DEFINE p == Pick(T)
             R == T \ {p}
  <2>1. p \in T  BY <1>5 DEF Pick
  <2>2. SumFunctionOnSet(f, R) = SumFunctionOnSet(g, R)
    <3>1. R \in SUBSET S /\ R \subseteq T /\ R # T  BY <2>1
    <3> HIDE DEF R
    <3> QED BY <1>2, <3>1
  <2>3. SumFunctionOnSet(f, T) = f[p] + SumFunctionOnSet(f, R)  BY <1>3, <1>5, SumStep
  <2>4. SumFunctionOnSet(g, T) = g[p] + SumFunctionOnSet(g, R)  BY <1>3, <1>5, SumStep
  <2>5. f[p] = g[p]  BY <2>1
  <2> HIDE DEF p, R
  <2>6. SumFunctionOnSet(f, T) = SumFunctionOnSet(g, T)  BY <2>2, <2>3, <2>4, <2>5
  <2> QED BY <2>6
<1> QED BY <1>4, <1>5

\* A change at one point changes the sum by as much.
LEMMA SumChange ==
  ASSUME NEW S, IsFiniteSet(S), NEW f \in [S -> Int], NEW g \in [S -> Int], NEW x \in S,
         \A y \in S \ {x} : f[y] = g[y]
  PROVE  SumFunctionOnSet(g, S) = SumFunctionOnSet(f, S) + g[x] - f[x]
<1> DEFINE R == S \ {x}
<1>1. SumFunctionOnSet(f, S) = f[x] + SumFunctionOnSet(f, R)  BY SumSplit
<1>2. SumFunctionOnSet(g, S) = g[x] + SumFunctionOnSet(g, R)  BY SumSplit
<1>3. IsFiniteSet(R) /\ R \in SUBSET S  BY FS_Subset
<1>4. SumFunctionOnSet(f, R) = SumFunctionOnSet(g, R)
  <2>1. \A y \in R : f[y] = g[y]  OBVIOUS
  <2> HIDE DEF R
  <2> QED BY <1>3, <2>1, SumSame
<1>5. SumFunctionOnSet(f, R) \in Int  BY <1>3, SumInt
<1> HIDE DEF R
<1> QED BY <1>1, <1>2, <1>4, <1>5

\* A sum of natural numbers is one.
LEMMA SumNat ==
  ASSUME NEW D, NEW f \in [D -> Nat], NEW S \in SUBSET D, IsFiniteSet(S)
  PROVE  SumFunctionOnSet(f, S) \in Nat
<1> DEFINE C == {T \in SUBSET S : SumFunctionOnSet(f, T) \notin Nat}
<1>1. SUFFICES ASSUME C # {} PROVE FALSE  OBVIOUS
<1>2. PICK T \in C : \A U \in C : U \subseteq T => U = T
  <2>1. C \in SUBSET SUBSET S  OBVIOUS
  <2> HIDE DEF C
  <2> QED BY <1>1, <2>1, MinimalSubset
<1>3. IsFiniteSet(T)  BY FS_Subset
<1>4. CASE T = {}
  <2>1. SumFunctionOnSet(f, T) = 0  BY <1>3, <1>4, SumStep
  <2> QED BY <2>1
<1>5. CASE T # {}
  <2>1. Pick(T) \in T  BY <1>5 DEF Pick
  <2> DEFINE R == T \ {Pick(T)}
  <2>2. R \in SUBSET S /\ R \subseteq T /\ R # T  BY <2>1
  <2>3. SumFunctionOnSet(f, R) \in Nat  BY <2>2, <1>2
  <2>4. SumFunctionOnSet(f, T) = f[Pick(T)] + SumFunctionOnSet(f, R)  BY <1>3, <1>5, SumStep
  <2>5. f[Pick(T)] \in Nat  BY <2>1
  <2>6. SumFunctionOnSet(f, T) \in Nat  BY <2>3, <2>4, <2>5
  <2> QED BY <2>6
<1> QED BY <1>4, <1>5

\* The sum of f + k * g is that of f and k times that of g.
LEMMA SumScaled ==
  ASSUME NEW S, IsFiniteSet(S), NEW f \in [S -> Int], NEW g \in [S -> Int], NEW h \in [S -> Int],
         NEW k \in Int, \A x \in S : h[x] = f[x] + k * g[x]
  PROVE  SumFunctionOnSet(h, S) = SumFunctionOnSet(f, S) + k * SumFunctionOnSet(g, S)
<1> DEFINE Adds(T) == SumFunctionOnSet(h, T) = SumFunctionOnSet(f, T) + k * SumFunctionOnSet(g, T)
           C == {T \in SUBSET S : ~ Adds(T)}
<1>1. SUFFICES ASSUME C # {} PROVE FALSE  OBVIOUS
<1>2. PICK T \in C : \A U \in C : U \subseteq T => U = T
  <2>1. C \in SUBSET SUBSET S  OBVIOUS
  <2> HIDE DEF C
  <2> QED BY <1>1, <2>1, MinimalSubset
<1>3. IsFiniteSet(T) /\ T \in SUBSET S  BY FS_Subset
<1>4. CASE T = {}
  <2>1. SumFunctionOnSet(f, T) = 0 /\ SumFunctionOnSet(g, T) = 0 /\ SumFunctionOnSet(h, T) = 0
    BY <1>3, <1>4, SumStep
  <2> QED BY <2>1
<1>5. CASE T # {}
  <2> DEFINE p == Pick(T)
             R == T \ {p}
  <2>1. p \in T /\ p \in S  BY <1>3, <1>5 DEF Pick
  <2>2. R \in SUBSET S /\ IsFiniteSet(R)  BY <1>3, FS_Subset
  <2>3. Adds(R)
    <3>1. R \subseteq T /\ R # T  BY <2>1
    <3> HIDE DEF R
    <3> QED BY <1>2, <2>2, <3>1
  <2>4. /\ SumFunctionOnSet(f, T) = f[p] + SumFunctionOnSet(f, R)
        /\ SumFunctionOnSet(g, T) = g[p] + SumFunctionOnSet(g, R)
        /\ SumFunctionOnSet(h, T) = h[p] + SumFunctionOnSet(h, R)
    BY <1>3, <1>5, SumStep
  <2>5. /\ SumFunctionOnSet(f, R) \in Int /\ SumFunctionOnSet(g, R) \in Int
        /\ SumFunctionOnSet(h, R) \in Int
    BY <2>2, SumInt
  <2>6. f[p] \in Int /\ g[p] \in Int /\ h[p] \in Int /\ h[p] = f[p] + k * g[p]
    BY <2>1
  <2> HIDE DEF p, R
  <2>7. Adds(T)  BY <2>3, <2>4, <2>5, <2>6
  <2> QED BY <2>7
<1> QED BY <1>4, <1>5

\* No term of natural numbers is more than their sum.
LEMMA SumBounds ==
  ASSUME NEW S, IsFiniteSet(S), NEW f \in [S -> Nat], NEW x \in S
  PROVE  f[x] <= SumFunctionOnSet(f, S)
<1> DEFINE R == S \ {x}
<1>1. f \in [S -> Int]  OBVIOUS
<1>2. SumFunctionOnSet(f, S) = f[x] + SumFunctionOnSet(f, R)  BY <1>1, SumSplit
<1>3. IsFiniteSet(R) /\ R \in SUBSET S  BY FS_Subset
<1>4. SumFunctionOnSet(f, R) \in Nat  BY <1>3, SumNat
<1> HIDE DEF R
<1> QED BY <1>2, <1>4

-----------------------------------------------------------------------------
(* Intervals and sequences.                                                *)

\* A nonempty set of indices has a largest one.
LEMMA LargestIndex ==
  ASSUME NEW a \in Int, NEW b \in Int, NEW B \in SUBSET (a .. b), B # {}
  PROVE  \E m \in B : \A x \in B : x <= m
<1> DEFINE S == a .. b
           C == {U \in SUBSET S : \E m \in B : U = m .. b}
<1>1. PICK T \in C : \A U \in C : U \subseteq T => U = T
  <2>1. PICK m \in B : TRUE
    OBVIOUS
  <2>2. m .. b \in C
    OBVIOUS
  <2>3. C \in SUBSET SUBSET S /\ C # {}
    BY <2>2
  <2>4. IsFiniteSet(S)
    BY FS_Interval
  <2> HIDE DEF C, S
  <2> QED BY <2>3, <2>4, MinimalSubset
<1>2. PICK m \in B : T = m .. b
  OBVIOUS
<1>3. ASSUME NEW x \in B  PROVE x <= m
  <2>1. SUFFICES ASSUME x > m PROVE FALSE
    OBVIOUS
  <2>2. x .. b \in C /\ x .. b \subseteq T
    BY <1>2, <2>1
  <2>3. x .. b = m .. b
    BY <1>1, <1>2, <2>2
  <2>4. m \in m .. b /\ m \notin x .. b
    BY <2>1
  <2> QED BY <2>3, <2>4
<1> QED BY <1>3

LEMMA SmallestIndex ==
  ASSUME NEW a \in Int, NEW b \in Int, NEW B \in SUBSET (a .. b), B # {}
  PROVE  \E m \in B : \A x \in B : m <= x
<1> DEFINE N == {-x : x \in B}
<1>1. N \in SUBSET ((-b) .. (-a)) /\ N # {} /\ -b \in Int /\ -a \in Int
  <2>1. \A x \in B : x \in Int /\ a <= x /\ x <= b
    OBVIOUS
  <2>2. \A x \in B : -x \in (-b) .. (-a)
    BY <2>1
  <2>3. PICK x \in B : TRUE
    OBVIOUS
  <2>4. -x \in N
    OBVIOUS
  <2> QED BY <2>2, <2>4
<1>2. PICK m \in N : \A x \in N : x <= m
  <2> HIDE DEF N
  <2> QED BY <1>1, LargestIndex
<1>3. PICK k \in B : m = -k
  OBVIOUS
<1>4. ASSUME NEW x \in B  PROVE k <= x
  <2>1. -x \in N /\ x \in Int /\ k \in Int
    OBVIOUS
  <2>2. -x <= m
    BY <1>2, <2>1
  <2> QED BY <1>3, <2>1, <2>2
<1> QED BY <1>4

\* The sum over a beginning of a sequence grows slot by slot.
Without(f, D, S, i, R) ==
    /\ f \in [D -> Int] /\ S \in SUBSET D /\ IsFiniteSet(S)
    /\ i \in S /\ R = S \ {i} /\ IsFiniteSet(R)

LEMMA SumWithout ==
  ASSUME NEW f, NEW D, NEW S, NEW i, NEW R, Without(f, D, S, i, R)
  PROVE  SumFunctionOnSet(f, S) = SumFunctionOnSet(f, R) + f[i]
<1>1. SUFFICES ASSUME f \in [D -> Int], S \in SUBSET D, IsFiniteSet(S),
                      i \in S, R = S \ {i}, IsFiniteSet(R)
               PROVE  SumFunctionOnSet(f, S) = SumFunctionOnSet(f, R) + f[i]
  BY DEF Without
<1>2. SumFunctionOnSet(f, S) = f[i] + SumFunctionOnSet(f, S \ {i})
  BY <1>1, SumSplit
<1>3. R \in SUBSET D
  BY <1>1
<1>4. SumFunctionOnSet(f, R) \in Int
  BY <1>1, <1>3, SumInt
<1>5. f[i] \in Int
  BY <1>1
<1> QED BY <1>1, <1>2, <1>4, <1>5

LEMMA SumPrefix ==
  ASSUME NEW n \in Nat, NEW f \in [1 .. n -> Int], NEW i \in 1 .. n
  PROVE  SumFunctionOnSet(f, 1 .. i) = SumFunctionOnSet(f, 1 .. i - 1) + f[i]
<1>1. 1 .. i \in SUBSET (1 .. n) /\ 1 .. i - 1 = (1 .. i) \ {i} /\ i \in 1 .. i
  OBVIOUS
<1>2. IsFiniteSet(1 .. i) /\ IsFiniteSet(1 .. i - 1)
  BY FS_Interval
<1>3. Without(f, 1 .. n, 1 .. i, i, 1 .. i - 1)
  BY <1>1, <1>2 DEF Without
<1> QED BY <1>3, SumWithout

LEMMA SumNone ==
  ASSUME NEW f
  PROVE  SumFunctionOnSet(f, {}) = 0
<1>1. IsFiniteSet({})
  BY FS_EmptySet
<1> QED BY <1>1, SumStep

\* Every slot of a sequence counts once: one more at the end, ...
LEMMA SumAppend ==
  ASSUME NEW n \in Nat, NEW f \in [1 .. n -> Int], NEW g \in [1 .. n + 1 -> Int],
         \A k \in 1 .. n : g[k] = f[k]
  PROVE  SumFunction(g) = SumFunction(f) + g[n + 1]
<1>1. IsFiniteSet(1 .. n) /\ IsFiniteSet(1 .. n + 1)
  BY FS_Interval
<1>2. n + 1 \in 1 .. n + 1 /\ (1 .. n + 1) \ {n + 1} = 1 .. n
  OBVIOUS
<1>3. SumFunctionOnSet(g, 1 .. n + 1) = g[n + 1] + SumFunctionOnSet(g, 1 .. n)
  BY <1>1, <1>2, SumSplit
<1>4. SumFunctionOnSet(g, 1 .. n) = SumFunctionOnSet(f, 1 .. n)
  BY <1>1, SumSame
<1>5. SumFunctionOnSet(f, 1 .. n) \in Int
  BY <1>1, SumInt
<1>6. DOMAIN f = 1 .. n /\ DOMAIN g = 1 .. n + 1
  OBVIOUS
<1> QED BY <1>2, <1>3, <1>4, <1>5, <1>6 DEF SumFunction

\* ... one slot rewritten, ...
LEMMA SumOverSet ==
  ASSUME NEW n \in Nat, NEW f \in [1 .. n -> Int], NEW g \in [1 .. n -> Int], NEW i \in 1 .. n,
         \A k \in 1 .. n : k # i => g[k] = f[k]
  PROVE  SumFunction(g) = SumFunction(f) - f[i] + g[i]
<1>1. IsFiniteSet(1 .. n)
  BY FS_Interval
<1>2. \A y \in (1 .. n) \ {i} : f[y] = g[y]
  OBVIOUS
<1>3. SumFunctionOnSet(g, 1 .. n) = SumFunctionOnSet(f, 1 .. n) + g[i] - f[i]
  BY <1>1, <1>2, SumChange
<1>4. SumFunctionOnSet(f, 1 .. n) \in Int
  BY <1>1, SumInt
<1>5. DOMAIN f = 1 .. n /\ DOMAIN g = 1 .. n
  OBVIOUS
<1> QED BY <1>3, <1>4, <1>5 DEF SumFunction

\* ... or one slot removed by moving the last one into it.
LEMMA SumPop ==
  ASSUME NEW n \in Nat \ {0}, NEW f \in [1 .. n -> Int], NEW g \in [1 .. n - 1 -> Int],
         NEW i \in 1 .. n, \A k \in 1 .. n - 1 : g[k] = IF k = i THEN f[n] ELSE f[k]
  PROVE  SumFunction(g) = SumFunction(f) - f[i]
<1> DEFINE h == [k \in 1 .. n |-> IF k = i THEN f[n] ELSE f[k]]
           l == [k \in 1 .. n - 1 |-> h[k]]
<1>1. h \in [1 .. n -> Int] /\ g = l /\ f[i] \in Int /\ f[n] \in Int /\ h[i] = f[n]
  OBVIOUS
<1>2. SumFunction(h) = SumFunction(f) - f[i] + f[n]
  <2>1. \A k \in 1 .. n : k # i => h[k] = f[k]
    OBVIOUS
  <2> HIDE DEF h
  <2> QED BY <1>1, <2>1, SumOverSet
<1>3. SumFunction(h) = SumFunction(g) + h[n]
  <2>1. n - 1 \in Nat /\ n - 1 + 1 = n /\ \A k \in 1 .. n - 1 : h[k] = g[k]
    BY <1>1
  <2> HIDE DEF h, l
  <2> QED BY <1>1, <2>1, SumAppend
<1>4. h[n] = f[n]
  OBVIOUS
<1>5. SumFunction(f) \in Int /\ SumFunction(g) \in Int
  <2>1. IsFiniteSet(1 .. n) /\ IsFiniteSet(1 .. n - 1) /\ DOMAIN f = 1 .. n /\ DOMAIN g = 1 .. n - 1
    BY FS_Interval
  <2> QED BY <2>1, SumInt DEF SumFunction
<1> HIDE DEF h, l
<1>6. SumFunction(g) = SumFunction(h) - f[n]
  BY <1>1, <1>3, <1>4, <1>5
<1> QED BY <1>1, <1>2, <1>5, <1>6

\* Sums of smaller entries are smaller.
LEMMA SumLeq ==
  ASSUME NEW S, IsFiniteSet(S), NEW f \in [S -> Int], NEW g \in [S -> Int],
         \A x \in S : f[x] <= g[x]
  PROVE  SumFunctionOnSet(f, S) <= SumFunctionOnSet(g, S)
<1> DEFINE d == [x \in S |-> g[x] - f[x]]
<1>1. d \in [S -> Nat] /\ d \in [S -> Int] /\ \A x \in S : g[x] = f[x] + 1 * d[x]
  OBVIOUS
<1> HIDE DEF d
<1>2. SumFunctionOnSet(g, S) = SumFunctionOnSet(f, S) + 1 * SumFunctionOnSet(d, S)
  BY <1>1, SumScaled
<1>3. SumFunctionOnSet(d, S) \in Nat /\ SumFunctionOnSet(f, S) \in Int
  BY <1>1, SumNat, SumInt
<1> QED BY <1>2, <1>3

\* A sum over part of a set is one over all of it that counts that part.
LEMMA SumPart ==
  ASSUME NEW D, IsFiniteSet(D), NEW f \in [D -> Int], NEW S \in SUBSET D
  PROVE  SumFunctionOnSet(f, S) = SumFunctionOnSet([x \in D |-> IF x \in S THEN f[x] ELSE 0], D)
<1> DEFINE g == [x \in D |-> IF x \in S THEN f[x] ELSE 0]
           Agrees(T) == SumFunctionOnSet(f, T \cap S) = SumFunctionOnSet(g, T)
           C == {T \in SUBSET D : ~ Agrees(T)}
<1>0. g \in [D -> Int]  OBVIOUS
<1>1. SUFFICES ASSUME C # {} PROVE FALSE
  <2>1. D \in SUBSET D /\ D \cap S = S  OBVIOUS
  <2>2. Agrees(D) => SumFunctionOnSet(f, S) = SumFunctionOnSet(g, D)  BY <2>1
  <2> HIDE DEF g
  <2>3. C = {} => Agrees(D)  BY <2>1
  <2> QED  BY <2>2, <2>3 DEF g
<1>2. PICK T \in C : \A U \in C : U \subseteq T => U = T
  <2>1. C \in SUBSET SUBSET D  OBVIOUS
  <2> HIDE DEF C
  <2> QED BY <1>1, <2>1, MinimalSubset
<1>3. IsFiniteSet(T) /\ T \in SUBSET D /\ ~ Agrees(T)  BY FS_Subset
<1>4. CASE T = {}
  <2>1. T \cap S = {}  BY <1>4
  <2>2. SumFunctionOnSet(f, T \cap S) = 0  BY <2>1, SumNone
  <2> HIDE DEF g
  <2>3. SumFunctionOnSet(g, T) = 0  BY <1>4, SumNone
  <2> QED BY <1>3, <2>2, <2>3
<1>5. CASE T # {}
  <2>1. PICK p \in T : TRUE  BY <1>5
  <2> DEFINE R == T \ {p}
  <2>2. R \in SUBSET D /\ IsFiniteSet(R) /\ R \subseteq T /\ R # T  BY <1>3, <2>1, FS_Subset
  <2>3. Agrees(R)
    <3> HIDE DEF R, Agrees
    <3> QED BY <1>2, <2>2
  <2>4. SumFunctionOnSet(g, T) = g[p] + SumFunctionOnSet(g, R)
    <3> HIDE DEF g
    <3> QED  BY <1>0, <1>3, <2>1, SumSplit
  <2>5. SumFunctionOnSet(g, R) \in Int
    <3> HIDE DEF g, R
    <3> QED  BY <1>0, <2>2, SumInt
  <2>6. CASE p \in S
    <3>1. T \cap S \in SUBSET D /\ IsFiniteSet(T \cap S) /\ p \in T \cap S
      <4>1. IsFiniteSet(T \cap S)  BY <1>3, FS_Subset
      <4> QED  BY <1>3, <2>1, <2>6, <4>1
    <3>2. (T \cap S) \ {p} = R \cap S  OBVIOUS
    <3>3. SumFunctionOnSet(f, T \cap S) = f[p] + SumFunctionOnSet(f, (T \cap S) \ {p})
      BY <3>1, SumSplit
    <3>4. g[p] = f[p]  BY <1>3, <2>1, <2>6
    <3> HIDE DEF g, R
    <3> QED  BY <1>3, <2>3, <2>4, <3>2, <3>3, <3>4
  <2>7. CASE p \notin S
    <3>1. T \cap S = R \cap S  BY <2>7
    <3>2. g[p] = 0  BY <1>3, <2>1, <2>7
    <3> HIDE DEF g, R
    <3> QED  BY <1>3, <2>3, <2>4, <2>5, <3>1, <3>2
  <2> QED  BY <2>6, <2>7
<1> QED  BY <1>4, <1>5

\* Two parts count as much as two others if every entry counts as often.
LEMMA SumParts ==
  ASSUME NEW D, IsFiniteSet(D), NEW f \in [D -> Int],
         NEW A \in SUBSET D, NEW B \in SUBSET D, NEW C \in SUBSET D, NEW E \in SUBSET D,
         \A x \in D : (IF x \in A THEN f[x] ELSE 0) + (IF x \in B THEN f[x] ELSE 0)
                      = (IF x \in C THEN f[x] ELSE 0) + (IF x \in E THEN f[x] ELSE 0)
  PROVE  SumFunctionOnSet(f, A) + SumFunctionOnSet(f, B)
         = SumFunctionOnSet(f, C) + SumFunctionOnSet(f, E)
<1> DEFINE P(S) == [x \in D |-> IF x \in S THEN f[x] ELSE 0]
<1>0. ASSUME NEW S \in SUBSET D
      PROVE  /\ P(S) \in [D -> Int]
             /\ SumFunctionOnSet(f, S) = SumFunctionOnSet(P(S), D)
             /\ \A x \in D : P(S)[x] = IF x \in S THEN f[x] ELSE 0
  <2>1. SumFunctionOnSet(f, S) = SumFunctionOnSet(P(S), D)  BY SumPart
  <2> QED  BY <2>1
<1> HIDE DEF P
<1>1. PICK a \in [D -> Int], b \in [D -> Int], c \in [D -> Int], e \in [D -> Int] :
        a = P(A) /\ b = P(B) /\ c = P(C) /\ e = P(E)
  BY <1>0
<1>2. \A x \in D : a[x] + b[x] = c[x] + e[x]  BY <1>0, <1>1
<1>3. /\ SumFunctionOnSet(f, A) = SumFunctionOnSet(a, D)
      /\ SumFunctionOnSet(f, B) = SumFunctionOnSet(b, D)
      /\ SumFunctionOnSet(f, C) = SumFunctionOnSet(c, D)
      /\ SumFunctionOnSet(f, E) = SumFunctionOnSet(e, D)
  BY <1>0, <1>1
<1>4. PICK h \in [D -> Int] : \A x \in D : h[x] = a[x] + b[x]
  <2> DEFINE h == [x \in D |-> a[x] + b[x]]
  <2>1. h \in [D -> Int] /\ \A x \in D : h[x] = a[x] + b[x]  OBVIOUS
  <2> HIDE DEF h
  <2> QED  BY <2>1
<1>5. PICK n \in Int : n = 1  OBVIOUS
<1>6. /\ \A x \in D : h[x] = a[x] + n * b[x]
      /\ \A x \in D : h[x] = c[x] + n * e[x]
  BY <1>2, <1>4, <1>5
<1>7. SumFunctionOnSet(h, D) = SumFunctionOnSet(a, D) + n * SumFunctionOnSet(b, D)
  BY <1>6, SumScaled
<1>8. SumFunctionOnSet(h, D) = SumFunctionOnSet(c, D) + n * SumFunctionOnSet(e, D)
  BY <1>6, SumScaled
<1>9. SumFunctionOnSet(b, D) \in Int /\ SumFunctionOnSet(e, D) \in Int
  BY SumInt
<1> QED  BY <1>3, <1>5, <1>7, <1>8, <1>9

\* No entry of a part is more than the part's sum.
LEMMA SumPartBounds ==
  ASSUME NEW D, NEW f \in [D -> Nat], NEW S \in SUBSET D, IsFiniteSet(S), NEW x \in S
  PROVE  f[x] <= SumFunctionOnSet(f, S)
<1> DEFINE g == [y \in S |-> f[y]]
<1>1. g \in [S -> Nat] /\ \A y \in S : f[y] = g[y]  OBVIOUS
<1> HIDE DEF g
<1>2. SumFunctionOnSet(f, S) = SumFunctionOnSet(g, S)  BY <1>1, SumSame
<1> QED  BY <1>1, <1>2, SumBounds
==============================================================================
