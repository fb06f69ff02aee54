----------------------------- MODULE FiniteSums -----------------------------
(***************************************************************************)
(* The sum of a function over a finite set, and what the ledgers need to   *)
(* know of it: changing one summand changes the sum by the difference.     *)
(* And the extremes of a finite set of integers.                           *)
(*                                                                         *)
(* Induction over finite sets is a smallest counterexample: strict         *)
(* inclusion is well founded on the finite sets.                           *)
(***************************************************************************)
EXTENDS Integers, FiniteSetsExt, FiniteSetTheorems, TLAPS
-----------------------------------------------------------------------------
\* A non-empty family of subsets of a finite set has a smallest member.
LEMMA Smallest ==
  ASSUME NEW S, IsFiniteSet(S), NEW F, F \subseteq SUBSET S, F # {}
  PROVE  \E T \in F : IsFiniteSet(T) /\ \A U \in F : U \subseteq T => U = T
<1>1. IsWellFoundedOn(StrictSubsetOrdering(S), FiniteSubsetsOf(S))
  BY FS_StrictSubsetOrderingWellFounded
<1>2. F \subseteq FiniteSubsetsOf(S)
  BY FS_FiniteSubsetsOfFinite
<1>3. PICK T \in F : \A U \in F : ~ (<<U, T>> \in StrictSubsetOrdering(S))
  BY <1>1, <1>2, WFMin
<1>4. \A U \in F : U \subseteq T => U = T
  BY <1>3 DEF StrictSubsetOrdering
<1>5. IsFiniteSet(T)
  BY FS_Subset
<1> QED
  BY <1>4, <1>5
-----------------------------------------------------------------------------
(* The fold is a function on the subsets of S, defined by recursion.       *)

\* The member taken off first, the recursion over the subsets of S, and the
\* function it defines.
Pick(s) == CHOOSE x \in s : TRUE
Folds(f, S, g) ==
  g = [s \in SUBSET S |-> IF s = {} THEN 0 ELSE f[Pick(s)] + g[s \ {Pick(s)}]]
TheFold(f, S) == CHOOSE g : Folds(f, S, g)

\* The library's sum is that function at S.
LEMMA SumIsFold ==
  ASSUME NEW f, NEW S PROVE SumFunctionOnSet(f, S) = TheFold(f, S)[S]
BY DEF SumFunctionOnSet, FoldFunctionOnSet, MapThenFoldSet, TheFold, Folds, Pick

\* What is taken off is a member.
LEMMA PickIn == ASSUME NEW s, s # {} PROVE Pick(s) \in s
BY DEF Pick

\* Induction over a finite set, the members taken off in the order of the fold.
LEMMA PickInduction ==
  ASSUME NEW S, IsFiniteSet(S), NEW P, {} \in P,
         \A T \in SUBSET S : IsFiniteSet(T) /\ T # {} /\ T \ {Pick(T)} \in P => T \in P
  PROVE  S \in P
<1>1. CASE (SUBSET S) \ P = {}
  BY <1>1
<1>2. CASE (SUBSET S) \ P # {}
  <2>1. PICK T \in (SUBSET S) \ P :
          IsFiniteSet(T) /\ \A U \in (SUBSET S) \ P : U \subseteq T => U = T
    <3> DEFINE F == (SUBSET S) \ P
    <3>1. F \subseteq SUBSET S /\ F # {}
      BY <1>2
    <3> HIDE DEF F
    <3>2. \E T \in F : IsFiniteSet(T) /\ \A U \in F : U \subseteq T => U = T
      BY <3>1, Smallest
    <3> QED
      BY <3>2 DEF F
  <2>2. T # {}
    OBVIOUS
  <2>3. T \ {Pick(T)} \in SUBSET S /\ T \ {Pick(T)} # T
    BY <2>2, PickIn
  <2> QED
    BY <2>1, <2>2, <2>3
<1> QED
  BY <1>1, <1>2

\* The recursion equation, one subset at a time.
LEMMA FoldAt ==
  ASSUME NEW f, NEW S, NEW g, Folds(f, S, g), NEW s \in SUBSET S
  PROVE  g[s] = IF s = {} THEN 0 ELSE f[Pick(s)] + g[s \ {Pick(s)}]
BY DEF Folds

\* The equation has at most one solution.
LEMMA FoldUnique ==
  ASSUME NEW S, IsFiniteSet(S), NEW f, NEW g, NEW h, Folds(f, S, g), Folds(f, S, h)
  PROVE  g = h
<1>1. ASSUME NEW T \in SUBSET S PROVE g[T] = h[T]
  <2> DEFINE P == {s \in SUBSET S : g[s] = h[s]}
  <2>1. {} \in P
    BY FoldAt
  <2>2. ASSUME NEW s \in SUBSET T, s # {}, s \ {Pick(s)} \in P PROVE s \in P
    BY <2>2, FoldAt
  <2>3. T \in P
    <3> HIDE DEF P
    <3> QED
      BY <2>1, <2>2, PickInduction, FS_Subset
  <2> QED
    BY <2>3
<1> QED
  BY <1>1 DEF Folds

\* A solution for a set is one for its subsets.
LEMMA FoldRestricts ==
  ASSUME NEW f, NEW S, NEW g, Folds(f, S, g), NEW T \in SUBSET S
  PROVE  Folds(f, T, [s \in SUBSET T |-> g[s]])
<1> DEFINE h == [s \in SUBSET T |-> g[s]]
<1>1. ASSUME NEW s \in SUBSET T
      PROVE  h[s] = IF s = {} THEN 0 ELSE f[Pick(s)] + h[s \ {Pick(s)}]
  <2>1. s \in SUBSET S /\ s \ {Pick(s)} \in SUBSET T
    OBVIOUS
  <2>2. h[s] = g[s] /\ h[s \ {Pick(s)}] = g[s \ {Pick(s)}]
    BY <2>1
  <2> QED
    BY <2>1, <2>2, FoldAt
<1>2. h = [s \in SUBSET T |-> IF s = {} THEN 0 ELSE f[Pick(s)] + h[s \ {Pick(s)}]]
  BY <1>1
<1> QED
  BY <1>2 DEF Folds

\* The equation has a solution on every finite set: the values at the strict
\* subsets are those of their own folds.
LEMMA FoldExists ==
  ASSUME NEW S, IsFiniteSet(S), NEW f
  PROVE  \E g : Folds(f, S, g)
<1> DEFINE F == {s \in SUBSET S : ~ \E g : Folds(f, s, g)}
<1>1. CASE F = {}
  BY <1>1
<1>2. CASE F # {}
  <2>1. PICK T \in F : IsFiniteSet(T) /\ \A U \in F : U \subseteq T => U = T
    <3> HIDE DEF F
    <3>1. F \subseteq SUBSET S
      BY DEF F
    <3> QED
      BY <1>2, <3>1, Smallest
  <2>2. T \in SUBSET S /\ ~ \E g : Folds(f, T, g)
    BY <2>1
  <2>3. ASSUME NEW s \in SUBSET T, s # T
        PROVE  Folds(f, s, TheFold(f, s))
    <3>1. \E g : Folds(f, s, g)
      BY <2>1, <2>2, <2>3
    <3> QED
      BY <3>1 DEF TheFold
  <2>4. ASSUME NEW s \in SUBSET T, s # T, NEW t \in SUBSET s
        PROVE  TheFold(f, s)[t] = TheFold(f, t)[t]
    <3>1. t \in SUBSET T /\ t # T /\ IsFiniteSet(t)
      BY <2>1, <2>4, FS_Subset
    <3>2. Folds(f, t, [u \in SUBSET t |-> TheFold(f, s)[u]])
      BY <2>3, <2>4, FoldRestricts
    <3>3. [u \in SUBSET t |-> TheFold(f, s)[u]] = TheFold(f, t)
      BY <2>3, <3>1, <3>2, FoldUnique
    <3> QED
      BY <3>3
  <2> DEFINE g == [s \in SUBSET T |->
                     IF s = {} THEN 0
                     ELSE f[Pick(s)] + TheFold(f, s \ {Pick(s)})[s \ {Pick(s)}]]
  <2>5. ASSUME NEW s \in SUBSET T, s # {}
        PROVE  g[s \ {Pick(s)}] = TheFold(f, s \ {Pick(s)})[s \ {Pick(s)}]
    <3> DEFINE r == s \ {Pick(s)}
    <3>1. r \in SUBSET T /\ r # T
      BY <2>5, PickIn
    <3>2. TheFold(f, r)[r] = IF r = {} THEN 0 ELSE f[Pick(r)] + TheFold(f, r)[r \ {Pick(r)}]
      <4>1. Folds(f, r, TheFold(f, r))
        BY <2>3, <3>1
      <4> HIDE DEF r, g
      <4>2. r \in SUBSET r
        OBVIOUS
      <4> QED
        BY <4>1, <4>2, FoldAt
    <3>3. TheFold(f, r)[r \ {Pick(r)}] = TheFold(f, r \ {Pick(r)})[r \ {Pick(r)}]
      BY <2>4, <3>1
    <3>4. g[r] = IF r = {} THEN 0
                 ELSE f[Pick(r)] + TheFold(f, r \ {Pick(r)})[r \ {Pick(r)}]
      BY <3>1
    <3> HIDE DEF g, r
    <3> QED
      BY <3>2, <3>3, <3>4 DEF r
  <2>6. g = [s \in SUBSET T |-> IF s = {} THEN 0 ELSE f[Pick(s)] + g[s \ {Pick(s)}]]
    BY <2>5
  <2>7. Folds(f, T, g)
    <3> HIDE DEF g
    <3> QED
      BY <2>6 DEF Folds
  <2> QED
    BY <2>2, <2>7
<1> QED
  BY <1>1, <1>2

\* Hence the function defined by the recursion satisfies it.
LEMMA TheFoldFolds ==
  ASSUME NEW S, IsFiniteSet(S), NEW f PROVE Folds(f, S, TheFold(f, S))
BY FoldExists DEF TheFold
-----------------------------------------------------------------------------
(* Sums *)

\* The empty sum.
LEMMA SumEmpty == ASSUME NEW f PROVE SumFunctionOnSet(f, {}) = 0
<1>1. Folds(f, {}, TheFold(f, {}))
  BY TheFoldFolds, FS_EmptySet
<1> QED
  BY <1>1, FoldAt, SumIsFold

\* The sum is the summand the fold picks first, and the sum of the others.
LEMMA SumPick ==
  ASSUME NEW S, IsFiniteSet(S), S # {}, NEW f
  PROVE  SumFunctionOnSet(f, S) = f[Pick(S)] + SumFunctionOnSet(f, S \ {Pick(S)})
<1> DEFINE R == S \ {Pick(S)}
<1>1. R \in SUBSET S /\ IsFiniteSet(R)
  BY FS_Subset
<1>2. Folds(f, S, TheFold(f, S)) /\ Folds(f, R, TheFold(f, R))
  BY <1>1, TheFoldFolds
<1>3. [s \in SUBSET R |-> TheFold(f, S)[s]] = TheFold(f, R)
  BY <1>1, <1>2, FoldRestricts, FoldUnique
<1>4. TheFold(f, S)[R] = TheFold(f, R)[R]
  <2> HIDE DEF R
  <2> QED
    BY <1>3
<1>5. TheFold(f, S)[S] = f[Pick(S)] + TheFold(f, S)[R]
  BY <1>2, FoldAt
<1> QED
  BY <1>4, <1>5, SumIsFold

\* A sum of integers is an integer.
LEMMA SumType ==
  ASSUME NEW S, IsFiniteSet(S), NEW f, \A x \in S : f[x] \in Int
  PROVE  SumFunctionOnSet(f, S) \in Int
<1> DEFINE P == {s \in SUBSET S : SumFunctionOnSet(f, s) \in Int}
<1>1. {} \in P
  BY SumEmpty
<1>2. ASSUME NEW T \in SUBSET S, IsFiniteSet(T), T # {}, T \ {Pick(T)} \in P
      PROVE  T \in P
  <2>1. Pick(T) \in S
    BY <1>2, PickIn
  <2>2. SumFunctionOnSet(f, T) = f[Pick(T)] + SumFunctionOnSet(f, T \ {Pick(T)})
    BY <1>2, SumPick
  <2> QED
    BY <1>2, <2>1, <2>2
<1>3. S \in P
  <2> HIDE DEF P
  <2> QED
    BY <1>1, <1>2, PickInduction
<1> QED
  BY <1>3

\* Any summand may be split off.  In a smallest subset where one cannot, it can
\* be split off after the picked one, and the picked one after it.
LEMMA SumRemove ==
  ASSUME NEW S, IsFiniteSet(S), NEW f, \A x \in S : f[x] \in Int, NEW y \in S
  PROVE  SumFunctionOnSet(f, S) = f[y] + SumFunctionOnSet(f, S \ {y})
<1> DEFINE F == {s \in SUBSET S : \E x \in s :
                   SumFunctionOnSet(f, s) # f[x] + SumFunctionOnSet(f, s \ {x})}
<1>1. CASE F = {}
  <2>1. S \in SUBSET S /\ S \notin F
    BY <1>1
  <2> QED
    BY <2>1
<1>2. CASE F # {}
  <2>1. PICK T \in F : IsFiniteSet(T) /\ \A U \in F : U \subseteq T => U = T
    <3> HIDE DEF F
    <3>1. F \subseteq SUBSET S
      BY DEF F
    <3> QED
      BY <1>2, <3>1, Smallest
  <2>2. PICK x \in T : SumFunctionOnSet(f, T) # f[x] + SumFunctionOnSet(f, T \ {x})
    BY <2>1
  <2>3. T \subseteq S
    BY <2>1
  <2>4. PICK p \in T : SumFunctionOnSet(f, T) = f[p] + SumFunctionOnSet(f, T \ {p})
    <3>1. T # {}
      OBVIOUS
    <3> QED
      BY <2>1, <3>1, PickIn, SumPick
  <2>5. p # x
    BY <2>2, <2>4
  <2>6. SumFunctionOnSet(f, T \ {p}) = f[x] + SumFunctionOnSet(f, (T \ {p}) \ {x})
    <3>1. T \ {p} \in SUBSET S /\ T \ {p} # T /\ x \in T \ {p}
      BY <2>3, <2>5
    <3> QED
      BY <2>1, <3>1
  <2>7. SumFunctionOnSet(f, T \ {x}) = f[p] + SumFunctionOnSet(f, (T \ {x}) \ {p})
    <3>1. T \ {x} \in SUBSET S /\ T \ {x} # T /\ p \in T \ {x}
      BY <2>3, <2>5
    <3> QED
      BY <2>1, <3>1
  <2>8. (T \ {p}) \ {x} = (T \ {x}) \ {p}
    OBVIOUS
  <2>9. SumFunctionOnSet(f, (T \ {x}) \ {p}) \in Int
    <3>1. IsFiniteSet((T \ {x}) \ {p})
      BY <2>1, FS_Subset
    <3> QED
      BY <2>3, <3>1, SumType
  <2>10. f[x] \in Int /\ f[p] \in Int
    BY <2>3
  <2> QED
    BY <2>2, <2>4, <2>6, <2>7, <2>8, <2>9, <2>10
<1> QED
  BY <1>1, <1>2

\* Only the values on the set count.
LEMMA SumSame ==
  ASSUME NEW S, IsFiniteSet(S), NEW f, NEW g,
         \A x \in S : f[x] \in Int /\ g[x] = f[x]
  PROVE  SumFunctionOnSet(g, S) = SumFunctionOnSet(f, S)
<1> DEFINE P == {s \in SUBSET S : SumFunctionOnSet(g, s) = SumFunctionOnSet(f, s)}
<1>1. {} \in P
  BY SumEmpty
<1>2. ASSUME NEW T \in SUBSET S, IsFiniteSet(T), T # {}, T \ {Pick(T)} \in P
      PROVE  T \in P
  <2>1. Pick(T) \in S
    BY <1>2, PickIn
  <2>2. /\ SumFunctionOnSet(f, T) = f[Pick(T)] + SumFunctionOnSet(f, T \ {Pick(T)})
        /\ SumFunctionOnSet(g, T) = g[Pick(T)] + SumFunctionOnSet(g, T \ {Pick(T)})
    BY <1>2, SumPick
  <2> QED
    BY <1>2, <2>1, <2>2
<1>3. S \in P
  <2> HIDE DEF P
  <2> QED
    BY <1>1, <1>2, PickInduction
<1> QED
  BY <1>3

\* Changing one summand changes the sum by the difference.
LEMMA SumUpdate ==
  ASSUME NEW S, IsFiniteSet(S), NEW f, NEW g, NEW y \in S,
         \A x \in S : f[x] \in Int, g[y] \in Int,
         \A x \in S \ {y} : g[x] = f[x]
  PROVE  SumFunctionOnSet(g, S) = SumFunctionOnSet(f, S) - f[y] + g[y]
<1>1. IsFiniteSet(S \ {y})
  BY FS_Subset
<1>2. /\ SumFunctionOnSet(g, S \ {y}) = SumFunctionOnSet(f, S \ {y})
      /\ SumFunctionOnSet(f, S \ {y}) \in Int
  BY <1>1, SumSame, SumType
<1>3. SumFunctionOnSet(f, S) = f[y] + SumFunctionOnSet(f, S \ {y})
  BY SumRemove
<1>4. SumFunctionOnSet(g, S) = g[y] + SumFunctionOnSet(g, S \ {y})
  <2>1. \A x \in S : g[x] \in Int
    OBVIOUS
  <2> QED
    BY <2>1, SumRemove
<1> QED
  BY <1>2, <1>3, <1>4

\* Adding to one summand adds to the sum.
LEMMA SumAdded ==
  ASSUME NEW S, IsFiniteSet(S), NEW f, \A s \in S : f[s] \in Int, NEW n \in Int,
         NEW x \in S, NEW g, g[x] = f[x] + n, \A s \in S \ {x} : g[s] = f[s]
  PROVE  SumFunctionOnSet(g, S) = SumFunctionOnSet(f, S) + n
<1>1. f[x] \in Int
  OBVIOUS
<1>2. g[x] \in Int
  BY <1>1
<1>3. IsFiniteSet(S \ {x})
  BY FS_Subset
<1>4. /\ SumFunctionOnSet(g, S \ {x}) = SumFunctionOnSet(f, S \ {x})
      /\ SumFunctionOnSet(f, S \ {x}) \in Int
  BY <1>3, SumSame, SumType
<1>5. SumFunctionOnSet(f, S) = f[x] + SumFunctionOnSet(f, S \ {x})
  BY SumRemove
<1>6. SumFunctionOnSet(g, S) = g[x] + SumFunctionOnSet(g, S \ {x})
  <2>1. \A s \in S : g[s] \in Int
    BY <1>2
  <2> QED
    BY <2>1, SumRemove
<1> QED
  BY <1>1, <1>2, <1>4, <1>5, <1>6

\* A sum of naturals is natural, ...
LEMMA SumNat ==
  ASSUME NEW S, IsFiniteSet(S), NEW f, \A x \in S : f[x] \in Nat
  PROVE  SumFunctionOnSet(f, S) \in Nat
<1> DEFINE P == {s \in SUBSET S : SumFunctionOnSet(f, s) \in Nat}
<1>1. {} \in P
  BY SumEmpty
<1>2. ASSUME NEW T \in SUBSET S, IsFiniteSet(T), T # {}, T \ {Pick(T)} \in P
      PROVE  T \in P
  <2>1. Pick(T) \in S
    BY <1>2, PickIn
  <2>2. SumFunctionOnSet(f, T) = f[Pick(T)] + SumFunctionOnSet(f, T \ {Pick(T)})
    BY <1>2, SumPick
  <2> QED
    BY <1>2, <2>1, <2>2
<1>3. S \in P
  <2> HIDE DEF P
  <2> QED
    BY <1>1, <1>2, PickInduction
<1> QED
  BY <1>3

\* ... and no summand exceeds it.
LEMMA SumBounds ==
  ASSUME NEW S, IsFiniteSet(S), NEW f, \A x \in S : f[x] \in Nat, NEW y \in S
  PROVE  f[y] <= SumFunctionOnSet(f, S)
<1>1. IsFiniteSet(S \ {y})
  BY FS_Subset
<1>2. SumFunctionOnSet(f, S \ {y}) \in Nat
  BY <1>1, SumNat
<1>3. SumFunctionOnSet(f, S) = f[y] + SumFunctionOnSet(f, S \ {y})
  BY SumRemove
<1> QED
  BY <1>2, <1>3

\* Nothing adds up to nothing.
LEMMA SumZero ==
  ASSUME NEW S, IsFiniteSet(S), NEW f, \A x \in S : f[x] = 0
  PROVE  SumFunctionOnSet(f, S) = 0
<1> DEFINE P == {s \in SUBSET S : SumFunctionOnSet(f, s) = 0}
<1>1. {} \in P
  BY SumEmpty
<1>2. ASSUME NEW T \in SUBSET S, IsFiniteSet(T), T # {}, T \ {Pick(T)} \in P
      PROVE  T \in P
  <2>1. Pick(T) \in S
    BY <1>2, PickIn
  <2>2. SumFunctionOnSet(f, T) = f[Pick(T)] + SumFunctionOnSet(f, T \ {Pick(T)})
    BY <1>2, SumPick
  <2> QED
    BY <1>2, <2>1, <2>2
<1>3. S \in P
  <2> HIDE DEF P
  <2> QED
    BY <1>1, <1>2, PickInduction
<1> QED
  BY <1>3

\* A function that is zero but at one point sums to its value there.
LEMMA SumSingle ==
  ASSUME NEW S, IsFiniteSet(S), NEW f, NEW y \in S, f[y] \in Int,
         \A x \in S \ {y} : f[x] = 0
  PROVE  SumFunctionOnSet(f, S) = f[y]
<1>1. IsFiniteSet(S \ {y})
  BY FS_Subset
<1>2. SumFunctionOnSet(f, S \ {y}) = 0
  BY <1>1, SumZero
<1>3. \A x \in S : f[x] \in Int
  OBVIOUS
<1> QED
  BY <1>2, <1>3, SumRemove
-----------------------------------------------------------------------------
(* The extremes of a finite set of integers *)

\* Of subsets given for the members of a finite set one is smallest.
LEMMA SmallestOf ==
  ASSUME NEW S, IsFiniteSet(S), S # {}, NEW from, \A x \in S : from[x] \subseteq S
  PROVE  \E x \in S : \A y \in S : from[y] \subseteq from[x] => from[y] = from[x]
<1>1. PICK F : F = {from[x] : x \in S}
  OBVIOUS
<1>2. F \subseteq SUBSET S /\ F # {}
  BY <1>1
<1>3. PICK T \in F : IsFiniteSet(T) /\ \A U \in F : U \subseteq T => U = T
  BY <1>2, Smallest
<1>4. PICK x \in S : T = from[x]
  BY <1>1
<1> QED
  BY <1>1, <1>3, <1>4

\* A non-empty finite set of integers has a greatest member: the one from which on
\* there are the fewest.
LEMMA MaxIs ==
  ASSUME NEW S, IsFiniteSet(S), S # {}
  PROVE  S \subseteq Int => Max(S) \in S /\ \A y \in S : y <= Max(S)
<1>1. PICK from : from = [x \in S |-> {y \in S : x <= y}]
  OBVIOUS
<1>2. \A x \in S : from[x] = {y \in S : x <= y}
  BY <1>1
<1>3. \A x \in S : from[x] \subseteq S
  BY <1>2
<1>4. PICK x \in S : \A y \in S : from[y] \subseteq from[x] => from[y] = from[x]
  BY <1>3, SmallestOf
<1> SUFFICES ASSUME S \subseteq Int PROVE Max(S) \in S /\ \A y \in S : y <= Max(S)
  OBVIOUS
<1>5. ASSUME NEW y \in S, ~ y <= x PROVE FALSE
  <2>1. x \in Int /\ y \in Int
    OBVIOUS
  <2>2. ASSUME NEW z \in S, y <= z PROVE x <= z
    <3>1. z \in Int
      OBVIOUS
    <3> QED
      BY <1>5, <2>1, <2>2, <3>1
  <2>3. from[y] \subseteq from[x]
    BY <1>2, <2>2
  <2>4. from[y] = from[x]
    BY <1>4, <2>3
  <2>5. x \in from[x] /\ x \notin from[y]
    BY <1>2, <1>5, <2>1
  <2> QED
    BY <2>4, <2>5
<1>6. \A y \in S : x >= y
  BY <1>5
<1>7. \E z \in S : \A y \in S : z >= y
  BY <1>6
<1>8. Max(S) \in S /\ \A y \in S : Max(S) >= y
  BY <1>7 DEF Max
<1> QED
  BY <1>8

\* A non-empty finite set of integers has a least member: the one up to which
\* there are the fewest.
LEMMA MinIs ==
  ASSUME NEW S, IsFiniteSet(S), S # {}
  PROVE  S \subseteq Int => Min(S) \in S /\ \A y \in S : Min(S) <= y
<1>1. PICK upto : upto = [x \in S |-> {y \in S : y <= x}]
  OBVIOUS
<1>2. \A x \in S : upto[x] = {y \in S : y <= x}
  BY <1>1
<1>3. \A x \in S : upto[x] \subseteq S
  BY <1>2
<1>4. PICK x \in S : \A y \in S : upto[y] \subseteq upto[x] => upto[y] = upto[x]
  BY <1>3, SmallestOf
<1> SUFFICES ASSUME S \subseteq Int PROVE Min(S) \in S /\ \A y \in S : Min(S) <= y
  OBVIOUS
<1>5. ASSUME NEW y \in S, ~ x <= y PROVE FALSE
  <2>1. x \in Int /\ y \in Int
    OBVIOUS
  <2>2. ASSUME NEW z \in S, z <= y PROVE z <= x
    <3>1. z \in Int
      OBVIOUS
    <3> QED
      BY <1>5, <2>1, <2>2, <3>1
  <2>3. upto[y] \subseteq upto[x]
    BY <1>2, <2>2
  <2>4. upto[y] = upto[x]
    BY <1>4, <2>3
  <2>5. x \in upto[x] /\ x \notin upto[y]
    BY <1>2, <1>5, <2>1
  <2> QED
    BY <2>4, <2>5
<1>6. \E z \in S : \A y \in S : z <= y
  BY <1>5
<1> QED
  BY <1>6 DEF Min
=============================================================================
