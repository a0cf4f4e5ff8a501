----------------------------- MODULE SumTheorems -----------------------------
(***************************************************************************)
(* What SumFunctionOnSet(f, S), the sum of f[x] over the members x of a    *)
(* finite set S, does when S or f changes.  The library defines it by      *)
(* recursion on a chosen element; these lemmas hide the choice.            *)
(***************************************************************************)
EXTENDS Integers, FiniteSetsExt, FiniteSetTheorems, WellFoundedInduction, TLAPS

Sum(f, S) == SumFunctionOnSet(f, S)

IntOn(f, S) == \A x \in S : f[x] \in Int

-----------------------------------------------------------------------------
(* Induction over the subsets of a finite set, for a set P of them.        *)

\* If P has every subset of S all of whose proper subsets P has, it has S.
LEMMA SubsetInduction ==
  ASSUME NEW S, IsFiniteSet(S), NEW P,
         \A s \in SUBSET S : (\A u \in SUBSET s : u # s => u \in P) => s \in P
  PROVE  S \in P
<1> SUFFICES ASSUME S \notin P PROVE FALSE
  OBVIOUS
<1> DEFINE bad == { s \in SUBSET S : s \notin P }
<1>1. IsWellFoundedOn(StrictSubsetOrdering(S), FiniteSubsetsOf(S))
  BY FS_StrictSubsetOrderingWellFounded
<1>2. bad \subseteq FiniteSubsetsOf(S)
  BY FS_Subset DEF FiniteSubsetsOf
<1>3. bad # {}
  OBVIOUS
<1>4. PICK s \in bad : \A u \in bad : ~ (<<u, s>> \in StrictSubsetOrdering(S))
  <2> HIDE DEF bad
  <2> QED BY <1>1, <1>2, <1>3, WFMin
<1>5. ASSUME NEW u \in SUBSET s, u # s PROVE u \in P
  <2>1. u \in SUBSET S
    BY <1>4
  <2>2. <<u, s>> \in StrictSubsetOrdering(S)
    BY <1>4, <1>5, <2>1 DEF StrictSubsetOrdering
  <2> QED BY <1>4, <2>1, <2>2
<1> QED BY <1>4, <1>5

\* If P has the empty set and, with a subset of S, every one with an element
\* more, it has S.
LEMMA ElementInduction ==
  ASSUME NEW S, IsFiniteSet(S), NEW P,
         {} \in P,
         \A s \in SUBSET S : \A x \in s : s \ {x} \in P => s \in P
  PROVE  S \in P
<1>1. ASSUME NEW s \in SUBSET S, \A u \in SUBSET s : u # s => u \in P
      PROVE  s \in P
  <2>1. CASE s = {}
    BY <2>1
  <2>2. CASE s # {}
    <3>1. PICK x \in s : TRUE
      BY <2>2
    <3>2. s \ {x} \in SUBSET s /\ s \ {x} # s
      BY <3>1
    <3> QED BY <1>1, <3>1, <3>2
  <2> QED BY <2>1, <2>2
<1> QED BY <1>1, SubsetInduction

-----------------------------------------------------------------------------
(* The recursion behind the sum.                                           *)

Pick(s) == CHOOSE x \in s : TRUE

IsIter(it, f, S) ==
  it = [s \in SUBSET S |-> IF s = {} THEN 0
                           ELSE LET x == CHOOSE x \in s : TRUE IN f[x] + it[s \ {x}]]

\* An iteration takes one value on the empty set and recurs on the others.
LEMMA IterEquation ==
  ASSUME NEW it, NEW f, NEW S, IsIter(it, f, S)
  PROVE  /\ it[{}] = 0
         /\ \A s \in SUBSET S : s # {} => /\ Pick(s) \in s
                                          /\ it[s] = f[Pick(s)] + it[s \ {Pick(s)}]
<1>1. it[{}] = 0
  BY DEF IsIter
<1>2. ASSUME NEW s \in SUBSET S, s # {}
      PROVE  Pick(s) \in s /\ it[s] = f[Pick(s)] + it[s \ {Pick(s)}]
  <2>1. Pick(s) \in s
    BY <1>2 DEF Pick
  <2>2. it[s] = f[Pick(s)] + it[s \ {Pick(s)}]
    BY <1>2 DEF IsIter, Pick
  <2> QED BY <2>1, <2>2
<1> QED BY <1>1, <1>2

\* The library's sum is what its iteration says of the whole set.
LEMMA SumIsIter == \A f, S : Sum(f, S) = (CHOOSE it : IsIter(it, f, S))[S]
BY DEF Sum, SumFunctionOnSet, FoldFunctionOnSet, MapThenFoldSet, IsIter

\* Two iterations agree on every set both are defined on.
LEMMA IterUnique ==
  ASSUME NEW f, NEW S, IsFiniteSet(S), NEW T, NEW R, S \subseteq T, S \subseteq R,
         NEW it, IsIter(it, f, T), NEW jt, IsIter(jt, f, R)
  PROVE  it[S] = jt[S]
<1> DEFINE P == { s \in SUBSET S : it[s] = jt[s] }
<1>1. ASSUME NEW s \in SUBSET S, \A u \in SUBSET s : u # s => u \in P
      PROVE  it[s] = jt[s]
  <2>1. CASE s = {}
    BY <2>1, IterEquation
  <2>2. CASE s # {}
    <3>1. s \in SUBSET T /\ s \in SUBSET R
      OBVIOUS
    <3>2. Pick(s) \in s /\ it[s] = f[Pick(s)] + it[s \ {Pick(s)}]
      BY <2>2, <3>1, IterEquation
    <3>3. jt[s] = f[Pick(s)] + jt[s \ {Pick(s)}]
      BY <2>2, <3>1, IterEquation
    <3>4. s \ {Pick(s)} \in P
      BY <1>1, <3>2
    <3> QED BY <3>2, <3>3, <3>4
  <2> QED BY <2>1, <2>2
<1>2. S \in P
  <2>1. \A s \in SUBSET S : (\A u \in SUBSET s : u # s => u \in P) => s \in P
    BY <1>1
  <2> HIDE DEF P
  <2> QED BY <2>1, SubsetInduction
<1> QED BY <1>2

\* Where iterations exist, the sum recurs on a chosen element.
LEMMA SumRecursIfIter ==
  ASSUME NEW f, NEW S, IsFiniteSet(S), S # {},
         \E it : IsIter(it, f, S), \E it : IsIter(it, f, S \ {Pick(S)})
  PROVE  Pick(S) \in S /\ Sum(f, S) = f[Pick(S)] + Sum(f, S \ {Pick(S)})
<1> DEFINE R == S \ {Pick(S)}
           it == CHOOSE j : IsIter(j, f, S)
           jt == CHOOSE j : IsIter(j, f, R)
<1>1. IsIter(it, f, S) /\ IsIter(jt, f, R)
  OBVIOUS
<1>2. Sum(f, S) = it[S] /\ Sum(f, R) = jt[R]
  BY SumIsIter
<1> HIDE DEF it, jt
<1>3. Pick(S) \in S /\ it[S] = f[Pick(S)] + it[R]
  BY <1>1, IterEquation
<1>4. R \subseteq S /\ R \subseteq R /\ IsFiniteSet(R)
  BY FS_RemoveElement
<1>5. it[R] = jt[R]
  <2> HIDE DEF R
  <2>1. ASSUME NEW i, IsIter(i, f, S), NEW j, IsIter(j, f, R)
        PROVE  i[R] = j[R]
    BY <1>4, <2>1, IterUnique
  <2> QED BY <1>1, <2>1
<1> QED BY <1>2, <1>3, <1>5

\* A finite set has an iteration.
LEMMA IterExists ==
  ASSUME NEW f, NEW S, IsFiniteSet(S)
  PROVE  \E it : IsIter(it, f, S)
<1> DEFINE P == { s \in SUBSET S : \E it : IsIter(it, f, s) }
<1>1. ASSUME NEW s \in SUBSET S, \A u \in SUBSET s : u # s => u \in P
      PROVE  s \in P
  <2> DEFINE h == [u \in SUBSET s |-> IF u = {} THEN 0
                   ELSE LET x == CHOOSE x \in u : TRUE IN f[x] + Sum(f, u \ {x})]
  <2>1. ASSUME NEW w \in SUBSET s, w # s
        PROVE  h[w] = Sum(f, w)
    <3>1. CASE w = {}
      <4>1. \E it : IsIter(it, f, {})
        BY <1>1, <2>1, <3>1
      <4>2. Sum(f, {}) = (CHOOSE it : IsIter(it, f, {}))[{}]
        BY SumIsIter
      <4>3. Sum(f, {}) = 0
        BY <4>1, <4>2, IterEquation
      <4> QED BY <3>1, <4>3
    <3>2. CASE w # {}
      <4>1. Pick(w) \in w
        BY <3>2 DEF Pick
      <4>2. w \ {Pick(w)} \in SUBSET s /\ w \ {Pick(w)} # s
        BY <2>1, <4>1
      <4>3. IsFiniteSet(w)
        <5>1. w \in SUBSET S
          OBVIOUS
        <5> QED BY <5>1, FS_Subset
      <4>4. Sum(f, w) = f[Pick(w)] + Sum(f, w \ {Pick(w)})
        BY <1>1, <2>1, <3>2, <4>2, <4>3, SumRecursIfIter
      <4>5. h[w] = f[Pick(w)] + Sum(f, w \ {Pick(w)})
        BY <3>2 DEF Pick
      <4> QED BY <4>4, <4>5
    <3> QED BY <3>1, <3>2
  <2>2. ASSUME NEW u \in SUBSET s, u # {}
        PROVE  f[Pick(u)] + Sum(f, u \ {Pick(u)}) = f[Pick(u)] + h[u \ {Pick(u)}]
    <3>1. Pick(u) \in u
      BY <2>2 DEF Pick
    <3>2. u \ {Pick(u)} \in SUBSET s /\ u \ {Pick(u)} # s
      BY <3>1
    <3> HIDE DEF h
    <3> QED BY <2>1, <3>2
  <2>3. h = [u \in SUBSET s |-> IF u = {} THEN 0
             ELSE LET x == CHOOSE x \in u : TRUE IN f[x] + h[u \ {x}]]
    <3>1. \A u \in SUBSET s :
            h[u] = IF u = {} THEN 0 ELSE f[Pick(u)] + Sum(f, u \ {Pick(u)})
      BY DEF Pick
    <3>2. h = [u \in SUBSET s |-> h[u]]
      OBVIOUS
    <3> HIDE DEF h
    <3>3. \A u \in SUBSET s : h[u] = IF u = {} THEN 0 ELSE f[Pick(u)] + h[u \ {Pick(u)}]
      BY <2>2, <3>1
    <3> QED BY <3>2, <3>3 DEF Pick
  <2>4. IsIter(h, f, s)
    <3> HIDE DEF h
    <3> QED BY <2>3 DEF IsIter
  <2> QED BY <2>4
<1>2. S \in P
  <2> HIDE DEF P
  <2> QED BY <1>1, SubsetInduction
<1> QED BY <1>2

-----------------------------------------------------------------------------
(* The sum.                                                                *)

\* Nothing sums to zero.
LEMMA SumEmpty == \A f : Sum(f, {}) = 0
<1> TAKE f
<1>1. \E it : IsIter(it, f, {})
  BY IterExists, FS_EmptySet
<1>2. Sum(f, {}) = (CHOOSE it : IsIter(it, f, {}))[{}]
  BY SumIsIter
<1> QED BY <1>1, <1>2, IterEquation

\* The sum recurs on a chosen element.
LEMMA SumRecurs ==
  ASSUME NEW f, NEW S, IsFiniteSet(S), S # {}
  PROVE  Pick(S) \in S /\ Sum(f, S) = f[Pick(S)] + Sum(f, S \ {Pick(S)})
<1>1. IsFiniteSet(S \ {Pick(S)})
  BY FS_RemoveElement
<1> QED BY <1>1, IterExists, SumRecursIfIter

\* A sum of integers is an integer.
LEMMA SumType ==
  ASSUME NEW f, NEW S, IsFiniteSet(S), IntOn(f, S)
  PROVE  Sum(f, S) \in Int
<1> DEFINE P == { s \in SUBSET S : Sum(f, s) \in Int }
<1>1. ASSUME NEW s \in SUBSET S, \A u \in SUBSET s : u # s => u \in P
      PROVE  Sum(f, s) \in Int
  <2>1. CASE s = {}
    BY <2>1, SumEmpty
  <2>2. CASE s # {}
    <3>1. IsFiniteSet(s)
      BY FS_Subset
    <3>2. Pick(s) \in s /\ Sum(f, s) = f[Pick(s)] + Sum(f, s \ {Pick(s)})
      BY <2>2, <3>1, SumRecurs
    <3>3. s \ {Pick(s)} \in P
      BY <1>1, <3>2
    <3>4. f[Pick(s)] \in Int /\ Sum(f, s \ {Pick(s)}) \in Int
      BY <3>2, <3>3 DEF IntOn
    <3> QED BY <3>2, <3>4
  <2> QED BY <2>1, <2>2
<1>2. S \in P
  <2>1. \A s \in SUBSET S : (\A u \in SUBSET s : u # s => u \in P) => s \in P
    BY <1>1
  <2> HIDE DEF P
  <2> QED BY <2>1, SubsetInduction
<1> QED BY <1>2

\* Any element may be taken out of a sum, whichever the recursion chooses.
LEMMA SumRemove ==
  ASSUME NEW f, NEW S, IsFiniteSet(S), IntOn(f, S), NEW x \in S
  PROVE  Sum(f, S) = f[x] + Sum(f, S \ {x})
<1> DEFINE P == { s \in SUBSET S : \A y \in s : Sum(f, s) = f[y] + Sum(f, s \ {y}) }
<1>1. ASSUME NEW s \in SUBSET S, \A u \in SUBSET s : u # s => u \in P, NEW y \in s
      PROVE  Sum(f, s) = f[y] + Sum(f, s \ {y})
  <2> DEFINE p == Pick(s)
  <2>1. IsFiniteSet(s)
    BY FS_Subset
  <2>2. p \in s /\ Sum(f, s) = f[p] + Sum(f, s \ {p})
    BY <2>1, SumRecurs
  <2> HIDE DEF p
  <2>3. CASE y = p
    BY <2>2, <2>3
  <2>4. CASE y # p
    <3> DEFINE r == (s \ {p}) \ {y}
    <3>1. s \ {p} \in P /\ s \ {y} \in P
      BY <1>1, <2>2
    <3>2. Sum(f, s \ {p}) = f[y] + Sum(f, r)
      BY <2>4, <3>1
    <3>3. (s \ {y}) \ {p} = r
      OBVIOUS
    <3>4. p \in s \ {y}
      BY <2>2, <2>4
    <3>5. Sum(f, s \ {y}) = f[p] + Sum(f, (s \ {y}) \ {p})
      BY <3>1, <3>4
    <3>6. f[p] \in Int /\ f[y] \in Int
      BY <2>2 DEF IntOn
    <3>7. IsFiniteSet(r) /\ IntOn(f, r)
      BY FS_Subset DEF IntOn
    <3>8. Sum(f, r) \in Int
      BY <3>7, SumType
    <3>9. Sum(f, s \ {y}) = f[p] + Sum(f, r)
      BY <3>3, <3>5
    <3>10. Sum(f, s) = f[p] + (f[y] + Sum(f, r))
      BY <2>2, <3>2
    <3> HIDE DEF r
    <3>11. f[p] + (f[y] + Sum(f, r)) = f[y] + (f[p] + Sum(f, r))
      BY <3>6, <3>8
    <3> QED BY <3>9, <3>10, <3>11
  <2> QED BY <2>3, <2>4
<1>2. S \in P
  <2>1. \A s \in SUBSET S : (\A u \in SUBSET s : u # s => u \in P) => s \in P
    BY <1>1
  <2> HIDE DEF P
  <2> QED BY <2>1, SubsetInduction
<1> QED BY <1>2

\* A new element adds its value.
LEMMA SumAdd ==
  ASSUME NEW f, NEW S, IsFiniteSet(S), NEW x, x \notin S, IntOn(f, S \cup {x})
  PROVE  Sum(f, S \cup {x}) = Sum(f, S) + f[x]
<1>1. IsFiniteSet(S \cup {x})
  BY FS_AddElement
<1>2. (S \cup {x}) \ {x} = S
  OBVIOUS
<1>3. Sum(f, S \cup {x}) = f[x] + Sum(f, S)
  BY <1>1, <1>2, SumRemove
<1>4. f[x] \in Int /\ Sum(f, S) \in Int
  BY SumType DEF IntOn
<1> QED BY <1>3, <1>4

\* A sum depends on the values on S only.
LEMMA SumAgree ==
  ASSUME NEW f, NEW g, NEW S, IsFiniteSet(S), \A x \in S : f[x] = g[x]
  PROVE  Sum(f, S) = Sum(g, S)
<1> DEFINE P == { s \in SUBSET S : Sum(f, s) = Sum(g, s) }
<1>1. ASSUME NEW s \in SUBSET S, \A u \in SUBSET s : u # s => u \in P
      PROVE  Sum(f, s) = Sum(g, s)
  <2>1. CASE s = {}
    BY <2>1, SumEmpty
  <2>2. CASE s # {}
    <3>1. IsFiniteSet(s)
      BY FS_Subset
    <3>2. /\ Pick(s) \in s
          /\ Sum(f, s) = f[Pick(s)] + Sum(f, s \ {Pick(s)})
          /\ Sum(g, s) = g[Pick(s)] + Sum(g, s \ {Pick(s)})
      BY <2>2, <3>1, SumRecurs
    <3>3. s \ {Pick(s)} \in P
      BY <1>1, <3>2
    <3>4. f[Pick(s)] = g[Pick(s)]
      BY <3>2
    <3> QED BY <3>2, <3>3, <3>4
  <2> QED BY <2>1, <2>2
<1>2. S \in P
  <2>1. \A s \in SUBSET S : (\A u \in SUBSET s : u # s => u \in P) => s \in P
    BY <1>1
  <2> HIDE DEF P
  <2> QED BY <2>1, SubsetInduction
<1> QED BY <1>2

\* Sums over disjoint sets add up.
LEMMA SumUnion ==
  ASSUME NEW f, NEW S, NEW T, IsFiniteSet(S), IsFiniteSet(T), S \cap T = {},
         IntOn(f, S \cup T)
  PROVE  Sum(f, S \cup T) = Sum(f, S) + Sum(f, T)
<1> DEFINE P == { s \in SUBSET S : Sum(f, s \cup T) = Sum(f, s) + Sum(f, T) }
<1>1. Sum(f, T) \in Int
  BY SumType DEF IntOn
<1>2. {} \in P
  <2>1. {} \cup T = T
    OBVIOUS
  <2> QED BY <1>1, <2>1, SumEmpty
<1>3. ASSUME NEW s \in SUBSET S, NEW x \in s, s \ {x} \in P
      PROVE  s \in P
  <2>1. IsFiniteSet(s)
    BY FS_Subset
  <2>2. IsFiniteSet(s \cup T)
    BY <2>1, FS_Union
  <2>3. IntOn(f, s) /\ IntOn(f, s \cup T) /\ IntOn(f, s \ {x}) /\ f[x] \in Int
    BY DEF IntOn
  <2>4. Sum(f, s) = f[x] + Sum(f, s \ {x})
    BY <2>1, <2>3, SumRemove
  <2>5. Sum(f, s \cup T) = f[x] + Sum(f, (s \cup T) \ {x})
    BY <2>2, <2>3, SumRemove
  <2>6. (s \cup T) \ {x} = (s \ {x}) \cup T
    BY <1>3
  <2>7. Sum(f, (s \ {x}) \cup T) = Sum(f, s \ {x}) + Sum(f, T)
    BY <1>3
  <2>8. Sum(f, s \ {x}) \in Int
    BY <2>1, <2>3, FS_RemoveElement, SumType
  <2>9. Sum(f, s \cup T) = f[x] + (Sum(f, s \ {x}) + Sum(f, T))
    BY <2>5, <2>6, <2>7
  <2>10. Sum(f, s \cup T) = Sum(f, s) + Sum(f, T)
    BY <1>1, <2>3, <2>4, <2>8, <2>9
  <2> QED BY <2>10
<1>4. S \in P
  <2> HIDE DEF P
  <2> QED BY <1>2, <1>3, ElementInduction
<1> QED BY <1>4

\* Changing the value of one element changes the sum by as much.
LEMMA SumUpdate ==
  ASSUME NEW f, NEW g, NEW S, IsFiniteSet(S), IntOn(f, S), IntOn(g, S),
         NEW x \in S, \A y \in S \ {x} : g[y] = f[y]
  PROVE  Sum(g, S) = Sum(f, S) - f[x] + g[x]
<1>1. Sum(f, S) = f[x] + Sum(f, S \ {x}) /\ Sum(g, S) = g[x] + Sum(g, S \ {x})
  BY SumRemove
<1>2. IsFiniteSet(S \ {x})
  BY FS_RemoveElement
<1>3. Sum(g, S \ {x}) = Sum(f, S \ {x})
  BY <1>2, SumAgree
<1>4. Sum(f, S \ {x}) \in Int
  BY <1>2, SumType DEF IntOn
<1>5. f[x] \in Int /\ g[x] \in Int
  BY DEF IntOn
<1> QED BY <1>1, <1>3, <1>4, <1>5

\* A sum of larger values is larger.
LEMMA SumMonotone ==
  ASSUME NEW f, NEW g, NEW S, IsFiniteSet(S), IntOn(f, S), IntOn(g, S),
         \A x \in S : f[x] <= g[x]
  PROVE  Sum(f, S) <= Sum(g, S)
<1> DEFINE P == { s \in SUBSET S : Sum(f, s) <= Sum(g, s) }
<1>1. {} \in P
  BY SumEmpty
<1>2. ASSUME NEW s \in SUBSET S, NEW x \in s, s \ {x} \in P
      PROVE  s \in P
  <2>1. IsFiniteSet(s) /\ IsFiniteSet(s \ {x})
    BY FS_Subset
  <2>2. IntOn(f, s) /\ IntOn(g, s) /\ IntOn(f, s \ {x}) /\ IntOn(g, s \ {x})
    BY DEF IntOn
  <2>3. Sum(f, s) = f[x] + Sum(f, s \ {x}) /\ Sum(g, s) = g[x] + Sum(g, s \ {x})
    BY <2>1, <2>2, SumRemove
  <2>4. Sum(f, s \ {x}) \in Int /\ Sum(g, s \ {x}) \in Int
    BY <2>1, <2>2, SumType
  <2>5. f[x] \in Int /\ g[x] \in Int /\ f[x] <= g[x]
    BY DEF IntOn
  <2>6. Sum(f, s \ {x}) <= Sum(g, s \ {x})
    BY <1>2
  <2> HIDE DEF P
  <2>7. Sum(f, s) <= Sum(g, s)
    BY <2>3, <2>4, <2>5, <2>6
  <2> QED BY <2>7 DEF P
<1>3. S \in P
  <2> HIDE DEF P
  <2> QED BY <1>1, <1>2, ElementInduction
<1> QED BY <1>3

\* A sum of natural numbers is a natural number.
LEMMA SumNat ==
  ASSUME NEW f, NEW S, IsFiniteSet(S), \A x \in S : f[x] \in Nat
  PROVE  Sum(f, S) \in Nat
<1> DEFINE zero == [x \in S |-> 0]
           P == { s \in SUBSET S : Sum(f, s) \in Nat }
<1>1. {} \in P
  BY SumEmpty
<1>2. ASSUME NEW s \in SUBSET S, NEW x \in s, s \ {x} \in P
      PROVE  s \in P
  <2>1. IsFiniteSet(s)
    BY FS_Subset
  <2>2. IntOn(f, s)
    BY DEF IntOn
  <2>3. Sum(f, s) = f[x] + Sum(f, s \ {x})
    BY <2>1, <2>2, SumRemove
  <2>4. f[x] \in Nat /\ Sum(f, s \ {x}) \in Nat
    BY <1>2
  <2>5. Sum(f, s) \in Nat
    BY <2>3, <2>4
  <2> QED BY <2>5
<1>3. S \in P
  <2> HIDE DEF P
  <2> QED BY <1>1, <1>2, ElementInduction
<1> QED BY <1>3

\* One element is at most the sum of natural numbers it is part of.
LEMMA SumBound ==
  ASSUME NEW f, NEW S, IsFiniteSet(S), \A x \in S : f[x] \in Nat, NEW x \in S
  PROVE  f[x] <= Sum(f, S)
<1>1. IntOn(f, S) /\ IsFiniteSet(S \ {x})
  BY FS_RemoveElement DEF IntOn
<1>2. Sum(f, S) = f[x] + Sum(f, S \ {x})
  BY <1>1, SumRemove
<1>3. Sum(f, S \ {x}) \in Nat
  BY <1>1, SumNat
<1> QED BY <1>2, <1>3

\* The sum of a sum of two functions.
LEMMA SumPlus ==
  ASSUME NEW f, NEW g, NEW h, NEW S, IsFiniteSet(S), IntOn(f, S), IntOn(g, S),
         \A x \in S : h[x] = f[x] + g[x]
  PROVE  Sum(h, S) = Sum(f, S) + Sum(g, S)
<1> DEFINE P == { s \in SUBSET S : Sum(h, s) = Sum(f, s) + Sum(g, s) }
<1>1. {} \in P
  BY SumEmpty
<1>2. ASSUME NEW s \in SUBSET S, NEW x \in s, s \ {x} \in P
      PROVE  s \in P
  <2> DEFINE r == s \ {x}
  <2>1. IsFiniteSet(s) /\ IsFiniteSet(r)
    BY FS_Subset
  <2>2. IntOn(f, s) /\ IntOn(g, s) /\ IntOn(h, s) /\ IntOn(f, r) /\ IntOn(g, r)
    BY DEF IntOn
  <2>3. /\ Sum(f, s) = f[x] + Sum(f, r) /\ Sum(g, s) = g[x] + Sum(g, r)
        /\ Sum(h, s) = h[x] + Sum(h, r)
    BY <2>1, <2>2, SumRemove
  <2>4. Sum(f, r) \in Int /\ Sum(g, r) \in Int
    BY <2>1, <2>2, SumType
  <2>5. f[x] \in Int /\ g[x] \in Int /\ h[x] = f[x] + g[x]
    BY DEF IntOn
  <2>6. Sum(h, r) = Sum(f, r) + Sum(g, r)
    BY <1>2
  <2> HIDE DEF P, r
  <2>7. Sum(h, s) = Sum(f, s) + Sum(g, s)
    BY <2>3, <2>4, <2>5, <2>6
  <2> QED BY <2>7 DEF P
<1>3. S \in P
  <2> HIDE DEF P
  <2> QED BY <1>1, <1>2, ElementInduction
<1> QED BY <1>3

\* A common factor may be taken out of a sum.
LEMMA SumScale ==
  ASSUME NEW f, NEW g, NEW c \in Int, NEW S, IsFiniteSet(S), IntOn(f, S),
         \A x \in S : g[x] = f[x] * c
  PROVE  Sum(g, S) = Sum(f, S) * c
<1> DEFINE P == { s \in SUBSET S : Sum(g, s) = Sum(f, s) * c }
<1>1. {} \in P
  BY SumEmpty
<1>2. ASSUME NEW s \in SUBSET S, NEW x \in s, s \ {x} \in P
      PROVE  s \in P
  <2> DEFINE r == s \ {x}
  <2>1. IsFiniteSet(s) /\ IsFiniteSet(r)
    BY FS_Subset
  <2>2. IntOn(f, s) /\ IntOn(g, s) /\ IntOn(f, r)
    BY DEF IntOn
  <2>3. Sum(f, s) = f[x] + Sum(f, r) /\ Sum(g, s) = g[x] + Sum(g, r)
    BY <2>1, <2>2, SumRemove
  <2>4. Sum(f, r) \in Int
    BY <2>1, <2>2, SumType
  <2>5. f[x] \in Int /\ g[x] = f[x] * c
    BY DEF IntOn
  <2>6. Sum(g, r) = Sum(f, r) * c
    BY <1>2
  <2> HIDE DEF P, r
  <2>7. (f[x] + Sum(f, r)) * c = f[x] * c + Sum(f, r) * c
    BY <2>4, <2>5
  <2>8. Sum(g, s) = Sum(f, s) * c
    BY <2>3, <2>5, <2>6, <2>7
  <2> QED BY <2>8 DEF P
<1>3. S \in P
  <2> HIDE DEF P
  <2> QED BY <1>1, <1>2, ElementInduction
<1> QED BY <1>3

\* Renaming what is summed over, one to one.
LEMMA SumRename ==
  ASSUME NEW f, NEW g, NEW S, IsFiniteSet(S), IntOn(f, S), NEW h,
         \A x, y \in S : h[x] = h[y] => x = y,
         \A x \in S : g[h[x]] = f[x]
  PROVE  Sum(g, {h[x] : x \in S}) = Sum(f, S)
<1> DEFINE Image(s) == {h[x] : x \in s}
           P == { s \in SUBSET S : IsFiniteSet(Image(s)) /\ Sum(g, Image(s)) = Sum(f, s) }
<1>1. {} \in P
  <2>1. Image({}) = {}
    OBVIOUS
  <2> QED BY <2>1, SumEmpty, FS_EmptySet
<1>2. ASSUME NEW s \in SUBSET S, NEW x \in s, s \ {x} \in P
      PROVE  s \in P
  <2>1. IsFiniteSet(s) /\ IsFiniteSet(s \ {x})
    BY FS_Subset
  <2>2. IntOn(f, s)
    BY DEF IntOn
  <2>3. Sum(f, s) = f[x] + Sum(f, s \ {x})
    BY <2>1, <2>2, SumRemove
  <2> DEFINE T == Image(s \ {x})
  <2>4. Image(s) = T \cup {h[x]} /\ h[x] \notin T
    OBVIOUS
  <2>5. IsFiniteSet(T) /\ Sum(g, T) = Sum(f, s \ {x})
    BY <1>2
  <2>6. IntOn(g, T \cup {h[x]}) /\ g[h[x]] = f[x]
    BY <2>2 DEF IntOn
  <2> HIDE DEF T
  <2>7. IsFiniteSet(T \cup {h[x]})
    BY <2>5, FS_AddElement
  <2>8. Sum(g, T \cup {h[x]}) = Sum(g, T) + g[h[x]]
    BY <2>4, <2>5, <2>6, SumAdd
  <2>9. Sum(f, s \ {x}) \in Int /\ f[x] \in Int
    BY <2>1, <2>2, SumType DEF IntOn
  <2>10. Sum(g, T \cup {h[x]}) = Sum(f, s)
    BY <2>3, <2>5, <2>6, <2>8, <2>9
  <2> QED BY <2>4, <2>7, <2>10
<1>3. S \in P
  <2> HIDE DEF P
  <2> QED BY <1>1, <1>2, ElementInduction
<1> QED BY <1>3

-----------------------------------------------------------------------------
(* Numbers and recursive functions.                                        *)

\* Induction up to n, for a set P of numbers.
LEMMA CountUp ==
  ASSUME NEW n \in Nat, NEW P, 0 \in P, \A k \in 1..n : k - 1 \in P => k \in P
  PROVE  0..n \subseteq P
<1>1. ASSUME NEW m \in 0..n PROVE m \in P
  <2> DEFINE Q == {s \in SUBSET (0..m) : \A j \in 0..m : s = 0..j => j \in P}
  <2>1. ASSUME NEW s \in SUBSET (0..m), \A u \in SUBSET s : u # s => u \in Q
        PROVE  s \in Q
    <3> SUFFICES ASSUME NEW j \in 0..m, s = 0..j PROVE j \in P
      OBVIOUS
    <3>1. CASE j = 0
      BY <3>1
    <3>2. CASE j # 0
      <4>1. /\ j - 1 \in 0..m /\ j \in 1..n
            /\ 0..(j - 1) \in SUBSET s /\ j \notin 0..(j - 1) /\ j \in s
        BY <3>2
      <4>2. 0..(j - 1) \in Q
        BY <2>1, <4>1
      <4> QED BY <4>1, <4>2
    <3> QED BY <3>1, <3>2
  <2>2. \A s \in SUBSET (0..m) : (\A u \in SUBSET s : u # s => u \in Q) => s \in Q
    BY <2>1
  <2>3. IsFiniteSet(0..m)
    BY FS_Interval
  <2> DEFINE S == 0..m
  <2>4. S \in Q
    <3>1. IsFiniteSet(S) /\ \A s \in SUBSET S : (\A u \in SUBSET s : u # s => u \in Q) => s \in Q
      BY <2>2, <2>3
    <3> HIDE DEF Q, S
    <3> QED BY <3>1, SubsetInduction
  <2>5. m \in 0..m
    OBVIOUS
  <2> QED BY <2>4, <2>5
<1> QED BY <1>1

\* n steps from start that stay in D.
Recursion(n, D, start, next) == n \in Nat /\ start \in D /\ next \in [1..n -> [D -> D]]

Follows(r, n, D, start, next) ==
  r \in [0..n -> D] /\ r[0] = start /\ \A k \in 1..n : r[k] = next[k][r[k - 1]]

\* A recursion whose steps stay in D has a solution, and that stays in D.
LEMMA Iterates ==
  ASSUME NEW n, NEW D, NEW start, NEW next, Recursion(n, D, start, next)
  PROVE  \E r : Follows(r, n, D, start, next)
<1>0. n \in Nat /\ start \in D /\ next \in [1..n -> [D -> D]]
  BY DEF Recursion
<1> DEFINE Good(r, m) == r[0] = start /\ \A k \in 1..m : r[k] = next[k][r[k - 1]]
           P == {m \in 0..n : \E r \in [0..m -> D] : Good(r, m)}
<1>1. 0 \in P
  <2> DEFINE q == [k \in 0..0 |-> start]
  <2>1. q \in [0..0 -> D] /\ Good(q, 0)
    BY <1>0
  <2> HIDE DEF q
  <2>2. \E r \in [0..0 -> D] : Good(r, 0)
    BY <2>1
  <2> QED BY <1>0, <2>2
<1>2. ASSUME NEW m \in 1..n, m - 1 \in P PROVE m \in P
  <2>1. PICK r \in [0..(m - 1) -> D] : Good(r, m - 1)
    BY <1>2
  <2> DEFINE q == [k \in 0..m |-> IF k = m THEN next[m][r[m - 1]] ELSE r[k]]
  <2>2. m - 1 \in 0..(m - 1) /\ r[m - 1] \in D /\ next[m] \in [D -> D]
    BY <1>0
  <2>3. next[m][r[m - 1]] \in D
    BY <2>2
  <2>4. q \in [0..m -> D]
    <3>1. \A k \in 0..m : k # m => k \in 0..(m - 1)
      BY <1>0
    <3> QED BY <2>3, <3>1
  <2>5. q[0] = start
    BY <2>1
  <2>6. ASSUME NEW k \in 1..m PROVE q[k] = next[k][q[k - 1]]
    <3>1. k - 1 \in 0..m /\ k - 1 # m /\ q[k - 1] = r[k - 1]
      OBVIOUS
    <3>2. CASE k = m
      BY <3>1, <3>2
    <3>3. CASE k # m
      <4>1. k \in 1..(m - 1) /\ k \in 0..m
        BY <3>3
      <4>2. q[k] = r[k]
        BY <3>3, <4>1
      <4> QED BY <2>1, <3>1, <4>1, <4>2
    <3> QED BY <3>2, <3>3
  <2> HIDE DEF q
  <2>7. Good(q, m)
    BY <2>5, <2>6
  <2>8. \E p \in [0..m -> D] : Good(p, m)
    BY <2>4, <2>7
  <2>9. m \in 0..n
    OBVIOUS
  <2> HIDE DEF Good
  <2> QED BY <2>8, <2>9
<1>3. n \in P
  <2>1. \A m \in 1..n : m - 1 \in P => m \in P
    BY <1>2
  <2> HIDE DEF P
  <2>2. 0..n \subseteq P
    BY <1>0, <1>1, <2>1, CountUp
  <2> QED BY <1>0, <2>2
<1> QED BY <1>3 DEF Follows

\* A state of a recursion, whatever comes of it.
LEMMA StaysIn ==
  ASSUME NEW n \in Nat, NEW D, NEW f, f[0] \in D,
         \A k \in 1..n : f[k - 1] \in D => f[k] \in D
  PROVE  \A k \in 0..n : f[k] \in D
<1> DEFINE P == {k \in 0..n : f[k] \in D}
<1>1. 0 \in P
  OBVIOUS
<1>2. \A k \in 1..n : k - 1 \in P => k \in P
  OBVIOUS
<1> HIDE DEF P
<1>3. 0..n \subseteq P
  BY <1>1, <1>2, CountUp
<1> QED BY <1>3 DEF P

=============================================================================
