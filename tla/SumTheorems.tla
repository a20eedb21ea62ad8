---------------------------- MODULE SumTheorems ----------------------------
(***************************************************************************)
(* What SumFunctionOnSet computes.  The fold behind it is a recursive      *)
(* function on the subsets of a set that takes their members in the order  *)
(* of a CHOOSE.  Induction is by the least member of a family of subsets:  *)
(* the smallest subset for which a claim fails would be a counterexample   *)
(* whose part without its first member is none.                            *)
(***************************************************************************)
EXTENDS FiniteSetsExt, FiniteSetTheorems, TLAPS

\* A family of subsets of a finite set has a least member.
LEMMA LeastMember ==
  ASSUME NEW S, IsFiniteSet(S), NEW F, F \subseteq SUBSET S, F # {}
  PROVE  \E T \in F : \A U \in F : U \subseteq T => U = T
<1>1. FiniteSubsetsOf(S) = SUBSET S
  BY FS_FiniteSubsetsOfFinite
<1>2. IsWellFoundedOn(StrictSubsetOrdering(S), SUBSET S)
  BY <1>1, FS_StrictSubsetOrderingWellFounded
<1>3. PICK T \in F : \A U \in F : ~ (<<U, T>> \in StrictSubsetOrdering(S))
  BY <1>2, WFMin
<1> QED BY <1>3 DEF StrictSubsetOrdering

\* A set of numbers has a least one.
LEMMA LeastNumber ==
  ASSUME NEW B \in SUBSET Nat, NEW b \in B
  PROVE  \E m \in B : \A k \in B : m <= k
<1> DEFINE F == {1 .. k : k \in {k \in B : k <= b}}
           I == 1 .. b
<1>1. F \subseteq SUBSET I
  OBVIOUS
<1>2. I \in F
  OBVIOUS
<1>3. IsFiniteSet(I)
  BY FS_Interval
<1>4. PICK T \in F : \A U \in F : U \subseteq T => U = T
  <2>1. F # {}
    BY <1>2
  <2> HIDE DEF F, I
  <2> QED BY <1>1, <1>3, <2>1, LeastMember
<1>5. PICK m \in B : m <= b /\ T = 1 .. m
  OBVIOUS
<1>6. ASSUME NEW k \in B, k < m PROVE FALSE
  <2>1. 1 .. k \in F /\ 1 .. k \subseteq 1 .. m
    BY <1>5, <1>6
  <2>2. 1 .. k = 1 .. m
    BY <1>4, <1>5, <2>1
  <2>3. m \in 1 .. m /\ m \notin 1 .. k
    BY <1>6
  <2> QED BY <2>2, <2>3
<1> QED BY <1>6
-----------------------------------------------------------------------------
(* The fold, unfolded: a function g on the subsets of S is the fold of f    *)
(* over S when each of its values follows from a smaller one.               *)

FirstOf(s) == CHOOSE x \in s : TRUE
RestOf(s)  == s \ {FirstOf(s)}
FoldStep(f, g, s) == IF s = {} THEN 0 ELSE f[FirstOf(s)] + g[RestOf(s)]
IsFold(f, g, S) == g = [s \in SUBSET S |-> FoldStep(f, g, s)]

\* The sum is the value at S of a chosen fold.
LEMMA Unfold ==
  ASSUME NEW f, NEW S
  PROVE  SumFunctionOnSet(f, S) = (CHOOSE g : IsFold(f, g, S))[S]
BY DEF SumFunctionOnSet, FoldFunctionOnSet, MapThenFoldSet, IsFold, FoldStep, RestOf, FirstOf

\* Taking the first member of a set away leaves a smaller set ...
LEMMA FirstIn == \A s : s # {} => FirstOf(s) \in s /\ RestOf(s) \subseteq s /\ RestOf(s) # s
BY DEF FirstOf, RestOf

\* ... by one member, when the set is finite.
LEMMA RestSmaller ==
  ASSUME NEW s, IsFiniteSet(s), s # {}
  PROVE  IsFiniteSet(RestOf(s)) /\ Cardinality(RestOf(s)) = Cardinality(s) - 1
         /\ Cardinality(s) \in Nat /\ Cardinality(RestOf(s)) \in Nat
BY FirstIn, FS_RemoveElement, FS_CardinalityType DEF RestOf

\* A table that is right for the subsets of at most n elements.
FoldTable(f, S, n) ==
  {g \in [SUBSET S -> Int] : \A s \in SUBSET S : Cardinality(s) <= n => g[s] = FoldStep(f, g, s)}

\* There is one for every n, ...
LEMMA TablesExist ==
  ASSUME NEW S, IsFiniteSet(S), NEW f, \A x \in S : f[x] \in Int
  PROVE  \A n \in Nat : FoldTable(f, S, n) # {}
<1> SUFFICES ASSUME NEW b \in Nat, FoldTable(f, S, b) = {} PROVE FALSE
  OBVIOUS
<1> DEFINE B == {n \in Nat : FoldTable(f, S, n) = {}}
<1>1. PICK m \in B : \A k \in B : m <= k
  <2>1. B \in SUBSET Nat /\ b \in B
    OBVIOUS
  <2> HIDE DEF B
  <2> QED BY <2>1, LeastNumber
<1>2. \A s \in SUBSET S : IsFiniteSet(s) /\ Cardinality(s) \in Nat
  BY FS_Subset, FS_CardinalityType
<1>3. m \in Nat /\ FoldTable(f, S, m) = {}
  OBVIOUS
<1>4. CASE m = 0
  <2> DEFINE g == [s \in SUBSET S |-> 0]
  <2>1. g \in [SUBSET S -> Int]
    OBVIOUS
  <2>2. ASSUME NEW s \in SUBSET S, Cardinality(s) <= 0 PROVE g[s] = FoldStep(f, g, s)
    <3>1. s = {}
      BY <1>2, <2>2, FS_EmptySet
    <3> QED BY <3>1 DEF FoldStep
  <2> HIDE DEF g
  <2>3. g \in FoldTable(f, S, m)
    BY <1>4, <2>1, <2>2 DEF FoldTable
  <2> QED BY <1>3, <2>3
<1>5. CASE m # 0
  <2>1. m - 1 \in Nat /\ m - 1 \notin B
    BY <1>1, <1>3, <1>5
  <2>2. PICK g : g \in FoldTable(f, S, m - 1)
    BY <2>1
  <2>3. g \in [SUBSET S -> Int]
        /\ \A s \in SUBSET S : Cardinality(s) <= m - 1 => g[s] = FoldStep(f, g, s)
    BY <2>2 DEF FoldTable
  <2> DEFINE h == [s \in SUBSET S |-> FoldStep(f, g, s)]
  <2>4. \A s \in SUBSET S : FoldStep(f, g, s) \in Int
    BY <2>3, FirstIn DEF FoldStep
  <2>5. h \in [SUBSET S -> Int]
    BY <2>4
  <2>6. ASSUME NEW s \in SUBSET S, Cardinality(s) <= m PROVE h[s] = FoldStep(f, h, s)
    <3>1. CASE s = {}
      BY <3>1 DEF FoldStep
    <3>2. CASE s # {}
      <4>1. RestOf(s) \in SUBSET S /\ Cardinality(RestOf(s)) <= m - 1
        BY <1>2, <1>3, <2>6, <3>2, RestSmaller, FirstIn
      <4>2. h[RestOf(s)] = g[RestOf(s)]
        BY <2>3, <4>1
      <4> QED BY <3>2, <4>2 DEF FoldStep
    <3> QED BY <3>1, <3>2
  <2> HIDE DEF h
  <2>7. h \in FoldTable(f, S, m)
    BY <2>5, <2>6 DEF FoldTable
  <2> QED BY <1>3, <2>7
<1> QED BY <1>4, <1>5

\* ... so that the fold that is chosen exists.
LEMMA FoldExists ==
  ASSUME NEW S, IsFiniteSet(S), NEW f, \A x \in S : f[x] \in Int
  PROVE  IsFold(f, CHOOSE g : IsFold(f, g, S), S)
<1>1. \E g : IsFold(f, g, S)
  <2>1. Cardinality(S) \in Nat /\ \A s \in SUBSET S : Cardinality(s) <= Cardinality(S)
    BY FS_Subset, FS_CardinalityType
  <2>2. PICK g : g \in FoldTable(f, S, Cardinality(S))
    BY <2>1, TablesExist
  <2>3. g \in [SUBSET S -> Int] /\ \A s \in SUBSET S : g[s] = FoldStep(f, g, s)
    BY <2>1, <2>2 DEF FoldTable
  <2>4. g = [s \in SUBSET S |-> FoldStep(f, g, s)]
    BY <2>3
  <2> QED BY <2>4 DEF IsFold
<1> QED BY <1>1

\* Two functions that agree on T fold it alike, whatever larger set they fold.
LEMMA FoldsAgree ==
  ASSUME NEW S, NEW f, NEW g, IsFold(f, g, S), NEW R, NEW h, NEW k, IsFold(h, k, R),
         NEW T, IsFiniteSet(T), T \subseteq S, T \subseteq R,
         \A x \in T : f[x] = h[x]
  PROVE  g[T] = k[T]
<1> SUFFICES ASSUME g[T] # k[T] PROVE FALSE
  OBVIOUS
<1> DEFINE F == {s \in SUBSET T : g[s] # k[s]}
<1>1. PICK s \in F : \A u \in F : u \subseteq s => u = s
  <2>1. F \subseteq SUBSET T /\ F # {}
    OBVIOUS
  <2> HIDE DEF F
  <2> QED BY <2>1, LeastMember
<1>2. g[s] = FoldStep(f, g, s) /\ k[s] = FoldStep(h, k, s)
  BY DEF IsFold
<1>3. s # {}
  BY <1>2 DEF FoldStep
<1>4. FirstOf(s) \in T /\ RestOf(s) \subseteq s /\ RestOf(s) # s
  BY <1>3, FirstIn
<1>5. g[RestOf(s)] = k[RestOf(s)]
  BY <1>1, <1>4
<1> QED BY <1>2, <1>3, <1>4, <1>5 DEF FoldStep

\* A fold of natural numbers is one, a fold of integers too.
LEMMA FoldsType ==
  ASSUME NEW S, IsFiniteSet(S), NEW f, NEW g, IsFold(f, g, S),
         NEW V \in {Nat, Int}, \A x \in S : f[x] \in V
  PROVE  g[S] \in V
<1> SUFFICES ASSUME g[S] \notin V PROVE FALSE
  OBVIOUS
<1> DEFINE F == {s \in SUBSET S : g[s] \notin V}
<1>1. PICK s \in F : \A u \in F : u \subseteq s => u = s
  <2>1. F \subseteq SUBSET S /\ F # {}
    OBVIOUS
  <2> HIDE DEF F
  <2> QED BY <2>1, LeastMember
<1>2. g[s] = FoldStep(f, g, s)
  BY DEF IsFold
<1>3. s # {}
  BY <1>2 DEF FoldStep
<1>4. FirstOf(s) \in S /\ RestOf(s) \subseteq s /\ RestOf(s) # s
  BY <1>3, FirstIn
<1>5. g[RestOf(s)] \in V
  BY <1>1, <1>4
<1> QED BY <1>2, <1>3, <1>4, <1>5 DEF FoldStep
-----------------------------------------------------------------------------
(* The sum.                                                                 *)

\* A sum over a finite set is a value of a fold.
LEMMA SumIsFold ==
  ASSUME NEW S, IsFiniteSet(S), NEW f, \A x \in S : f[x] \in Int
  PROVE  \E g : IsFold(f, g, S) /\ SumFunctionOnSet(f, S) = g[S]
BY FoldExists, Unfold

\* A sum of natural numbers is one, a sum of integers too.
THEOREM SumType ==
  ASSUME NEW S, IsFiniteSet(S), NEW f, NEW V \in {Nat, Int}, \A x \in S : f[x] \in V
  PROVE  SumFunctionOnSet(f, S) \in V
BY SumIsFold, FoldsType

\* A sum depends only on the values of the function on the set.
THEOREM SumSame ==
  ASSUME NEW S, IsFiniteSet(S), NEW f, NEW h, \A x \in S : f[x] \in Int /\ f[x] = h[x]
  PROVE  SumFunctionOnSet(f, S) = SumFunctionOnSet(h, S)
<1>1. PICK g : IsFold(f, g, S) /\ SumFunctionOnSet(f, S) = g[S]
  BY SumIsFold
<1>2. PICK k : IsFold(h, k, S) /\ SumFunctionOnSet(h, S) = k[S]
  BY SumIsFold
<1> QED BY <1>1, <1>2, FoldsAgree

\* Nothing adds up to zero.
THEOREM SumEmpty == \A f : SumFunctionOnSet(f, {}) = 0
<1> TAKE f
<1>1. PICK g : IsFold(f, g, {}) /\ SumFunctionOnSet(f, {}) = g[{}]
  BY SumIsFold, FS_EmptySet
<1> QED BY <1>1 DEF IsFold, FoldStep

\* The first member can be taken out of a sum.
LEMMA SumFirst ==
  ASSUME NEW S, IsFiniteSet(S), S # {}, NEW f, \A x \in S : f[x] \in Int
  PROVE  SumFunctionOnSet(f, S) = f[FirstOf(S)] + SumFunctionOnSet(f, RestOf(S))
<1>1. PICK g : IsFold(f, g, S) /\ SumFunctionOnSet(f, S) = g[S]
  BY SumIsFold
<1>2. RestOf(S) \subseteq S /\ IsFiniteSet(RestOf(S))
  BY FirstIn, RestSmaller
<1>3. PICK k : IsFold(f, k, RestOf(S)) /\ SumFunctionOnSet(f, RestOf(S)) = k[RestOf(S)]
  BY <1>2, SumIsFold
<1>4. g[RestOf(S)] = k[RestOf(S)]
  BY <1>1, <1>2, <1>3, FoldsAgree
<1> QED BY <1>1, <1>3, <1>4 DEF IsFold, FoldStep

\* Every member can: the order in which they are chosen does not matter.
THEOREM SumRemove ==
  ASSUME NEW S, IsFiniteSet(S), NEW f, \A x \in S : f[x] \in Int, NEW x \in S
  PROVE  SumFunctionOnSet(f, S) = f[x] + SumFunctionOnSet(f, S \ {x})
<1> DEFINE Good(s) == \A y \in s : SumFunctionOnSet(f, s) = f[y] + SumFunctionOnSet(f, s \ {y})
           F == {s \in SUBSET S : ~ Good(s)}
<1> SUFFICES ASSUME F # {} PROVE FALSE
  OBVIOUS
<1>1. PICK s \in F : \A u \in F : u \subseteq s => u = s
  <2>1. F \subseteq SUBSET S
    OBVIOUS
  <2> HIDE DEF F
  <2> QED BY <2>1, LeastMember
<1>2. PICK y \in s : SumFunctionOnSet(f, s) # f[y] + SumFunctionOnSet(f, s \ {y})
  OBVIOUS
<1> DEFINE a == FirstOf(s)
<1>3. a \in s /\ IsFiniteSet(s) /\ IsFiniteSet(s \ {y}) /\ RestOf(s) = s \ {a}
  BY FirstIn, FS_Subset DEF RestOf
<1>4. SumFunctionOnSet(f, s) = f[a] + SumFunctionOnSet(f, s \ {a})
  BY <1>3, SumFirst
<1>5. a # y
  BY <1>2, <1>4
<1>6. SumFunctionOnSet(f, s \ {a}) = f[y] + SumFunctionOnSet(f, (s \ {a}) \ {y})
  <2>1. s \ {a} \in SUBSET S /\ s \ {a} # s /\ y \in s \ {a}
    BY <1>3, <1>5
  <2> QED BY <1>1, <2>1
<1>7. SumFunctionOnSet(f, s \ {y}) = f[a] + SumFunctionOnSet(f, (s \ {y}) \ {a})
  <2>1. s \ {y} \in SUBSET S /\ s \ {y} # s /\ a \in s \ {y}
    BY <1>3, <1>5
  <2> QED BY <1>1, <2>1
<1>8. (s \ {a}) \ {y} = (s \ {y}) \ {a}
  OBVIOUS
<1>9. f[a] \in Int /\ f[y] \in Int /\ SumFunctionOnSet(f, (s \ {y}) \ {a}) \in Int
  <2>1. IsFiniteSet((s \ {y}) \ {a})
    BY <1>3, FS_Subset
  <2> QED BY <1>3, <2>1, SumType
<1>10. SumFunctionOnSet(f, s) = f[y] + SumFunctionOnSet(f, s \ {y})
  <2> DEFINE w == SumFunctionOnSet(f, (s \ {y}) \ {a})
             u == f[a]
             v == f[y]
  <2>1. SumFunctionOnSet(f, s) = u + (v + w)
    BY <1>4, <1>6, <1>8
  <2>2. SumFunctionOnSet(f, s \ {y}) = u + w
    BY <1>7
  <2>3. u \in Int /\ v \in Int /\ w \in Int
    BY <1>9
  <2> HIDE DEF a, u, v, w
  <2>4. u + (v + w) = v + (u + w)
    BY <2>3
  <2>5. v = f[y]
    BY DEF v
  <2> QED BY <2>1, <2>2, <2>4, <2>5
<1> QED BY <1>2, <1>10

\* A new member adds its value.
THEOREM SumAdd ==
  ASSUME NEW S, IsFiniteSet(S), NEW f, NEW x, x \notin S,
         \A y \in S \cup {x} : f[y] \in Int
  PROVE  SumFunctionOnSet(f, S \cup {x}) = SumFunctionOnSet(f, S) + f[x]
<1>1. IsFiniteSet(S \cup {x}) /\ (S \cup {x}) \ {x} = S
  BY FS_AddElement
<1>2. SumFunctionOnSet(f, S \cup {x}) = f[x] + SumFunctionOnSet(f, S)
  BY <1>1, SumRemove
<1> QED BY <1>2, SumType

\* When one value changes, the sum changes by as much.
THEOREM SumChanged ==
  ASSUME NEW S, IsFiniteSet(S), NEW f, NEW h, NEW x \in S,
         \A y \in S : f[y] \in Int /\ h[y] \in Int,
         \A y \in S \ {x} : f[y] = h[y]
  PROVE  SumFunctionOnSet(h, S) = SumFunctionOnSet(f, S) + h[x] - f[x]
<1>1. IsFiniteSet(S \ {x})
  BY FS_Subset
<1>2. SumFunctionOnSet(f, S) = f[x] + SumFunctionOnSet(f, S \ {x}) /\ SumFunctionOnSet(h, S) = h[x] + SumFunctionOnSet(h, S \ {x})
  BY SumRemove
<1>3. SumFunctionOnSet(f, S \ {x}) = SumFunctionOnSet(h, S \ {x}) /\ SumFunctionOnSet(f, S \ {x}) \in Int
  BY <1>1, SumSame, SumType
<1> QED BY <1>2, <1>3

\* Members that count nothing may be left out.
THEOREM SumZero ==
  ASSUME NEW S, IsFiniteSet(S), NEW f, \A x \in S : f[x] = 0
  PROVE  SumFunctionOnSet(f, S) = 0
<1> SUFFICES ASSUME SumFunctionOnSet(f, S) # 0 PROVE FALSE
  OBVIOUS
<1> DEFINE F == {s \in SUBSET S : SumFunctionOnSet(f, s) # 0}
<1>1. PICK s \in F : \A u \in F : u \subseteq s => u = s
  <2>1. F \subseteq SUBSET S /\ F # {}
    OBVIOUS
  <2> HIDE DEF F
  <2> QED BY <2>1, LeastMember
<1>2. s # {}
  BY SumEmpty
<1>3. PICK x \in s : TRUE
  BY <1>2
<1>4. SumFunctionOnSet(f, s \ {x}) = 0
  BY <1>1, <1>3
<1>5. SumFunctionOnSet(f, s) = f[x] + SumFunctionOnSet(f, s \ {x})
  BY <1>3, FS_Subset, SumRemove
<1> QED BY <1>3, <1>4, <1>5
\* A sum grows with its terms.
THEOREM SumAtMost ==
  ASSUME NEW S, IsFiniteSet(S), NEW f, NEW h,
         \A x \in S : f[x] \in Int /\ h[x] \in Int /\ f[x] <= h[x]
  PROVE  SumFunctionOnSet(f, S) <= SumFunctionOnSet(h, S)
<1> DEFINE Good(s) == SumFunctionOnSet(f, s) <= SumFunctionOnSet(h, s)
           F == {s \in SUBSET S : ~ Good(s)}
<1> SUFFICES ASSUME F # {} PROVE FALSE
  OBVIOUS
<1>1. PICK s \in F : \A u \in F : u \subseteq s => u = s
  <2>1. F \subseteq SUBSET S
    OBVIOUS
  <2> HIDE DEF F
  <2> QED BY <2>1, LeastMember
<1>2. s # {}
  BY SumEmpty
<1>3. PICK x \in s : TRUE
  BY <1>2
<1>4. Good(s \ {x})
  BY <1>1, <1>3
<1>5. IsFiniteSet(s) /\ IsFiniteSet(s \ {x})
  BY FS_Subset
<1> DEFINE a == SumFunctionOnSet(f, s \ {x})
           b == SumFunctionOnSet(h, s \ {x})
<1>6. SumFunctionOnSet(f, s) = f[x] + a /\ SumFunctionOnSet(h, s) = h[x] + b
  BY <1>3, <1>5, SumRemove
<1>7. a \in Int /\ b \in Int /\ f[x] \in Int /\ h[x] \in Int /\ f[x] <= h[x]
  BY <1>3, <1>5, SumType
<1>8. a <= b /\ ~ Good(s)
  BY <1>1, <1>4
<1> HIDE DEF a, b
<1> QED BY <1>6, <1>7, <1>8

\* None of the terms of a sum of natural numbers is larger than the sum.
THEOREM TermAtMostSum ==
  ASSUME NEW S, IsFiniteSet(S), NEW f, \A x \in S : f[x] \in Nat, NEW x \in S
  PROVE  f[x] <= SumFunctionOnSet(f, S)
<1>1. IsFiniteSet(S \ {x})
  BY FS_Subset
<1>2. SumFunctionOnSet(f, S) = f[x] + SumFunctionOnSet(f, S \ {x})
  BY SumRemove
<1>3. SumFunctionOnSet(f, S \ {x}) \in Nat
  BY <1>1, SumType
<1> QED BY <1>2, <1>3
-----------------------------------------------------------------------------
\* The values that a function takes on a finite set are finitely many.
THEOREM FiniteImage ==
  ASSUME NEW S, IsFiniteSet(S), NEW f
  PROVE  IsFiniteSet({f[x] : x \in S}) /\ Cardinality({f[x] : x \in S}) <= Cardinality(S)
<1> DEFINE T == {f[x] : x \in S}
           g == [x \in S |-> f[x]]
<1>1. g \in Surjection(S, T)
  BY DEF Surjection
<1> HIDE DEF g, T
<1>2. IsFiniteSet(T) /\ Cardinality(T) <= Cardinality(S)
  BY <1>1, FS_Surjection
<1> QED BY <1>2 DEF T

\* A finite set of numbers has a largest member.
THEOREM MaxIn ==
  ASSUME NEW S, IsFiniteSet(S), S # {}, \A x \in S : x \in Int
  PROVE  Max(S) \in S /\ \A y \in S : Max(S) >= y
<1> DEFINE Good(s) == \E m \in s : \A y \in s : m >= y
           F == {s \in SUBSET S : s # {} /\ ~ Good(s)}
<1>1. F = {}
  <2> SUFFICES ASSUME F # {} PROVE FALSE
    OBVIOUS
  <2>1. PICK s \in F : \A u \in F : u \subseteq s => u = s
    <3>1. F \subseteq SUBSET S
      OBVIOUS
    <3> HIDE DEF F
    <3> QED BY <3>1, LeastMember
  <2>2. s \subseteq S /\ s # {} /\ ~ Good(s)
    OBVIOUS
  <2>3. PICK x \in s : TRUE
    BY <2>2
  <2>4. s \ {x} # {}
    BY <2>2, <2>3
  <2>5. s \ {x} \notin F
    BY <2>1, <2>3
  <2>6. PICK m \in s \ {x} : \A y \in s \ {x} : m >= y
    BY <2>2, <2>4, <2>5
  <2>7. m \in Int /\ x \in Int
    BY <2>2, <2>3, <2>6
  <2> QED BY <2>2, <2>3, <2>6, <2>7
<1> QED BY <1>1 DEF Max
=============================================================================
