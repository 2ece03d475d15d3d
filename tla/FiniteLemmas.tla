---------------------------- MODULE FiniteLemmas ----------------------------
(****************************************************************************)
(* Facts the other proofs rest on: a finite set has a first and a last      *)
(* member, a sum over a finite set grows by what is added to the set, and   *)
(* what Kept leaves of a list.  Induction over data is done by descent: the *)
(* smallest set for which a statement fails has a smaller one.              *)
(****************************************************************************)
EXTENDS Lists, Folds, FiniteSetTheorems, SequenceTheorems, WellFoundedInduction, TLAPS

-----------------------------------------------------------------------------
(* The first and the last of a finite set                                   *)

\* A set of subsets of a finite set has a smallest member.
LEMMA LeastSet ==
  ASSUME NEW S, IsFiniteSet(S), NEW Bad \in SUBSET SUBSET S, Bad # {}
  PROVE  \E U \in Bad : \A V \in Bad : V \subseteq U => V = U
<1>1. IsWellFoundedOn(StrictSubsetOrdering(S), SUBSET S)
  BY FS_StrictSubsetOrderingWellFounded, FS_FiniteSubsetsOfFinite
<1>2. PICK U \in Bad : \A V \in Bad : <<V, U>> \notin StrictSubsetOrdering(S)
  BY <1>1, WFMin
<1> QED
  BY <1>2 DEF StrictSubsetOrdering

\* By descent on a smallest subset without a greatest element.
LEMMA GreatestExists ==
  ASSUME NEW S, IsFiniteSet(S), S # {}, NEW rank \in [S -> Int]
  PROVE  \E c \in S : \A d \in S : rank[d] <= rank[c]
<1> DEFINE Greatest(c, U) == \A d \in U : rank[d] <= rank[c]
           Bad == {U \in SUBSET S : U # {} /\ ~\E c \in U : Greatest(c, U)}
<1>1. SUFFICES ASSUME Bad # {} PROVE FALSE
  OBVIOUS
<1>2. PICK U \in Bad : \A V \in Bad : V \subseteq U => V = U
  <2>1. Bad \in SUBSET SUBSET S
    OBVIOUS
  <2> HIDE DEF Bad
  <2> QED
    BY <1>1, <2>1, LeastSet
<1>3. PICK c \in U : TRUE
  BY <1>2
<1>4. U \ {c} \notin Bad
  BY <1>2, <1>3
<1>5. CASE U \ {c} = {}
  <2>1. rank[c] \in Int /\ U = {c}
    BY <1>2, <1>3, <1>5
  <2> QED
    BY <1>2, <2>1
<1>6. CASE U \ {c} # {}
  <2>1. PICK d \in U \ {c} : Greatest(d, U \ {c})
    BY <1>2, <1>4, <1>6
  <2>2. \A e \in U : rank[e] \in Int
    BY <1>2
  <2>3. Greatest(IF rank[c] <= rank[d] THEN d ELSE c, U)
    BY <1>3, <2>1, <2>2
  <2> QED
    BY <1>2, <1>3, <2>1, <2>3
<1> QED
  BY <1>5, <1>6

LEMMA LeastNumber ==
  ASSUME NEW S \in SUBSET Int, IsFiniteSet(S), S # {}
  PROVE  \E d \in S : \A e \in S : d <= e
<1> DEFINE down == [x \in S |-> 0 - x]
<1>1. down \in [S -> Int] /\ \A x \in S : down[x] = 0 - x
  OBVIOUS
<1> HIDE DEF down
<1>2. PICK d \in S : \A e \in S : down[e] <= down[d]
  BY <1>1, GreatestExists
<1> QED
  BY <1>1, <1>2

LEMMA GreatestNumber ==
  ASSUME NEW S \in SUBSET Int, IsFiniteSet(S), S # {}
  PROVE  \E d \in S : \A e \in S : e <= d
<1> DEFINE same == [x \in S |-> x]
<1>1. same \in [S -> Int] /\ \A x \in S : same[x] = x
  OBVIOUS
<1> HIDE DEF same
<1>2. PICK d \in S : \A e \in S : same[e] <= same[d]
  BY <1>1, GreatestExists
<1> QED
  BY <1>1, <1>2

-----------------------------------------------------------------------------
(* Sums                                                                     *)

\* The sum of v over a finite set, as the function over its subsets that MapThenSumSet
\* unfolds to.
One(s) == CHOOSE x \in s : TRUE
AddsUp(f, v, S) == f = [s \in SUBSET S |-> IF s = {} THEN 0 ELSE v[One(s)] + f[s \ {One(s)}]]
Sum(v, S) == MapThenFoldSet(+, 0, LAMBDA x : v[x], LAMBDA s : CHOOSE x \in s : TRUE, S)

LEMMA SumUnfolds == ASSUME NEW v, NEW S PROVE Sum(v, S) = (CHOOSE f : AddsUp(f, v, S))[S]
  BY DEF Sum, MapThenFoldSet, AddsUp, One

LEMMA OneIsMember == ASSUME NEW s, s # {} PROVE One(s) \in s
  BY DEF One

LEMMA AddsUpSteps ==
  ASSUME NEW v, NEW S, NEW f, AddsUp(f, v, S)
  PROVE  /\ {} \in SUBSET S => f[{}] = 0
         /\ \A s \in SUBSET S : s # {} => f[s] = v[One(s)] + f[s \ {One(s)}]
  BY DEF AddsUp

LEMMA SumsAgree ==
  ASSUME NEW S, IsFiniteSet(S), NEW T \in SUBSET S, NEW v, NEW u, \A x \in T : v[x] = u[x],
         NEW f, AddsUp(f, v, S), NEW g, AddsUp(g, u, T)
  PROVE  \A s \in SUBSET T : f[s] = g[s]
<1> DEFINE Bad == {s \in SUBSET T : f[s] # g[s]}
<1>1. SUFFICES ASSUME Bad # {} PROVE FALSE
  OBVIOUS
<1>2. PICK U \in Bad : \A V \in Bad : V \subseteq U => V = U
  <2>1. Bad \in SUBSET SUBSET S
    OBVIOUS
  <2> HIDE DEF Bad
  <2> QED
    BY <1>1, <2>1, LeastSet
<1>3. U # {}
  <2>1. f[{}] = 0 /\ g[{}] = 0
    BY AddsUpSteps
  <2> QED
    BY <1>2, <2>1
<1>4. U \ {One(U)} \notin Bad
  BY <1>2, <1>3, OneIsMember
<1>5. f[U \ {One(U)}] = g[U \ {One(U)}]
  BY <1>2, <1>4
<1>6. f[U] = v[One(U)] + f[U \ {One(U)}] /\ g[U] = u[One(U)] + g[U \ {One(U)}]
  BY <1>2, <1>3, AddsUpSteps
<1> QED
  BY <1>2, <1>3, <1>5, <1>6, OneIsMember

LEMMA SumExists ==
  ASSUME NEW v, NEW S, IsFiniteSet(S)
  PROVE  \E f : AddsUp(f, v, S)
<1> DEFINE Bad == {s \in SUBSET S : ~\E f : AddsUp(f, v, s)}
           The(s) == CHOOSE f : AddsUp(f, v, s)
<1>1. SUFFICES ASSUME Bad # {} PROVE FALSE
  BY DEF Bad
<1>2. PICK U \in Bad : \A V \in Bad : V \subseteq U => V = U
  <2>1. Bad \in SUBSET SUBSET S
    OBVIOUS
  <2> HIDE DEF Bad
  <2> QED
    BY <1>1, <2>1, LeastSet
<1>3. \A V \in SUBSET U : V # U => AddsUp(The(V), v, V)
  BY <1>2
<1> DEFINE f == [s \in SUBSET U |-> IF s = {} THEN 0
                                    ELSE v[One(s)] + The(s \ {One(s)})[s \ {One(s)}]]
<1>4. ASSUME NEW t \in SUBSET U, t # U PROVE f[t] = The(t)[t]
  <2> HIDE DEF The
  <2>0. AddsUp(The(t), v, t) /\ IsFiniteSet(t)
    BY <1>2, <1>3, <1>4, FS_Subset
  <2>1. CASE t = {}
    BY <2>0, <2>1, AddsUpSteps
  <2>2. CASE t # {}
    <3> DEFINE r == t \ {One(t)}
    <3>1. r \in SUBSET t /\ r # U /\ r \in SUBSET U
      BY <2>2, OneIsMember
    <3>2. AddsUp(The(r), v, r)
      BY <1>3, <3>1
    <3>3. f[t] = v[One(t)] + The(r)[r]
      BY <2>2
    <3>4. The(t)[t] = v[One(t)] + The(t)[r]
      BY <2>0, <2>2, AddsUpSteps
    <3> HIDE DEF r
    <3>5. The(t)[r] = The(r)[r]
      BY <2>0, <3>1, <3>2, SumsAgree
    <3> QED
      BY <3>3, <3>4, <3>5
  <2> QED
    BY <2>1, <2>2
<1>5. \A s \in SUBSET U : s # {} => f[s \ {One(s)}] = The(s \ {One(s)})[s \ {One(s)}]
  <2> HIDE DEF f, The
  <2> TAKE s \in SUBSET U
  <2> HAVE s # {}
  <2>1. s \ {One(s)} \in SUBSET U /\ s \ {One(s)} # U
    BY OneIsMember
  <2> QED
    BY <1>4, <2>1
<1>6. AddsUp(f, v, U)
  <2> HIDE DEF The
  <2>1. \A s \in SUBSET U : f[s] = IF s = {} THEN 0 ELSE v[One(s)] + f[s \ {One(s)}]
    BY <1>5
  <2>2. f = [s \in SUBSET U |-> f[s]]
    OBVIOUS
  <2> HIDE DEF f
  <2>3. f = [s \in SUBSET U |-> IF s = {} THEN 0 ELSE v[One(s)] + f[s \ {One(s)}]]
    BY <2>1, <2>2
  <2> QED
    BY <2>3 DEF AddsUp
<1> QED
  BY <1>2, <1>6

LEMMA EmptySum == ASSUME NEW v PROVE Sum(v, {}) = 0
<1> DEFINE f == CHOOSE g : AddsUp(g, v, {})
<1>1. AddsUp(f, v, {})
  <2>1. IsFiniteSet({})
    BY FS_EmptySet
  <2>2. \E g : AddsUp(g, v, {})
    BY <2>1, SumExists
  <2> QED
    BY <2>2
<1> HIDE DEF f
<1>2. f[{}] = 0
  BY <1>1, AddsUpSteps
<1> QED
  BY <1>2, SumUnfolds DEF f

LEMMA SumAdds ==
  ASSUME NEW S, IsFiniteSet(S), NEW p, p \notin S, NEW v, \A x \in S \cup {p} : v[x] \in Int
  PROVE  /\ Sum(v, {}) = 0 /\ Sum(v, S) \in Int /\ Sum(v, S \cup {p}) = Sum(v, S) + v[p]
<1> DEFINE P == S \cup {p}
<1>0. IsFiniteSet(P) /\ \A x \in P : v[x] \in Int
  BY FS_AddElement
<1>1. PICK f : AddsUp(f, v, P)
  BY <1>0, SumExists
<1> HIDE DEF P
<1>a. /\ {} \in SUBSET P => f[{}] = 0
      /\ \A s \in SUBSET P : s # {} => f[s] = v[One(s)] + f[s \ {One(s)}]
  BY <1>1, AddsUpSteps
<1>2. ASSUME NEW s \in SUBSET P PROVE Sum(v, s) = f[s]
  <2> DEFINE g == CHOOSE g : AddsUp(g, v, s)
  <2>1. IsFiniteSet(s)
    BY <1>0, FS_Subset
  <2>2. AddsUp(g, v, s)
    BY <2>1, SumExists
  <2> HIDE DEF g
  <2>3. f[s] = g[s]
    BY <1>0, <1>1, <2>2, SumsAgree
  <2> QED
    BY <2>3, SumUnfolds DEF g
<1>3. ASSUME NEW s \in SUBSET P PROVE f[s] \in Int
  <2> DEFINE Bad == {t \in SUBSET P : f[t] \notin Int}
  <2>1. SUFFICES ASSUME Bad # {} PROVE FALSE
    OBVIOUS
  <2>2. PICK U \in Bad : \A V \in Bad : V \subseteq U => V = U
    <3>1. Bad \in SUBSET SUBSET P
      OBVIOUS
    <3> HIDE DEF Bad
    <3> QED
      BY <1>0, <2>1, <3>1, LeastSet
  <2>3. U # {}
    <3>1. f[{}] = 0 /\ f[U] \notin Int
      BY <1>a, <2>2
    <3>2. 0 \in Int
      OBVIOUS
    <3> HIDE DEF Bad
    <3> QED
      BY <3>1, <3>2
  <2>4. One(U) \in U /\ f[U \ {One(U)}] \in Int
    BY <2>2, <2>3, OneIsMember
  <2>5. f[U] = v[One(U)] + f[U \ {One(U)}]
    BY <1>a, <2>2, <2>3
  <2> QED
    BY <1>0, <2>2, <2>4, <2>5
<1> DEFINE Bad == {s \in SUBSET P : \E q \in P \ s : f[s \cup {q}] # f[s] + v[q]}
<1>4. Bad = {}
  <2> SUFFICES ASSUME Bad # {} PROVE FALSE
    OBVIOUS
  <2>2. PICK U \in Bad : \A V \in Bad : V \subseteq U => V = U
    <3>1. Bad \in SUBSET SUBSET P
      OBVIOUS
    <3> HIDE DEF Bad
    <3> QED
      BY <1>0, <3>1, LeastSet
  <2>3. PICK q \in P \ U : f[U \cup {q}] # f[U] + v[q]
    BY <2>2
  <2> DEFINE W == U \cup {q}
             x == One(W)
  <2>4. x \in W /\ W \in SUBSET P /\ f[W] = v[x] + f[W \ {x}]
    <3>1. W # {} /\ W \in SUBSET P
      BY <2>2
    <3> HIDE DEF W
    <3>2. x \in W
      BY <3>1, OneIsMember
    <3>3. f[W] = v[One(W)] + f[W \ {One(W)}]
      BY <1>a, <3>1
    <3> QED
      BY <3>1, <3>2, <3>3
  <2> HIDE DEF x
  <2>5. f[U] \in Int /\ v[q] \in Int /\ v[x] \in Int
    BY <1>0, <1>3, <2>2, <2>4
  <2>6. CASE x = q
    <3>1. W \ {x} = U
      BY <2>6, <2>3
    <3>2. f[W] = v[q] + f[U]
      BY <2>4, <2>6, <3>1
    <3> QED
      BY <2>3, <2>5, <3>2
  <2>7. CASE x # q
    <3> DEFINE V == U \ {x}
    <3>1. x \in U /\ V # U /\ V \in SUBSET P /\ V \subseteq U /\ x \in P \ V /\ q \in P \ V
      BY <2>2, <2>3, <2>4, <2>7
    <3>2. V \notin Bad
      BY <2>2, <3>1
    <3>3. f[V \cup {q}] = f[V] + v[q] /\ f[V \cup {x}] = f[V] + v[x]
      BY <3>1, <3>2
    <3>4. V \cup {x} = U /\ V \cup {q} = W \ {x}
      BY <2>7, <3>1
    <3>5. f[V] \in Int
      BY <1>3, <3>1
    <3> HIDE DEF V, W
    <3>6. f[U] = f[V] + v[x] /\ f[W] = v[x] + (f[V] + v[q])
      BY <2>4, <3>3, <3>4
    <3> QED
      BY <2>3, <2>5, <3>5, <3>6 DEF W
  <2> QED
    BY <2>6, <2>7
<1>5. f[S \cup {p}] = f[S] + v[p] /\ f[S] \in Int /\ f[{}] = 0
  <2>1. S \notin Bad /\ S \in SUBSET P /\ p \in P \ S /\ {} \in SUBSET P
    BY <1>4 DEF P
  <2> QED
    BY <1>a, <1>3, <2>1
<1> QED
  BY <1>2, <1>5 DEF P

\* The sum is a number, and says nothing of what v is elsewhere.
LEMMA SumSame ==
  ASSUME NEW S, IsFiniteSet(S), NEW v, NEW u, \A x \in S : v[x] = u[x]
  PROVE  Sum(v, S) = Sum(u, S)
<1> DEFINE f == CHOOSE f : AddsUp(f, v, S)
           g == CHOOSE g : AddsUp(g, u, S)
<1>1. AddsUp(f, v, S) /\ AddsUp(g, u, S)
  BY SumExists
<1> HIDE DEF f, g
<1>2. f[S] = g[S]
  <2>1. S \in SUBSET S
    OBVIOUS
  <2>2. \A s \in SUBSET S : f[s] = g[s]
    BY <1>1, <2>1, SumsAgree
  <2> QED
    BY <2>1, <2>2
<1> QED
  BY <1>2, SumUnfolds DEF f, g

\* The sum of what is left without x.
LEMMA SumRemoves ==
  ASSUME NEW S, IsFiniteSet(S), NEW x \in S, NEW v, \A y \in S : v[y] \in Int
  PROVE  Sum(v, S) = Sum(v, S \ {x}) + v[x] /\ Sum(v, S \ {x}) \in Int
<1> DEFINE T == S \ {x}
<1>1. IsFiniteSet(T) /\ x \notin T /\ S = T \cup {x}
  BY FS_Subset
<1> HIDE DEF T
<1>2. Sum(v, T) \in Int /\ Sum(v, T \cup {x}) = Sum(v, T) + v[x]
  BY <1>1, SumAdds
<1> QED
  BY <1>1, <1>2 DEF T

LEMMA SumIsInt ==
  ASSUME NEW S, IsFiniteSet(S), NEW v, \A x \in S : v[x] \in Int
  PROVE  Sum(v, S) \in Int
<1>1. CASE S = {}
  BY <1>1, EmptySum
<1>2. CASE S # {}
  <2>1. PICK x \in S : TRUE
    BY <1>2
  <2>2. Sum(v, S) = Sum(v, S \ {x}) + v[x] /\ Sum(v, S \ {x}) \in Int /\ v[x] \in Int
    BY SumRemoves
  <2> HIDE <1>2
  <2> QED
    BY <2>2
<1> QED
  BY <1>1, <1>2

\* Changing v in one place changes the sum by as much.
LEMMA SumChange ==
  ASSUME NEW S, IsFiniteSet(S), NEW x \in S, NEW v, \A y \in S : v[y] \in Int,
         NEW u, u[x] \in Int, \A y \in S \ {x} : u[y] = v[y]
  PROVE  Sum(u, S) = Sum(v, S) + u[x] - v[x]
<1>1. \A y \in S : u[y] \in Int
  OBVIOUS
<1>2. /\ Sum(v, S) = Sum(v, S \ {x}) + v[x] /\ Sum(v, S \ {x}) \in Int
      /\ Sum(u, S) = Sum(u, S \ {x}) + u[x]
  BY <1>1, SumRemoves
<1>3. Sum(u, S \ {x}) = Sum(v, S \ {x})
  <2>1. IsFiniteSet(S \ {x})
    BY FS_Subset
  <2> QED
    BY <2>1, SumSame
<1> QED
  BY <1>2, <1>3

LEMMA SumGrows ==
  ASSUME NEW S, IsFiniteSet(S), NEW x \in S, NEW v, \A y \in S : v[y] \in Int,
         NEW u, u[x] = v[x] + 1, \A y \in S \ {x} : u[y] = v[y]
  PROVE  Sum(u, S) = Sum(v, S) + 1
<1>1. Sum(u, S) = Sum(v, S) + u[x] - v[x]
  BY SumChange
<1>2. Sum(v, S) \in Int /\ v[x] \in Int
  BY SumIsInt
<1> QED
  BY <1>1, <1>2

\* A sum of things no greater than b.
LEMMA SumBounded ==
  ASSUME NEW S, IsFiniteSet(S), NEW b \in Int, NEW v, \A x \in S : v[x] \in Int /\ v[x] <= b
  PROVE  Sum(v, S) <= b * Cardinality(S)
<1> DEFINE Bad == {s \in SUBSET S : ~(Sum(v, s) <= b * Cardinality(s))}
<1>1. SUFFICES ASSUME Bad # {} PROVE FALSE
  OBVIOUS
<1>2. PICK U \in Bad : \A V \in Bad : V \subseteq U => V = U
  <2>1. Bad \in SUBSET SUBSET S
    OBVIOUS
  <2> HIDE DEF Bad
  <2> QED
    BY <1>1, <2>1, LeastSet
<1>3. IsFiniteSet(U) /\ U \in SUBSET S
  BY <1>2, FS_Subset
<1>4. U # {}
  <2>1. Sum(v, {}) = 0 /\ Cardinality({}) = 0 /\ b * 0 = 0
    BY EmptySum, FS_EmptySet
  <2>2. Sum(v, {}) <= b * Cardinality({})
    BY <2>1
  <2> QED
    BY <1>2, <2>2
<1>5. PICK x \in U : TRUE
  BY <1>4
<1> DEFINE V == U \ {x}
<1>6. V \notin Bad /\ V \in SUBSET S
  BY <1>2, <1>3, <1>5
<1>7. Sum(v, U) = Sum(v, V) + v[x] /\ Sum(v, V) \in Int
  BY <1>3, <1>5, SumRemoves
<1>8. Cardinality(U) = Cardinality(V) + 1 /\ Cardinality(V) \in Nat
  <2>1. IsFiniteSet(V) /\ x \notin V /\ U = V \cup {x}
    BY <1>3, <1>5, FS_Subset
  <2> QED
    BY <2>1, FS_AddElement, FS_CardinalityType
<1>9. Sum(v, V) <= b * Cardinality(V) /\ v[x] <= b /\ v[x] \in Int
  BY <1>3, <1>5, <1>6
<1>10. b * Cardinality(U) = b * Cardinality(V) + b
  BY <1>8
<1>11. b * Cardinality(V) \in Int
  BY <1>8
<1> HIDE DEF V, Bad
<1>12. Sum(v, U) <= b * Cardinality(U)
  BY <1>7, <1>9, <1>10, <1>11
<1> QED
  BY <1>2, <1>12 DEF Bad

\* A sum of things that are not negative is not.
LEMMA SumNotNegative ==
  ASSUME NEW S, IsFiniteSet(S), NEW v, \A x \in S : v[x] \in Int /\ 0 <= v[x]
  PROVE  0 <= Sum(v, S)
<1> DEFINE Bad == {s \in SUBSET S : ~(0 <= Sum(v, s))}
<1>1. SUFFICES ASSUME Bad # {} PROVE FALSE
  OBVIOUS
<1>2. PICK U \in Bad : \A V \in Bad : V \subseteq U => V = U
  <2>1. Bad \in SUBSET SUBSET S
    OBVIOUS
  <2> HIDE DEF Bad
  <2> QED
    BY <1>1, <2>1, LeastSet
<1>3. IsFiniteSet(U) /\ U \in SUBSET S
  BY <1>2, FS_Subset
<1>4. PICK x \in U : TRUE
  <2>1. Sum(v, {}) = 0
    BY EmptySum
  <2>2. 0 <= Sum(v, {})
    BY <2>1
  <2> QED
    BY <1>2, <2>2
<1>5. U \ {x} \notin Bad /\ U \ {x} \in SUBSET S
  BY <1>2, <1>3, <1>4
<1>6. Sum(v, U) = Sum(v, U \ {x}) + v[x] /\ Sum(v, U \ {x}) \in Int
  BY <1>3, <1>4, SumRemoves
<1>7. 0 <= Sum(v, U \ {x}) /\ 0 <= v[x] /\ v[x] \in Int
  BY <1>3, <1>4, <1>5
<1> QED
  BY <1>2, <1>6, <1>7

\* A sum of zeros.
LEMMA SumZero ==
  ASSUME NEW S, IsFiniteSet(S), NEW v, \A x \in S : v[x] = 0
  PROVE  Sum(v, S) = 0
<1>1. \A x \in S : v[x] \in Int /\ v[x] <= 0 /\ 0 <= v[x]
  OBVIOUS
<1>2. Sum(v, S) <= 0 * Cardinality(S) /\ 0 <= Sum(v, S) /\ Sum(v, S) \in Int
  <2>1. Sum(v, S) \in Int
    BY SumIsInt
  <2>2. Sum(v, S) <= 0 * Cardinality(S)
    BY <1>1, SumBounded
  <2>3. 0 <= Sum(v, S)
    BY <1>1, SumNotNegative
  <2> QED
    BY <2>1, <2>2, <2>3
<1>3. 0 * Cardinality(S) = 0
  BY FS_CardinalityType
<1> QED
  BY <1>2, <1>3

\* A part of a sum of things that are not negative.
LEMMA SumOfPart ==
  ASSUME NEW S, IsFiniteSet(S), NEW T \in SUBSET S, NEW v, \A x \in S : v[x] \in Int /\ 0 <= v[x]
  PROVE  Sum(v, T) <= Sum(v, S)
<1> DEFINE Bad == {U \in SUBSET S : T \subseteq U /\ ~(Sum(v, T) <= Sum(v, U))}
<1>1. SUFFICES ASSUME Bad # {} PROVE FALSE
  BY DEF Bad
<1>2. PICK U \in Bad : \A V \in Bad : V \subseteq U => V = U
  <2>1. Bad \in SUBSET SUBSET S
    OBVIOUS
  <2> HIDE DEF Bad
  <2> QED
    BY <1>1, <2>1, LeastSet
<1>3. IsFiniteSet(U) /\ U \in SUBSET S /\ IsFiniteSet(T) /\ T \subseteq U
  BY <1>2, FS_Subset
<1>4. Sum(v, T) \in Int
  BY <1>3, SumIsInt
<1>5. PICK x \in U : x \notin T
  <2>1. Sum(v, T) <= Sum(v, T)
    BY <1>4
  <2>2. U # T
    BY <1>2, <2>1
  <2> QED
    BY <1>3, <2>2
<1>6. U \ {x} \notin Bad /\ U \ {x} \in SUBSET S /\ T \subseteq U \ {x}
  BY <1>2, <1>3, <1>5
<1>7. Sum(v, T) <= Sum(v, U \ {x}) /\ 0 <= v[x] /\ v[x] \in Int
  BY <1>3, <1>5, <1>6
<1>8. Sum(v, U) = Sum(v, U \ {x}) + v[x] /\ Sum(v, U \ {x}) \in Int
  BY <1>3, <1>5, SumRemoves
<1> QED
  BY <1>2, <1>4, <1>7, <1>8

LEMMA FirstNatural ==
  ASSUME NEW T \in SUBSET Nat, T # {}
  PROVE  \E m \in T : \A n \in T : m <= n
<1>1. PICK n \in T : TRUE
  OBVIOUS
<1> DEFINE S == {m \in T : m <= n}
<1>2. IsFiniteSet(S) /\ S # {} /\ S \in SUBSET Int
  <2>1. n \in Nat /\ \A m \in T : m \in Nat
    BY <1>1
  <2>2. n \in S
    BY <1>1, <2>1
  <2>3. \A m \in S : m \in 0..n /\ m \in Int
    BY <2>1
  <2>4. S \subseteq 0..n /\ n \in S /\ S \in SUBSET Int
    BY <2>2, <2>3
  <2>5. IsFiniteSet(0..n)
    BY <2>1, FS_Interval
  <2> HIDE DEF S
  <2> QED
    BY <2>4, <2>5, FS_Subset
<1> HIDE DEF S
<1>3. PICK m \in S : \A k \in S : m <= k
  BY <1>2, LeastNumber
<1> QED
  BY <1>1, <1>3 DEF S

\* Sums over the first numbers.
LEMMA SumUpTo ==
  ASSUME NEW k \in Nat, NEW v, \A x \in 0..k : v[x] \in Int
  PROVE  /\ Sum(v, 0..k) = Sum(v, 0..(k - 1)) + v[k]
         /\ Sum(v, 0..(k - 1)) \in Int /\ IsFiniteSet(0..k)
<1>1. (0..k) \ {k} = 0..(k - 1) /\ k \in 0..k
  OBVIOUS
<1>2. IsFiniteSet(0..k)
  BY FS_Interval
<1> QED
  BY <1>1, <1>2, SumRemoves

\* Everything one place further: what was last falls out.
LEMMA SumShifts ==
  ASSUME NEW n \in Nat, NEW v, \A x \in 0..n : v[x] \in Int,
         NEW u, u[0] = 0, \A x \in 1..n : u[x] = v[x - 1]
  PROVE  \A k \in 0..n : Sum(u, 0..k) = Sum(v, 0..(k - 1))
<1> DEFINE Bad == {k \in 0..n : Sum(u, 0..k) # Sum(v, 0..(k - 1))}
<1>1. SUFFICES ASSUME Bad # {} PROVE FALSE
  OBVIOUS
<1>2. PICK k \in Bad : \A j \in Bad : k <= j
  <2>1. Bad \in SUBSET Nat
    OBVIOUS
  <2> HIDE DEF Bad
  <2> QED
    BY <1>1, <2>1, FirstNatural
<1>3. \A x \in 0..n : u[x] \in Int
  <2> TAKE x \in 0..n
  <2>1. CASE x = 0
    BY <2>1
  <2>2. CASE x # 0
    BY <2>2
  <2> QED
    BY <2>1, <2>2
<1>4. Sum(u, 0..k) = Sum(u, 0..(k - 1)) + u[k]
  BY <1>2, <1>3, SumUpTo
<1>5. CASE k = 0
  <2>1. 0..(k - 1) = {} /\ 0..(-1) = {}
    BY <1>5
  <2>2. Sum(u, 0..(k - 1)) = 0 /\ Sum(v, 0..(k - 1)) = 0
    BY <2>1, EmptySum
  <2> QED
    BY <1>2, <1>4, <1>5, <2>2
<1>6. CASE k # 0
  <2>1. k - 1 \in 0..n /\ k - 1 \notin Bad /\ k \in 1..n /\ k - 1 \in Nat
    BY <1>2, <1>6
  <2>2. Sum(u, 0..(k - 1)) = Sum(v, 0..((k - 1) - 1)) /\ u[k] = v[k - 1]
    BY <2>1
  <2>3. Sum(v, 0..(k - 1)) = Sum(v, 0..((k - 1) - 1)) + v[k - 1]
    BY <2>1, SumUpTo
  <2> QED
    BY <1>2, <1>4, <2>2, <2>3
<1> QED
  BY <1>5, <1>6

-----------------------------------------------------------------------------
(* What Kept leaves of a list                                               *)

\* The function Kept unfolds to, up to n.
Filters(f, seq, S, n) ==
  f = [m \in 0..n |-> IF m = 0 THEN <<>>
                      ELSE IF seq[m] \in S THEN Append(f[m - 1], seq[m]) ELSE f[m - 1]]

LEMMA KeptUnfolds ==
  ASSUME NEW seq, NEW S
  PROVE  Kept(seq, S) = (CHOOSE f : Filters(f, seq, S, Len(seq)))[Len(seq)]
  BY DEF Kept, Filters

LEMMA FilterExists ==
  ASSUME NEW seq, NEW S, NEW n \in Nat
  PROVE  \E f : Filters(f, seq, S, n)
<1> DEFINE Bad == {m \in Nat : ~\E f : Filters(f, seq, S, m)}
<1>1. SUFFICES ASSUME Bad # {} PROVE FALSE
  OBVIOUS
<1>2. PICK m \in Bad : \A k \in Bad : m <= k
  <2>1. Bad \in SUBSET Nat
    OBVIOUS
  <2> HIDE DEF Bad
  <2> QED
    BY <1>1, <2>1, FirstNatural
<1>3. CASE m = 0
  <2>1. Filters([k \in 0..0 |-> <<>>], seq, S, 0)
    BY DEF Filters
  <2> QED
    BY <1>2, <1>3, <2>1
<1>4. CASE m # 0
  <2>1. m - 1 \in Nat /\ m - 1 \notin Bad /\ m \in Nat
    BY <1>2, <1>4
  <2>2. PICK g : Filters(g, seq, S, m - 1)
    BY <2>1
  <2> DEFINE f == [k \in 0..m |-> IF k < m THEN g[k]
                    ELSE IF seq[m] \in S THEN Append(g[m - 1], seq[m]) ELSE g[m - 1]]
  <2>3. ASSUME NEW k \in 0..m
        PROVE  f[k] = IF k = 0 THEN <<>>
                      ELSE IF seq[k] \in S THEN Append(f[k - 1], seq[k]) ELSE f[k - 1]
    <3>1. CASE k = m
      BY <2>1, <1>4, <3>1
    <3>2. CASE k # m
      <4>1. k \in 0..(m - 1) /\ f[k] = g[k] /\ (k # 0 => f[k - 1] = g[k - 1])
        BY <2>1, <3>2
      <4>2. g[k] = IF k = 0 THEN <<>>
                   ELSE IF seq[k] \in S THEN Append(g[k - 1], seq[k]) ELSE g[k - 1]
        BY <2>2, <4>1 DEF Filters
      <4> HIDE DEF f
      <4> QED
        BY <4>1, <4>2
    <3> QED
      BY <3>1, <3>2
  <2>4. f = [k \in 0..m |-> f[k]]
    OBVIOUS
  <2> HIDE DEF f
  <2>5. Filters(f, seq, S, m)
    BY <2>3, <2>4 DEF Filters
  <2> QED
    BY <1>2, <2>5
<1> QED
  BY <1>3, <1>4

\* Kept goes through the list once.
LEMMA KeptSteps ==
  ASSUME NEW seq, Len(seq) \in Nat, NEW S
  PROVE  \E f : /\ f[0] = <<>> /\ f[Len(seq)] = Kept(seq, S)
                /\ \A n \in 1..Len(seq) :
                     f[n] = IF seq[n] \in S THEN Append(f[n - 1], seq[n]) ELSE f[n - 1]
<1> DEFINE f == CHOOSE f : Filters(f, seq, S, Len(seq))
<1>1. Filters(f, seq, S, Len(seq))
  BY FilterExists
<1>2. f[Len(seq)] = Kept(seq, S)
  BY KeptUnfolds
<1> HIDE DEF f
<1>3. f[0] = <<>>
  BY <1>1 DEF Filters
<1>4. ASSUME NEW n \in 1..Len(seq)
      PROVE  f[n] = IF seq[n] \in S THEN Append(f[n - 1], seq[n]) ELSE f[n - 1]
  <2>1. n \in 0..Len(seq) /\ n # 0
    OBVIOUS
  <2> QED
    BY <1>1, <2>1 DEF Filters
<1> QED
  BY <1>2, <1>3, <1>4

\* What is left are elements of the list that are in S, and all of them.
LEMMA KeptElements ==
  ASSUME NEW T, NEW seq \in Seq(T), NEW S
  PROVE  /\ Kept(seq, S) \in Seq(T \cap S)
         /\ \A i \in 1..Len(seq) : seq[i] \in S =>
              \E k \in 1..Len(Kept(seq, S)) : Kept(seq, S)[k] = seq[i]
<1>1. PICK f : /\ f[0] = <<>> /\ f[Len(seq)] = Kept(seq, S)
               /\ \A n \in 1..Len(seq) :
                    f[n] = IF seq[n] \in S THEN Append(f[n - 1], seq[n]) ELSE f[n - 1]
  BY KeptSteps
<1> DEFINE Holds(n) == /\ f[n] \in Seq(T \cap S)
                       /\ \A i \in 1..n : seq[i] \in S => \E k \in 1..Len(f[n]) : f[n][k] = seq[i]
           Bad == {n \in 0..Len(seq) : ~Holds(n)}
<1>2. SUFFICES Bad = {}
  <2>1. Len(seq) \in 0..Len(seq)
    OBVIOUS
  <2>2. Bad = {} => Holds(Len(seq))
    BY ONLY <2>1
  <2> QED
    BY <1>1, <2>2
<1>3. SUFFICES ASSUME Bad # {} PROVE FALSE
  OBVIOUS
<1>4. PICK n \in Bad : \A m \in Bad : n <= m
  <2>1. Bad \in SUBSET Nat
    OBVIOUS
  <2> HIDE DEF Bad
  <2> QED
    BY <1>3, <2>1, FirstNatural
<1>5. n \in 0..Len(seq) /\ ~Holds(n)
  BY <1>4
<1>6. n # 0
  <2>1. <<>> \in Seq(T \cap S)
    OBVIOUS
  <2>2. Holds(0)
    BY <1>1, <2>1
  <2> QED
    BY <1>5, <2>2
<1>7. n \in 1..Len(seq) /\ n - 1 \in 0..Len(seq) /\ Holds(n - 1)
  BY <1>4, <1>5, <1>6
<1> HIDE DEF Bad
<1>8. seq[n] \in T
  BY <1>7
<1>9. CASE seq[n] \in S
  <2> DEFINE g == f[n - 1]
  <2>1. g \in Seq(T \cap S) /\ seq[n] \in T \cap S /\ f[n] = Append(g, seq[n])
    BY <1>1, <1>7, <1>8, <1>9
  <2>2. \A i \in 1..(n - 1) : seq[i] \in S => \E k \in 1..Len(g) : g[k] = seq[i]
    BY <1>7
  <2> HIDE DEF g
  <2>3. f[n] \in Seq(T \cap S) /\ Len(f[n]) = Len(g) + 1 /\ f[n][Len(g) + 1] = seq[n]
        /\ \A k \in 1..Len(g) : f[n][k] = g[k]
    BY <2>1
  <2>4. ASSUME NEW i \in 1..n, seq[i] \in S
        PROVE  \E k \in 1..Len(f[n]) : f[n][k] = seq[i]
    <3>1. CASE i = n
      <4>1. Len(g) + 1 \in 1..Len(f[n])
        BY <2>1, <2>3
      <4> QED
        BY <2>3, <3>1, <4>1
    <3>2. CASE i # n
      <4>1. i \in 1..(n - 1)
        BY <1>7, <3>2
      <4>2. PICK k \in 1..Len(g) : g[k] = seq[i]
        BY <2>2, <2>4, <4>1
      <4>3. k \in 1..Len(f[n])
        BY <2>1, <2>3
      <4> QED
        BY <2>3, <4>2, <4>3
    <3> QED
      BY <3>1, <3>2
  <2> QED
    BY <1>5, <2>3, <2>4
<1>10. CASE seq[n] \notin S
  <2>1. f[n] = f[n - 1]
    BY <1>1, <1>7, <1>10
  <2>2. \A i \in 1..n : seq[i] \in S => i \in 1..(n - 1)
    BY <1>7, <1>10
  <2> QED
    BY <1>5, <1>7, <2>1, <2>2
<1> QED
  BY <1>9, <1>10

\* Where everything behind an element of S is in S too, a tail of the list is left: what
\* comes before it is not in S.
LEMMA KeptIsTail ==
  ASSUME NEW T, NEW seq \in Seq(T), NEW S,
         \A i, j \in 1..Len(seq) : i <= j /\ seq[i] \in S => seq[j] \in S
  PROVE  \E d \in 0..Len(seq) :
           /\ Len(Kept(seq, S)) = Len(seq) - d
           /\ \A i \in 1..(Len(seq) - d) : Kept(seq, S)[i] = seq[d + i]
           /\ \A i \in 1..d : seq[i] \notin S
<1>1. PICK f : /\ f[0] = <<>> /\ f[Len(seq)] = Kept(seq, S)
               /\ \A n \in 1..Len(seq) :
                    f[n] = IF seq[n] \in S THEN Append(f[n - 1], seq[n]) ELSE f[n - 1]
  BY KeptSteps
<1> DEFINE LeftFrom(n, d) ==
             /\ f[n] \in Seq(T) /\ Len(f[n]) = n - d
             /\ \A i \in 1..(n - d) : f[n][i] = seq[d + i]
             /\ \A i \in 1..d : seq[i] \notin S
             /\ d < n => seq[n] \in S
           Bad == {n \in 0..Len(seq) : ~\E d \in 0..n : LeftFrom(n, d)}
<1>2. SUFFICES Bad = {}
  <2>1. Len(seq) \in 0..Len(seq)
    OBVIOUS
  <2>2. PICK d \in 0..Len(seq) : LeftFrom(Len(seq), d)
    BY <1>2, <2>1
  <2> HIDE DEF Bad
  <2> QED
    BY <1>1, <2>2
<1>3. SUFFICES ASSUME Bad # {} PROVE FALSE
  OBVIOUS
<1>4. PICK n \in Bad : \A m \in Bad : n <= m
  <2>1. Bad \in SUBSET Nat
    OBVIOUS
  <2> HIDE DEF Bad
  <2> QED
    BY <1>3, <2>1, FirstNatural
<1>5. n \in 0..Len(seq) /\ \A d \in 0..n : ~LeftFrom(n, d)
  BY <1>4
<1>6. n # 0
  <2>1. ASSUME n = 0 PROVE LeftFrom(0, 0)
    BY <1>1
  <2> QED
    BY <1>5, <2>1
<1>7. n \in 1..Len(seq) /\ n - 1 \in 0..Len(seq) /\ n - 1 \notin Bad
  <2>1. n \in 1..Len(seq) /\ n - 1 \in 0..Len(seq) /\ ~(n <= n - 1)
    BY <1>5, <1>6
  <2> HIDE DEF Bad
  <2> QED
    BY <1>4, <2>1
<1>8. PICK d \in 0..(n - 1) : LeftFrom(n - 1, d)
  BY <1>7
<1> HIDE DEF Bad
<1> DEFINE g == f[n - 1]
<1>9. /\ g \in Seq(T) /\ Len(g) = n - 1 - d /\ \A i \in 1..(n - 1 - d) : g[i] = seq[d + i]
      /\ \A i \in 1..d : seq[i] \notin S
      /\ d < n - 1 => seq[n - 1] \in S
      /\ seq[n] \in T
  BY <1>7, <1>8
<1> HIDE DEF g
<1>10. CASE seq[n] \in S
  <2>1. f[n] = Append(g, seq[n])
    BY <1>1, <1>7, <1>10 DEF g
  <2>2. f[n] \in Seq(T) /\ Len(f[n]) = n - d
    BY <1>7, <1>9, <2>1
  <2>3. ASSUME NEW i \in 1..(n - d) PROVE f[n][i] = seq[d + i]
    <3>1. CASE i = n - d
      BY <1>7, <1>9, <2>1, <3>1
    <3>2. CASE i # n - d
      BY <1>7, <1>9, <2>1, <3>2
    <3> QED
      BY <3>1, <3>2
  <2>4. LeftFrom(n, d) /\ d \in 0..n
    BY <1>7, <1>9, <1>10, <2>2, <2>3
  <2> QED
    BY <1>5, <2>4
<1>11. CASE seq[n] \notin S
  <2>1. f[n] = g
    BY <1>1, <1>7, <1>11 DEF g
  <2>2. d = n - 1
    <3>1. n - 1 # 0 => n - 1 \in 1..Len(seq)
      BY <1>7
    <3>2. n - 1 # 0 => seq[n - 1] \notin S
      BY <1>7, <1>11, <3>1
    <3> QED
      BY <1>7, <1>9, <3>2
  <2>3. \A i \in 1..n : seq[i] \notin S
    BY <1>7, <1>11
  <2>4. LeftFrom(n, n) /\ n \in 0..n
    BY <1>7, <1>9, <2>1, <2>2, <2>3
  <2> QED
    BY <1>5, <2>4
<1> QED
  BY <1>10, <1>11

\* A sequence with one element replaced.
Replaced(s, i, v, r) == r = [s EXCEPT ![i] = v]

LEMMA OneElementChanged ==
  ASSUME NEW T, NEW s \in Seq(T), NEW i, NEW v \in T, NEW r, Replaced(s, i, v, r)
  PROVE  r \in Seq(T) /\ Len(r) = Len(s)
<1>1. s = [j \in 1..Len(s) |-> s[j]] /\ Len(s) \in Nat /\ \A j \in 1..Len(s) : s[j] \in T
  OBVIOUS
<1>2. r = [j \in 1..Len(s) |-> IF j = i THEN v ELSE s[j]]
  BY <1>1 DEF Replaced
<1>3. \A j \in 1..Len(s) : (IF j = i THEN v ELSE s[j]) \in T
  BY <1>1
<1>4. r \in [1..Len(s) -> T]
  BY ONLY <1>2, <1>3
<1> QED
  BY ONLY <1>1, <1>4
=============================================================================
