----------------------------- MODULE SumTheorems ------------------------------
(***************************************************************************)
(* Sums over finite sets, and what the proofs need of them.  The sum of    *)
(* the community modules takes an operator; here the summands are a        *)
(* function, which a lemma can be stated about.  Where the library would   *)
(* use induction, a smallest set that is against the statement is taken.   *)
(***************************************************************************)
EXTENDS Integers, FiniteSets, FiniteSetTheorems, WellFoundedInduction, TLAPS

\* The element that is added first.
First(S) == CHOOSE x \in S : TRUE

\* g gives the sum of f over each subset of S.
Sums(g, f, S) ==
  /\ g = [s \in SUBSET S |-> g[s]]
  /\ \A s \in SUBSET S :
       g[s] = IF s = {} THEN 0 ELSE f[First(s)] + g[s \ {First(s)}]

\* The sum of f[x] for x in S.
Sum(f, S) == (CHOOSE g : Sums(g, f, S))[S]

-----------------------------------------------------------------------------
(* The sum exists.                                                         *)

\* A set of subsets of a finite set has a member none of whose proper subsets is
\* a member.
LEMMA SmallestSet ==
  ASSUME NEW S, IsFiniteSet(S), NEW B \in SUBSET SUBSET S, B # {}
  PROVE  \E U \in B : \A V \in B : V \subseteq U => V = U
<1>1. IsWellFoundedOn(StrictSubsetOrdering(S), FiniteSubsetsOf(S))
  BY FS_StrictSubsetOrderingWellFounded
<1>2. FiniteSubsetsOf(S) = SUBSET S
  BY FS_FiniteSubsetsOfFinite
<1>3. PICK U \in B : \A V \in B : <<V, U>> \notin StrictSubsetOrdering(S)
  BY <1>1, <1>2, WFMin
<1>4. ASSUME NEW V \in B, V \subseteq U, V # U
      PROVE  FALSE
  <2>1. <<V, U>> \in (SUBSET S) \X (SUBSET S)
    OBVIOUS
  <2>2. <<V, U>> \in StrictSubsetOrdering(S)
    BY <2>1, <1>4 DEF StrictSubsetOrdering
  <2> QED
    BY <2>2, <1>3
<1> QED
  BY <1>4

LEMMA FirstIsIn ==
  ASSUME NEW S, S # {}
  PROVE  First(S) \in S
BY DEF First

\* Where two such functions are both defined, they agree.
LEMMA SumsAgree ==
  ASSUME NEW S, IsFiniteSet(S), NEW T, NEW f, NEW g, NEW h,
         Sums(g, f, S), Sums(h, f, T), NEW s \in SUBSET S, s \in SUBSET T
  PROVE  g[s] = h[s]
<1> DEFINE B == {u \in SUBSET S : u \subseteq T /\ g[u] # h[u]}
<1> SUFFICES ASSUME B # {} PROVE FALSE
  OBVIOUS
<1>0. B \in SUBSET SUBSET S
  OBVIOUS
<1>1. PICK U \in B : \A V \in B : V \subseteq U => V = U
  <2> HIDE DEF B
  <2> QED
    BY <1>0, SmallestSet
<1>2. CASE U = {}
  BY <1>2 DEF Sums
<1>3. CASE U # {}
  <2> DEFINE V == U \ {First(U)}
  <2>1. V \subseteq U /\ V # U
    BY <1>3, FirstIsIn
  <2>2. V \notin B
    BY <1>1, <2>1
  <2>3. g[V] = h[V]
    BY <2>1, <2>2
  <2>4. g[U] = f[First(U)] + g[V] /\ h[U] = f[First(U)] + h[V]
    BY <1>3 DEF Sums
  <2> QED
    BY <2>3, <2>4
<1> QED
  BY <1>2, <1>3

LEMMA SumsRestrict ==
  ASSUME NEW f, NEW S, NEW g, Sums(g, f, S), NEW T \in SUBSET S
  PROVE  Sums([s \in SUBSET T |-> g[s]], f, T)
BY FirstIsIn DEF Sums

\* If all proper subsets have a sum, so has the set.
LEMMA SumsExtend ==
  ASSUME NEW f, NEW S, IsFiniteSet(S),
         \A T \in SUBSET S : T # S => \E g : Sums(g, f, T)
  PROVE  \E g : Sums(g, f, S)
<1> DEFINE G == [s \in SUBSET S |->
                   IF s = {} THEN 0 ELSE f[First(s)] + Sum(f, s \ {First(s)})]
<1>1. ASSUME NEW T \in SUBSET S, T # S
      PROVE  G[T] = Sum(f, T)
  <2> DEFINE g == CHOOSE g : Sums(g, f, T)
  <2>1. Sums(g, f, T)
    BY <1>1
  <2> HIDE DEF g
  <2>2. Sum(f, T) = g[T]
    BY DEF Sum, g
  <2>3. CASE T = {}
    BY <2>1, <2>2, <2>3 DEF Sums
  <2>4. CASE T # {}
    <3> DEFINE V == T \ {First(T)}
    <3>1. V \in SUBSET T /\ V # S
      BY <1>1
    <3>2. PICK h : h = CHOOSE k : Sums(k, f, V)
      OBVIOUS
    <3>3. Sums(h, f, V)
      BY <3>1, <3>2
    <3>4. Sum(f, V) = h[V]
      BY <3>2 DEF Sum
    <3>5. IsFiniteSet(T)
      BY FS_Subset
    <3>6. g[V] = h[V]
      BY <2>1, <3>1, <3>3, <3>5, SumsAgree
    <3>7. g[T] = f[First(T)] + g[V]
      BY <2>1, <2>4 DEF Sums
    <3> QED
      BY <2>2, <2>4, <3>4, <3>6, <3>7
  <2> QED
    BY <2>3, <2>4
<1>2. ASSUME NEW s \in SUBSET S
      PROVE  G[s] = IF s = {} THEN 0 ELSE f[First(s)] + G[s \ {First(s)}]
  <2>1. CASE s = {}
    BY <2>1
  <2>2. CASE s # {}
    <3>1. s \ {First(s)} \in SUBSET S /\ s \ {First(s)} # S
      BY <2>2, FirstIsIn
    <3> QED
      BY <2>2, <3>1, <1>1
  <2> QED
    BY <2>1, <2>2
<1>3. G = [s \in SUBSET S |-> G[s]]
  OBVIOUS
<1> HIDE DEF G
<1> QED
  BY <1>2, <1>3 DEF Sums

LEMMA SumsExist ==
  ASSUME NEW f, NEW S, IsFiniteSet(S)
  PROVE  \E g : Sums(g, f, S)
<1> DEFINE B == {U \in SUBSET S : ~ \E g : Sums(g, f, U)}
<1> SUFFICES ASSUME B # {} PROVE FALSE
  OBVIOUS
<1>0. B \in SUBSET SUBSET S
  OBVIOUS
<1>1. PICK U \in B : \A V \in B : V \subseteq U => V = U
  <2> HIDE DEF B
  <2> QED
    BY <1>0, SmallestSet
<1>2. IsFiniteSet(U)
  BY FS_Subset
<1>3. \A T \in SUBSET U : T # U => \E g : Sums(g, f, T)
  BY <1>1
<1> QED
  BY <1>2, <1>3, SumsExtend

\* A function that satisfies the equation gives the sum.
LEMMA SumsIsSum ==
  ASSUME NEW f, NEW S, IsFiniteSet(S), NEW g, Sums(g, f, S)
  PROVE  g[S] = Sum(f, S)
<1> PICK h : h = CHOOSE k : Sums(k, f, S)
  OBVIOUS
<1>1. Sums(h, f, S)
  BY SumsExist
<1>2. h[S] = Sum(f, S)
  BY DEF Sum
<1> QED
  BY <1>1, <1>2, SumsAgree

LEMMA SumEmpty ==
  ASSUME NEW f
  PROVE  Sum(f, {}) = 0
<1>1. IsFiniteSet({})
  BY FS_EmptySet
<1>2. PICK g : Sums(g, f, {})
  BY <1>1, SumsExist
<1> QED
  BY <1>1, <1>2, SumsIsSum DEF Sums

LEMMA SumFirst ==
  ASSUME NEW f, NEW S, IsFiniteSet(S), S # {}
  PROVE  Sum(f, S) = f[First(S)] + Sum(f, S \ {First(S)})
<1> DEFINE V == S \ {First(S)}
<1>1. PICK g : Sums(g, f, S)
  BY SumsExist
<1>2. IsFiniteSet(V) /\ V \in SUBSET S
  BY FS_Subset
<1>3. Sums([s \in SUBSET V |-> g[s]], f, V)
  BY <1>1, <1>2, SumsRestrict
<1>4. g[V] = Sum(f, V)
  BY <1>2, <1>3, SumsIsSum
<1> QED
  BY <1>1, <1>4, SumsIsSum DEF Sums

-----------------------------------------------------------------------------
(* Which element is added first does not matter.                           *)

LEMMA SumIsNat ==
  ASSUME NEW f, NEW S, IsFiniteSet(S), \A x \in S : f[x] \in Nat
  PROVE  Sum(f, S) \in Nat
<1> DEFINE B == {U \in SUBSET S : Sum(f, U) \notin Nat}
<1> SUFFICES ASSUME B # {} PROVE FALSE
  OBVIOUS
<1>0. B \in SUBSET SUBSET S
  OBVIOUS
<1>1. PICK U \in B : \A V \in B : V \subseteq U => V = U
  <2> HIDE DEF B
  <2> QED
    BY <1>0, SmallestSet
<1>2. U # {}
  BY SumEmpty
<1>3. First(U) \in U /\ U \subseteq S /\ IsFiniteSet(U)
  BY <1>2, FirstIsIn, FS_Subset
<1>4. Sum(f, U \ {First(U)}) \in Nat
  BY <1>1, <1>3
<1>5. Sum(f, U) = f[First(U)] + Sum(f, U \ {First(U)})
  BY <1>2, <1>3, SumFirst
<1> QED
  BY <1>3, <1>4, <1>5

LEMMA SumRemove ==
  ASSUME NEW f, NEW S, IsFiniteSet(S), \A x \in S : f[x] \in Nat, NEW x \in S
  PROVE  Sum(f, S) = f[x] + Sum(f, S \ {x})
<1> DEFINE B == {U \in SUBSET S : \E y \in U : Sum(f, U) # f[y] + Sum(f, U \ {y})}
<1> SUFFICES ASSUME B # {} PROVE FALSE
  OBVIOUS
<1>0. B \in SUBSET SUBSET S
  OBVIOUS
<1>1. PICK U \in B : \A V \in B : V \subseteq U => V = U
  <2> HIDE DEF B
  <2> QED
    BY <1>0, SmallestSet
<1>2. PICK y \in U : Sum(f, U) # f[y] + Sum(f, U \ {y})
  OBVIOUS
<1>3. PICK z : z = First(U)
  OBVIOUS
<1>4. z \in U /\ U \subseteq S /\ IsFiniteSet(U)
  BY <1>3, FirstIsIn, FS_Subset
<1>5. Sum(f, U) = f[z] + Sum(f, U \ {z})
  BY <1>3, <1>4, SumFirst
<1>6. y # z
  BY <1>2, <1>5
<1> DEFINE W == (U \ {z}) \ {y}
<1>7. Sum(f, U \ {z}) = f[y] + Sum(f, W)
  <2>1. U \ {z} \notin B /\ U \ {z} \in SUBSET S /\ y \in U \ {z}
    BY <1>1, <1>4, <1>6
  <2> QED
    BY <2>1
<1>8. Sum(f, U \ {y}) = f[z] + Sum(f, W)
  <2>1. U \ {y} \notin B /\ U \ {y} \in SUBSET S /\ z \in U \ {y}
    BY <1>1, <1>4, <1>6
  <2>2. (U \ {y}) \ {z} = W
    OBVIOUS
  <2> QED
    BY <2>1, <2>2
<1>9. f[y] \in Nat /\ f[z] \in Nat /\ Sum(f, W) \in Nat
  <2>1. IsFiniteSet(W) /\ W \subseteq S
    BY <1>4, FS_Subset
  <2> QED
    BY <1>4, <2>1, SumIsNat
<1> QED
  BY <1>2, <1>5, <1>7, <1>8, <1>9

\* Only the values on the set count.
LEMMA SumSame ==
  ASSUME NEW f, NEW h, NEW S, IsFiniteSet(S), \A x \in S : f[x] = h[x]
  PROVE  Sum(f, S) = Sum(h, S)
<1> PICK g : Sums(g, f, S)
  BY SumsExist
<1>1. Sums(g, h, S)
  BY FirstIsIn DEF Sums
<1> QED
  BY <1>1, SumsIsSum

-----------------------------------------------------------------------------
(* Unions and comparisons.                                                 *)

LEMMA SumSplit ==
  ASSUME NEW f, NEW S, IsFiniteSet(S), \A x \in S : f[x] \in Nat,
         NEW T \in SUBSET S
  PROVE  Sum(f, S) = Sum(f, T) + Sum(f, S \ T)
<1> DEFINE B == {U \in SUBSET S : Sum(f, S) # Sum(f, U) + Sum(f, S \ U)}
<1> SUFFICES ASSUME B # {} PROVE FALSE
  OBVIOUS
<1>0. B \in SUBSET SUBSET S
  OBVIOUS
<1>1. PICK U \in B : \A V \in B : V \subseteq U => V = U
  <2> HIDE DEF B
  <2> QED
    BY <1>0, SmallestSet
<1>2. U # {}
  <2>1. Sum(f, S) = 0 + Sum(f, S \ {})
    BY SumIsNat
  <2> QED
    BY <2>1, SumEmpty
<1>3. PICK x \in U : TRUE
  BY <1>2
<1> DEFINE V == U \ {x}
<1>4. Sum(f, S) = Sum(f, V) + Sum(f, S \ V)
  BY <1>1
<1>5. U \subseteq S /\ V \subseteq S
  OBVIOUS
<1>6. IsFiniteSet(U) /\ IsFiniteSet(S \ V) /\ IsFiniteSet(S \ U) /\ IsFiniteSet(V)
  BY <1>5, FS_Subset
<1>7. Sum(f, U) = f[x] + Sum(f, V)
  BY <1>5, <1>6, SumRemove
<1>8. Sum(f, S \ V) = f[x] + Sum(f, S \ U)
  <2>1. (S \ V) \ {x} = S \ U /\ x \in S \ V
    BY <1>5
  <2> QED
    BY <1>5, <1>6, <2>1, SumRemove
<1>9. Sum(f, V) \in Nat /\ Sum(f, S \ U) \in Nat /\ f[x] \in Nat
  BY <1>5, <1>6, SumIsNat
<1> QED
  BY <1>4, <1>7, <1>8, <1>9

LEMMA SumSubset ==
  ASSUME NEW f, NEW S, IsFiniteSet(S), \A x \in S : f[x] \in Nat,
         NEW T \in SUBSET S
  PROVE  Sum(f, T) <= Sum(f, S)
<1>1. IsFiniteSet(T) /\ IsFiniteSet(S \ T)
  BY FS_Subset
<1>2. Sum(f, T) \in Nat /\ Sum(f, S \ T) \in Nat
  BY <1>1, SumIsNat
<1> QED
  BY <1>2, SumSplit

LEMMA SumUnion ==
  ASSUME NEW f, NEW S, IsFiniteSet(S), NEW T, IsFiniteSet(T),
         \A x \in S \cup T : f[x] \in Nat
  PROVE  Sum(f, S \cup T) <= Sum(f, S) + Sum(f, T)
<1>1. IsFiniteSet(S \cup T)
  BY FS_Union
<1>2. Sum(f, S \cup T) = Sum(f, S) + Sum(f, (S \cup T) \ S)
  BY <1>1, SumSplit
<1>3. (S \cup T) \ S \in SUBSET T
  OBVIOUS
<1>4. Sum(f, (S \cup T) \ S) <= Sum(f, T)
  BY <1>3, SumSubset
<1>5. IsFiniteSet((S \cup T) \ S)
  BY <1>3, FS_Subset
<1>6. Sum(f, S) \in Nat /\ Sum(f, T) \in Nat /\ Sum(f, (S \cup T) \ S) \in Nat
  BY <1>5, SumIsNat
<1> QED
  BY <1>2, <1>4, <1>6

LEMMA SumAdd ==
  ASSUME NEW f, NEW S, IsFiniteSet(S), \A x \in S : f[x] \in Nat,
         NEW y, y \notin S, f[y] \in Nat
  PROVE  Sum(f, S \cup {y}) = f[y] + Sum(f, S)
<1>1. IsFiniteSet(S \cup {y}) /\ (S \cup {y}) \ {y} = S
  BY FS_AddElement
<1> QED
  BY <1>1, SumRemove

\* If f on T and lo on S together are at most hi on S, element by element, so are
\* the sums.
LEMMA SumWithin ==
  ASSUME NEW f, NEW lo, NEW hi, NEW S, IsFiniteSet(S), NEW T \in SUBSET S,
         \A x \in T : f[x] \in Nat /\ f[x] + lo[x] <= hi[x],
         \A x \in S : lo[x] \in Nat /\ hi[x] \in Nat /\ lo[x] <= hi[x]
  PROVE  Sum(f, T) + Sum(lo, S) <= Sum(hi, S)
<1> DEFINE B == {U \in SUBSET S :
                   ~ (Sum(f, U \cap T) + Sum(lo, U) <= Sum(hi, U))}
<1> SUFFICES ASSUME B # {} PROVE FALSE
  <2>1. S \cap T = T
    OBVIOUS
  <2> QED
    BY <2>1
<1>0. B \in SUBSET SUBSET S
  OBVIOUS
<1>1. PICK U \in B : \A V \in B : V \subseteq U => V = U
  <2> HIDE DEF B
  <2> QED
    BY <1>0, SmallestSet
<1>2. U # {}
  <2> SUFFICES ASSUME U = {} PROVE FALSE
    OBVIOUS
  <2>1. Sum(f, U \cap T) = 0 /\ Sum(lo, U) = 0 /\ Sum(hi, U) = 0
    <3>1. U \cap T = {} /\ U = {}
      OBVIOUS
    <3> QED
      BY <3>1, SumEmpty
  <2>2. ~ (Sum(f, U \cap T) + Sum(lo, U) <= Sum(hi, U))
    OBVIOUS
  <2> HIDE DEF B
  <2> QED
    BY <2>1, <2>2
<1>3. PICK x \in U : TRUE
  BY <1>2
<1> DEFINE V == U \ {x}
<1>4. Sum(f, V \cap T) + Sum(lo, V) <= Sum(hi, V)
  BY <1>1
<1>5. U \subseteq S /\ V \subseteq S
  OBVIOUS
<1>6. IsFiniteSet(U) /\ IsFiniteSet(V) /\ IsFiniteSet(U \cap T) /\ IsFiniteSet(V \cap T)
  BY <1>5, FS_Subset
<1>7. Sum(lo, U) = lo[x] + Sum(lo, V) /\ Sum(hi, U) = hi[x] + Sum(hi, V)
  BY <1>5, <1>6, SumRemove
<1>8. /\ Sum(lo, V) \in Nat /\ Sum(hi, V) \in Nat /\ Sum(f, V \cap T) \in Nat
      /\ lo[x] \in Nat /\ hi[x] \in Nat /\ lo[x] <= hi[x]
  BY <1>5, <1>6, SumIsNat
<1>9. CASE x \in T
  <2>1. (U \cap T) \ {x} = V \cap T /\ x \in U \cap T
    BY <1>9
  <2>2. Sum(f, U \cap T) = f[x] + Sum(f, V \cap T)
    BY <1>6, <2>1, SumRemove
  <2>3. f[x] \in Nat /\ f[x] + lo[x] <= hi[x]
    BY <1>9
  <2>4. ~ (Sum(f, U \cap T) + Sum(lo, U) <= Sum(hi, U))
    OBVIOUS
  <2> HIDE DEF V
  <2> QED
    BY <1>4, <1>7, <1>8, <2>2, <2>3, <2>4
<1>10. CASE x \notin T
  <2>1. U \cap T = V \cap T
    BY <1>10
  <2>2. ~ (Sum(f, V \cap T) + Sum(lo, U) <= Sum(hi, U))
    BY <2>1
  <2> HIDE DEF V
  <2> QED
    BY <1>4, <1>7, <1>8, <2>2
<1> QED
  BY <1>9, <1>10

\* If each d stands for the sum of f over a part of S, and the parts have nothing
\* in common, all of them together are at most the sum over S.
LEMMA SumOfParts ==
  ASSUME NEW f, NEW S, IsFiniteSet(S), \A x \in S : f[x] \in Nat,
         NEW D, IsFiniteSet(D), NEW part \in [D -> SUBSET S], NEW g,
         \A d \in D : g[d] = Sum(f, part[d]),
         \A d, e \in D : d # e => part[d] \cap part[e] = {}
  PROVE  Sum(g, D) <= Sum(f, S)
<1> DEFINE All(E) == UNION {part[d] : d \in E}
<1> DEFINE B == {E \in SUBSET D : Sum(g, E) # Sum(f, All(E))}
<1>a. \A d \in D : part[d] \subseteq S /\ IsFiniteSet(part[d]) /\ g[d] \in Nat
  BY FS_Subset, SumIsNat
<1>b. \A E \in SUBSET D : All(E) \subseteq S /\ IsFiniteSet(All(E))
  <2> SUFFICES ASSUME NEW E \in SUBSET D
               PROVE  All(E) \subseteq S /\ IsFiniteSet(All(E))
    OBVIOUS
  <2>1. All(E) \subseteq S
    OBVIOUS
  <2> QED
    BY <2>1, FS_Subset
<1> SUFFICES ASSUME B # {} PROVE FALSE
  <2>1. Sum(g, D) = Sum(f, All(D)) /\ All(D) \in SUBSET S
    BY <1>b
  <2> HIDE DEF All
  <2> QED
    BY <2>1, SumSubset
<1>0. B \in SUBSET SUBSET D
  OBVIOUS
<1>1. PICK E \in B : \A F \in B : F \subseteq E => F = E
  <2> HIDE DEF B
  <2> QED
    BY <1>0, SmallestSet
<1>2. E # {}
  <2>1. All({}) = {}
    OBVIOUS
  <2> QED
    BY <2>1, SumEmpty
<1>3. PICK d \in E : TRUE
  BY <1>2
<1> DEFINE F == E \ {d}
<1>4. Sum(g, F) = Sum(f, All(F))
  BY <1>1
<1>5. E \subseteq D /\ F \subseteq D /\ d \in D
  OBVIOUS
<1>6. IsFiniteSet(E) /\ IsFiniteSet(F)
  BY <1>5, FS_Subset
<1>7. Sum(g, E) = g[d] + Sum(g, F)
  BY <1>5, <1>6, <1>a, SumRemove
<1>8. part[d] \subseteq All(E) /\ All(E) \ part[d] = All(F)
  BY <1>5
<1>9. All(E) \subseteq S /\ IsFiniteSet(All(E))
  BY <1>b, <1>5
<1>10. Sum(g, E) # Sum(f, All(E)) /\ g[d] = Sum(f, part[d])
  BY <1>5
<1> HIDE DEF All, F
<1>11. Sum(f, All(E)) = Sum(f, part[d]) + Sum(f, All(F))
  BY <1>8, <1>9, SumSplit
<1> QED
  BY <1>4, <1>7, <1>10, <1>11

-----------------------------------------------------------------------------
(* Images, least and greatest numbers.                                     *)

LEMMA ImageFinite ==
  ASSUME NEW f, NEW S, IsFiniteSet(S)
  PROVE  IsFiniteSet({f[x] : x \in S})
<1> DEFINE T == {f[x] : x \in S}
<1>1. [x \in S |-> f[x]] \in Surjection(S, T)
  BY DEF Surjection
<1> QED
  BY <1>1, FS_Surjection

LEMMA LeastNumber ==
  ASSUME NEW T \in SUBSET Nat, T # {}
  PROVE  \E m \in T : \A k \in T : m <= k
<1>1. IsWellFoundedOn(OpToRel(<, Nat), Nat)
  BY NatLessThanWellFounded
<1>2. PICK m \in T : \A k \in T : ~ (<<k, m>> \in OpToRel(<, Nat))
  BY <1>1, WFMin
<1>3. \A k \in T : ~ (k < m)
  BY <1>2 DEF OpToRel
<1> QED
  BY <1>3

LEMMA GreatestNumber ==
  ASSUME NEW T \in SUBSET Nat, T # {}, NEW n \in Nat, \A k \in T : k <= n
  PROVE  \E m \in T : \A k \in T : k <= m
<1> DEFINE above == {b \in Nat : \A k \in T : k <= b}
<1>1. PICK m \in above : \A b \in above : m <= b
  <2>1. above \in SUBSET Nat /\ n \in above
    OBVIOUS
  <2> HIDE DEF above
  <2> QED
    BY <2>1, LeastNumber
<1>2. CASE m \in T
  BY <1>2
<1>3. CASE m \notin T
  <2>1. \A k \in T : k < m
    BY <1>3
  <2>2. PICK k \in T : k \in Nat /\ k < m
    BY <2>1
  <2>3. m - 1 \in Nat /\ \A j \in T : j <= m - 1
    BY <2>1, <2>2
  <2> QED
    BY <2>3, <1>1
<1> QED
  BY <1>2, <1>3
==============================================================================
