------------------------- MODULE Extractors_proofs -------------------------
(***************************************************************************)
(* What the extractors of a request do, for any records, limits and        *)
(* moments: every record of an upload is answered for once and no limit is *)
(* passed (Uploads); a change since the time a client sends is noticed     *)
(* (SyncTimestamp).                                                        *)
(***************************************************************************)
EXTENDS Uploads, SyncTimestamp, FiniteSetTheorems, WellFoundedInduction, TLAPS

-----------------------------------------------------------------------------
(* Sums over finite sets, SumFunctionOnSet of the community modules.  Each   *)
(* fact is shown of a smallest set it would fail for.                        *)

LEMMA LeastElement ==
  ASSUME NEW S \in SUBSET Nat, S # {}
  PROVE  \E x \in S : \A y \in S : ~ (y < x)
<1>. DEFINE Less == {ss \in Nat \X Nat : ss[1] < ss[2]}
<1>1. IsWellFoundedOn(Less, Nat)
  BY NatLessThanWellFounded, Zenon DEF OpToRel
<1>2. PICK x \in S : \A y \in S : ~ (<<y, x>> \in Less)
  <2>. HIDE DEF Less
  <2>. QED
    BY <1>1, WFMin
<1>. QED
  BY <1>2

LEMMA SmallestSet ==
  ASSUME NEW U, IsFiniteSet(U), NEW Bad \in SUBSET (SUBSET U), Bad # {}
  PROVE  \E T \in Bad : \A V \in Bad : V \subseteq T => V = T
<1>. DEFINE Less == StrictSubsetOrdering(U)
            All  == FiniteSubsetsOf(U)
<1>1. IsWellFoundedOn(Less, All)
  BY FS_StrictSubsetOrderingWellFounded
<1>2. \A T \in SUBSET U : IsFiniteSet(T)
  BY FS_Subset
<1>3. Bad \subseteq All
  BY <1>2 DEF FiniteSubsetsOf
<1>4. PICK T \in Bad : \A V \in Bad : ~ (<<V, T>> \in Less)
  <2>. HIDE DEF Less, All
  <2>. QED
    BY <1>1, <1>3, WFMin
<1>5. ASSUME NEW V \in Bad, V \subseteq T PROVE V = T
  BY <1>4, <1>5 DEF StrictSubsetOrdering
<1>. QED
  BY <1>4, <1>5

\* What the definition of the sum gives for each subset of S.
Added(w, s, g) ==
    IF s = {} THEN 0 ELSE LET x == CHOOSE x \in s : TRUE IN w[x] + g[s \ {x}]

IsSum(w, S, g) == g = [s \in SUBSET S |-> Added(w, s, g)]

LEMMA SumChosen ==
  ASSUME NEW w, NEW S
  PROVE  SumFunctionOnSet(w, S) = (CHOOSE g : IsSum(w, S, g))[S]
BY DEF SumFunctionOnSet, FoldFunctionOnSet, MapThenFoldSet, IsSum, Added

\* The elements of S have natural numbers as weights.
Weighs(w, S) == \A x \in S : w[x] \in Nat

LEMMA SumExists ==
  ASSUME NEW S, IsFiniteSet(S), NEW w, Weighs(w, S)
  PROVE  \E g \in [SUBSET S -> Nat] : IsSum(w, S, g)
<1>. DEFINE Level(n)   == {s \in SUBSET S : Cardinality(s) <= n}
            Part(n, g) == /\ g \in [Level(n) -> Nat]
                          /\ \A s \in Level(n) : g[s] = Added(w, s, g)
            Bad        == {n \in Nat : ~ \E g : Part(n, g)}
<1>1. \A s \in SUBSET S : IsFiniteSet(s) /\ Cardinality(s) \in Nat
  BY FS_Subset, FS_CardinalityType
<1>2. \A s \in SUBSET S : s # {} =>
         /\ (CHOOSE x \in s : TRUE) \in s
         /\ Cardinality(s \ {CHOOSE x \in s : TRUE}) = Cardinality(s) - 1
  BY <1>1, FS_RemoveElement
<1>3. Bad = {}
  <2>1. SUFFICES ASSUME Bad # {} PROVE FALSE
    OBVIOUS
  <2>2. PICK n \in Bad : \A m \in Bad : ~ (m < n)
    <3>. HIDE DEF Bad
    <3>1. Bad \in SUBSET Nat
      BY DEF Bad
    <3>. QED
      BY <2>1, <3>1, LeastElement
  <2>3. CASE n = 0
    <3>. DEFINE g == [s \in Level(n) |-> 0]
    <3>1. \A s \in Level(n) : s = {}
      BY <1>1, <2>3, FS_EmptySet
    <3>2. Part(n, g)
      BY <3>1 DEF Added
    <3>. QED
      BY <2>2, <3>2
  <2>4. CASE n # 0
    <3>1. n - 1 \in Nat /\ n - 1 < n
      BY <2>4
    <3>2. PICK g : Part(n - 1, g)
      BY <2>2, <3>1
    <3>. DEFINE h == [s \in Level(n) |-> Added(w, s, g)]
    <3>3. ASSUME NEW s \in Level(n) PROVE h[s] \in Nat /\ h[s] = Added(w, s, h)
      <4>1. CASE s = {}
        BY <4>1 DEF Added
      <4>2. CASE s # {}
        <5>. DEFINE x == CHOOSE x \in s : TRUE
        <5>. HIDE DEF x
        <5>1. x \in s /\ Cardinality(s \ {x}) = Cardinality(s) - 1
          BY <1>2, <4>2 DEF x
        <5>2. s \ {x} \in Level(n - 1) /\ s \ {x} \in Level(n)
          BY <1>1, <5>1
        <5>3. w[x] \in Nat /\ g[s \ {x}] \in Nat /\ h[s \ {x}] = g[s \ {x}]
          BY <3>2, <5>1, <5>2 DEF Weighs
        <5>4. h[s] = w[x] + g[s \ {x}] /\ Added(w, s, h) = w[x] + h[s \ {x}]
          BY <4>2 DEF Added, x
        <5>. QED
          BY <5>3, <5>4
      <4>. QED
        BY <4>1, <4>2
    <3>. HIDE DEF Level
    <3>4. Part(n, h)
      BY <3>3
    <3>. QED
      BY <2>2, <3>4
  <2>. QED
    BY <2>3, <2>4
<1>4. PICK g : Part(Cardinality(S), g)
  <2>1. Cardinality(S) \in Nat
    BY <1>1
  <2>. QED
    BY <1>3, <2>1
<1>5. Level(Cardinality(S)) = SUBSET S
  BY FS_Subset
<1>. QED
  BY <1>4, <1>5 DEF IsSum

LEMMA SumsAgree ==
  ASSUME NEW S, IsFiniteSet(S), NEW w, NEW T \in SUBSET S, NEW g, NEW h,
         IsSum(w, S, g), IsSum(w, T, h)
  PROVE  h[T] = g[T]
<1>. DEFINE Bad == {U \in SUBSET T : h[U] # g[U]}
<1>1. SUFFICES ASSUME Bad # {} PROVE FALSE
  BY DEF Bad
<1>2. PICK U \in Bad : \A V \in Bad : V \subseteq U => V = U
  <2>. HIDE DEF Bad
  <2>1. IsFiniteSet(T) /\ Bad \in SUBSET (SUBSET T)
    BY FS_Subset DEF Bad
  <2>. QED
    BY <1>1, <2>1, SmallestSet
<1>3. U \in SUBSET T /\ U \in SUBSET S /\ h[U] = Added(w, U, h) /\ g[U] = Added(w, U, g)
  BY DEF IsSum
<1>4. CASE U = {}
  BY <1>2, <1>3, <1>4 DEF Added
<1>5. CASE U # {}
  <2>. DEFINE x == CHOOSE x \in U : TRUE
  <2>1. x \in U
    BY <1>5
  <2>2. h[U \ {x}] = g[U \ {x}]
    <3>. HIDE DEF x
    <3>. QED
      BY <1>2, <2>1
  <2>. QED
    BY <1>2, <1>3, <1>5, <2>2 DEF Added
<1>. QED
  BY <1>4, <1>5

LEMMA SumEmpty == ASSUME NEW w PROVE SumFunctionOnSet(w, {}) = 0
<1>1. PICK g \in [SUBSET {} -> Nat] : IsSum(w, {}, g)
  BY FS_EmptySet, SumExists DEF Weighs
<1>2. IsSum(w, {}, CHOOSE h : IsSum(w, {}, h))
  BY <1>1
<1>. QED
  BY <1>2, SumChosen DEF IsSum, Added

\* The sum of S as the function its definition chooses gives it.
LEMMA SumChoice ==
  ASSUME NEW S, IsFiniteSet(S), NEW w, Weighs(w, S)
  PROVE  /\ SumFunctionOnSet(w, S) \in Nat
         /\ S # {} => LET x == CHOOSE x \in S : TRUE IN
                      SumFunctionOnSet(w, S) = w[x] + SumFunctionOnSet(w, S \ {x})
<1>. DEFINE Chosen(T) == CHOOSE g : IsSum(w, T, g)
<1>1. PICK g \in [SUBSET S -> Nat] : IsSum(w, S, g)
  BY SumExists
<1>2. \A T \in SUBSET S : SumFunctionOnSet(w, T) = g[T]
  <2>. SUFFICES ASSUME NEW T \in SUBSET S PROVE SumFunctionOnSet(w, T) = g[T]
    OBVIOUS
  <2>1. IsFiniteSet(T) /\ Weighs(w, T)
    BY FS_Subset DEF Weighs
  <2>2. IsSum(w, T, Chosen(T))
    BY <2>1, SumExists
  <2>. HIDE DEF Chosen
  <2>3. Chosen(T)[T] = g[T]
    BY <1>1, <2>2, SumsAgree
  <2>. QED
    BY <2>3, SumChosen DEF Chosen
<1>3. SumFunctionOnSet(w, S) \in Nat
  BY <1>1, <1>2
<1>4. ASSUME S # {}
      PROVE  LET x == CHOOSE x \in S : TRUE IN
             SumFunctionOnSet(w, S) = w[x] + SumFunctionOnSet(w, S \ {x})
  <2>. DEFINE x == CHOOSE x \in S : TRUE
  <2>1. g[S] = w[x] + g[S \ {x}]
    BY <1>1, <1>4 DEF IsSum, Added
  <2>. HIDE DEF x
  <2>2. SumFunctionOnSet(w, S) = w[x] + SumFunctionOnSet(w, S \ {x})
    BY <1>2, <2>1
  <2>. QED
    BY <2>2 DEF x
<1>. QED
  BY <1>3, <1>4

\* Any element may be taken out first.
LEMMA SumStep ==
  ASSUME NEW S, IsFiniteSet(S), NEW w, Weighs(w, S), NEW y \in S
  PROVE  SumFunctionOnSet(w, S) = w[y] + SumFunctionOnSet(w, S \ {y})
<1>. DEFINE Sum(T) == SumFunctionOnSet(w, T)
            Bad == {T \in SUBSET S : \E z \in T : Sum(T) # w[z] + Sum(T \ {z})}
<1>0. \A T \in SUBSET S : IsFiniteSet(T) /\ Weighs(w, T)
  BY FS_Subset DEF Weighs
<1>1. SUFFICES ASSUME Bad # {} PROVE FALSE
  OBVIOUS
<1>2. PICK T \in Bad : \A V \in Bad : V \subseteq T => V = T
  <2>. HIDE DEF Bad
  <2>1. Bad \in SUBSET (SUBSET S)
    BY DEF Bad
  <2>. QED
    BY <1>1, <2>1, SmallestSet
<1>3. PICK z \in T : Sum(T) # w[z] + Sum(T \ {z})
  BY <1>2
<1>. DEFINE x == CHOOSE x \in T : TRUE
<1>4. x \in T
  BY <1>3
<1>5. Sum(T) = w[x] + Sum(T \ {x})
  BY <1>0, <1>2, <1>3, SumChoice
<1>. HIDE DEF x, Sum
<1>6. z # x
  BY <1>3, <1>5
<1>. DEFINE R == (T \ {x}) \ {z}
<1>7. /\ T \ {x} \in SUBSET S /\ T \ {z} \in SUBSET S /\ R \in SUBSET S
      /\ R = (T \ {z}) \ {x} /\ z \in T \ {x} /\ x \in T \ {z}
  BY <1>2, <1>3, <1>4, <1>6
<1>. HIDE DEF R
<1>8. T \ {x} \notin Bad /\ T \ {z} \notin Bad
  BY <1>2, <1>3, <1>4
<1>9. Sum(T \ {x}) = w[z] + Sum(R)
  BY <1>7, <1>8 DEF R
<1>10. Sum(T \ {z}) = w[x] + Sum(R)
  BY <1>7, <1>8
<1>11. w[x] \in Nat /\ w[z] \in Nat /\ Sum(R) \in Nat
  <2>1. Sum(R) \in Nat
    BY <1>0, <1>7, SumChoice DEF Sum
  <2>. QED
    BY <1>2, <1>3, <1>4, <2>1 DEF Weighs
<1>. QED
  BY <1>3, <1>5, <1>9, <1>10, <1>11

LEMMA SumType ==
  ASSUME NEW S, IsFiniteSet(S), NEW w, Weighs(w, S)
  PROVE  SumFunctionOnSet(w, S) \in Nat
BY SumChoice

LEMMA SumSingle ==
  ASSUME NEW w, NEW y, w[y] \in Nat
  PROVE  SumFunctionOnSet(w, {y}) = w[y]
<1>1. IsFiniteSet({y}) /\ Weighs(w, {y}) /\ {y} \ {y} = {}
  BY FS_Singleton DEF Weighs
<1>2. SumFunctionOnSet(w, {y}) = w[y] + SumFunctionOnSet(w, {})
  BY <1>1, SumStep
<1>. QED
  BY <1>2, SumEmpty

\* A part sums to no more than the whole.
LEMMA SumPart ==
  ASSUME NEW S, IsFiniteSet(S), NEW w, Weighs(w, S), NEW T \in SUBSET S
  PROVE  SumFunctionOnSet(w, T) <= SumFunctionOnSet(w, S)
<1>. DEFINE Sum(U) == SumFunctionOnSet(w, U)
            Bad == {U \in SUBSET S : T \subseteq U /\ ~ (Sum(T) <= Sum(U))}
<1>1. \A U \in SUBSET S : IsFiniteSet(U) /\ Weighs(w, U) /\ Sum(U) \in Nat
  BY FS_Subset, SumType DEF Weighs
<1>2. SUFFICES ASSUME Bad # {} PROVE FALSE
  OBVIOUS
<1>3. PICK U \in Bad : \A V \in Bad : V \subseteq U => V = U
  <2>. HIDE DEF Bad
  <2>1. Bad \in SUBSET (SUBSET S)
    BY DEF Bad
  <2>. QED
    BY <1>2, <2>1, SmallestSet
<1>4. PICK y \in U : y \notin T
  <2>1. Sum(T) <= Sum(T)
    BY <1>1
  <2>. HIDE DEF Sum
  <2>2. U # T
    BY <1>3, <2>1
  <2>. QED
    BY <1>3, <2>2
<1>5. Sum(U) = w[y] + Sum(U \ {y})
  BY <1>1, <1>3, SumStep
<1>6. Sum(T) <= Sum(U \ {y})
  <2>. HIDE DEF Sum
  <2>. QED
    BY <1>3, <1>4
<1>7. w[y] \in Nat /\ Sum(U \ {y}) \in Nat /\ Sum(T) \in Nat
  BY <1>1, <1>3 DEF Weighs
<1>. QED
  BY <1>3, <1>5, <1>6, <1>7

\* Two sets sum to no less than their union.
LEMMA SumUnion ==
  ASSUME NEW S, IsFiniteSet(S), NEW w, Weighs(w, S), NEW A \in SUBSET S, NEW B \in SUBSET S
  PROVE  SumFunctionOnSet(w, A \cup B) <= SumFunctionOnSet(w, A) + SumFunctionOnSet(w, B)
<1>. DEFINE Sum(U) == SumFunctionOnSet(w, U)
            Bad == {U \in SUBSET B : ~ (Sum(A \cup U) <= Sum(A) + Sum(U))}
<1>1. \A U \in SUBSET S : IsFiniteSet(U) /\ Weighs(w, U) /\ Sum(U) \in Nat
  BY FS_Subset, SumType DEF Weighs
<1>2. SUFFICES ASSUME Bad # {} PROVE FALSE
  OBVIOUS
<1>3. PICK U \in Bad : \A V \in Bad : V \subseteq U => V = U
  <2>. HIDE DEF Bad
  <2>1. IsFiniteSet(B) /\ Bad \in SUBSET (SUBSET B)
    BY <1>1 DEF Bad
  <2>. QED
    BY <1>2, <2>1, SmallestSet
<1>4. U \in SUBSET S /\ A \cup U \in SUBSET S
  BY <1>3
<1>5. PICK y \in U : TRUE
  <2>1. CASE U = {}
    <3>1. A \cup U = A /\ Sum(U) = 0
      BY <2>1, SumEmpty
    <3>. QED
      <4>1. Sum(A) \in Nat
        BY <1>1
      <4>2. Sum(A \cup U) <= Sum(A) + Sum(U)
        BY <3>1, <4>1
      <4>. HIDE DEF Sum
      <4>. QED
        BY <1>3, <4>2
  <2>. QED
    BY <2>1
<1>. DEFINE V == U \ {y}
<1>6. V \in SUBSET S /\ A \cup V \in SUBSET S /\ V \notin Bad /\ V \in SUBSET B
  BY <1>3, <1>5
<1>7. Sum(A \cup V) <= Sum(A) + Sum(V)
  <2>. HIDE DEF Sum, V
  <2>. QED
    BY <1>6
<1>8. Sum(U) = w[y] + Sum(V)
  BY <1>1, <1>4, <1>5, SumStep
<1>9. Sum(A \cup U) <= w[y] + Sum(A \cup V)
  <2>1. CASE y \in A
    <3>1. A \cup U = A \cup V
      BY <1>5, <2>1
    <3>. HIDE DEF V, Sum
    <3>2. w[y] \in Nat /\ Sum(A \cup V) \in Nat
      BY <1>1, <1>4, <1>5, <1>6 DEF Weighs
    <3>3. Sum(A \cup U) = Sum(A \cup V)
      BY <3>1, Zenon
    <3>. QED
      BY <3>2, <3>3
  <2>2. CASE y \notin A
    <3>1. (A \cup U) \ {y} = A \cup V /\ y \in A \cup U
      BY <1>5, <2>2
    <3>2. Sum(A \cup U) = w[y] + Sum((A \cup U) \ {y})
      BY <1>1, <1>4, <3>1, SumStep
    <3>. HIDE DEF V, Sum
    <3>3. Sum((A \cup U) \ {y}) = Sum(A \cup V)
      BY <3>1, Zenon
    <3>4. w[y] \in Nat /\ Sum(A \cup V) \in Nat
      BY <1>1, <1>4, <1>5, <1>6 DEF Weighs
    <3>. QED
      BY <3>2, <3>3, <3>4
  <2>. QED
    BY <2>1, <2>2
<1>. HIDE DEF V, Sum
<1>10. /\ w[y] \in Nat /\ Sum(V) \in Nat /\ Sum(A) \in Nat /\ Sum(A \cup V) \in Nat
       /\ Sum(A \cup U) \in Nat
  BY <1>1, <1>4, <1>5, <1>6 DEF Weighs
<1>11. Sum(A \cup U) <= Sum(A) + Sum(U)
  BY <1>7, <1>8, <1>9, <1>10
<1>. QED
  BY <1>3, <1>11

\* An image sums to no more than what it is the image of.
LEMMA SumImage ==
  ASSUME NEW S, IsFiniteSet(S), NEW w, Weighs(w, S), NEW f, NEW v,
         \A x \in S : v[f[x]] = w[x]
  PROVE  /\ IsFiniteSet({f[x] : x \in S}) /\ Weighs(v, {f[x] : x \in S})
         /\ SumFunctionOnSet(v, {f[x] : x \in S}) <= SumFunctionOnSet(w, S)
<1>. DEFINE Image(T) == {f[x] : x \in T}
            Sum(T) == SumFunctionOnSet(w, T)
            Of(T)  == SumFunctionOnSet(v, T)
            Bad == {T \in SUBSET S : ~ (IsFiniteSet(Image(T)) /\ Of(Image(T)) <= Sum(T))}
<1>1. \A T \in SUBSET S : IsFiniteSet(T) /\ Weighs(w, T) /\ Sum(T) \in Nat
  BY FS_Subset, SumType DEF Weighs
<1>2. \A T \in SUBSET S : Weighs(v, Image(T))
  BY DEF Weighs
<1>3. Bad = {}
  <2>1. SUFFICES ASSUME Bad # {} PROVE FALSE
    OBVIOUS
  <2>2. PICK T \in Bad : \A V \in Bad : V \subseteq T => V = T
    <3>. HIDE DEF Bad
    <3>1. Bad \in SUBSET (SUBSET S)
      BY DEF Bad
    <3>. QED
      BY <2>1, <3>1, SmallestSet
  <2>3. PICK y \in T : TRUE
    <3>1. CASE T = {}
      <4>1. Image(T) = {}
        BY <3>1
      <4>2. Of(Image(T)) = 0 /\ Sum(T) = 0
        BY <3>1, <4>1, SumEmpty
      <4>. QED
        <5>1. IsFiniteSet(Image(T))
          BY <4>1, FS_EmptySet
        <5>2. Of(Image(T)) <= Sum(T)
          BY <4>2
        <5>. HIDE DEF Of, Sum, Image
        <5>. QED
          BY <2>2, <5>1, <5>2
    <3>. QED
      BY <3>1
  <2>. DEFINE V == T \ {y}
  <2>4. V \in SUBSET S /\ V \notin Bad /\ Image(T) = Image(V) \cup {f[y]}
    BY <2>2, <2>3
  <2>5. IsFiniteSet(Image(V)) /\ Of(Image(V)) <= Sum(V)
    <3>. HIDE DEF V, Image, Of, Sum
    <3>. QED
      BY <2>4
  <2>6. IsFiniteSet(Image(T))
    <3>. HIDE DEF Image
    <3>1. IsFiniteSet(Image(V) \cup {f[y]})
      BY <2>5, FS_AddElement
    <3>. QED
      BY <2>4, <3>1
  <2>7. Sum(T) = w[y] + Sum(V)
    BY <1>1, <2>2, <2>3, SumStep
  <2>8. Of(Image(T)) <= w[y] + Of(Image(V))
    <3>1. CASE f[y] \in Image(V)
      <4>1. Image(T) = Image(V)
        BY <2>4, <3>1
      <4>2. Of(Image(V)) \in Nat /\ w[y] \in Nat
        BY <1>2, <2>3, <2>4, <2>5, SumType DEF Weighs
      <4>. HIDE DEF Of, Image
      <4>. QED
        BY <4>1, <4>2
    <3>2. CASE f[y] \notin Image(V)
      <4>1. Image(T) \ {f[y]} = Image(V) /\ f[y] \in Image(T)
        BY <2>4, <3>2
      <4>. HIDE DEF Image
      <4>2. Of(Image(T)) = v[f[y]] + Of(Image(T) \ {f[y]})
        BY <1>2, <2>2, <2>6, <4>1, SumStep
      <4>3. v[f[y]] = w[y] /\ Of(Image(V)) \in Nat /\ w[y] \in Nat
        BY <1>2, <2>3, <2>4, <2>5, SumType DEF Weighs
      <4>. HIDE DEF Of
      <4>4. Of(Image(T) \ {f[y]}) = Of(Image(V))
        BY <4>1, Zenon
      <4>. QED
        BY <4>2, <4>3, <4>4
    <3>. QED
      BY <3>1, <3>2
  <2>9. Of(Image(V)) \in Nat /\ Of(Image(T)) \in Nat /\ Sum(V) \in Nat /\ w[y] \in Nat
    BY <1>1, <1>2, <2>2, <2>3, <2>4, <2>5, <2>6, SumType DEF Weighs
  <2>. HIDE DEF Of, Image, Sum, V
  <2>10. Of(Image(T)) <= Sum(T)
    BY <2>5, <2>7, <2>8, <2>9
  <2>. QED
    BY <2>2, <2>6, <2>10
<1>4. S \notin Bad
  BY <1>3
<1>. QED
  BY <1>2, <1>4

-----------------------------------------------------------------------------
(* Uploads: what a POST keeps of its body. *)

\* The records of one POST that are written, and the reasons of the others.
Kept(body)   == Trimmed(BsoBodies(body)).valid
Others(body) == Trimmed(BsoBodies(body)).invalid
Size(s)      == [i \in DOMAIN s |-> s[i].size]

LEMMA GreatestPlace ==
  ASSUME NEW n \in Nat, NEW S \in SUBSET (1..n), S # {}
  PROVE  \E m \in S : \A l \in S : l <= m
<1>. DEFINE Bound == {m \in Nat : \A l \in S : l <= m}
<1>1. n \in Bound
  OBVIOUS
<1>2. PICK m \in Bound : \A y \in Bound : ~ (y < m)
  <2>. HIDE DEF Bound
  <2>1. Bound # {} /\ Bound \in SUBSET Nat
    BY <1>1 DEF Bound
  <2>. QED
    BY <2>1, LeastElement
<1>3. m \in S
  <2>1. SUFFICES ASSUME m \notin S PROVE FALSE
    OBVIOUS
  <2>2. PICK s \in S : TRUE
    OBVIOUS
  <2>3. m - 1 \in Bound
    BY <1>2, <2>1, <2>2
  <2>. QED
    BY <1>2, <2>3
<1>. QED
  BY <1>2, <1>3

LEMMA PlacesAreFinite ==
  ASSUME NEW s, NEW n \in Nat, DOMAIN s = 1..n, NEW places \in SUBSET (DOMAIN s)
  PROVE  /\ IsFiniteSet(places) /\ Cardinality(places) \in Nat
         /\ IsFiniteSet(Named(s, places)) /\ Cardinality(Named(s, places)) <= Cardinality(places)
<1>1. IsFiniteSet(places) /\ Cardinality(places) \in Nat
  <2>1. IsFiniteSet(1..n)
    BY FS_Interval
  <2>2. IsFiniteSet(places)
    BY <2>1, FS_Subset
  <2>. QED
    BY <2>2, FS_CardinalityType
<1>. DEFINE f == [i \in places |-> s[i]]
<1>2. f \in Surjection(places, Named(s, places))
  BY DEF Named, Surjection
<1>. HIDE DEF f
<1>. QED
  BY <1>1, <1>2, FS_Surjection

LEMMA FirstAreFew ==
  ASSUME NEW n \in Nat, NEW places \in SUBSET (1..n), NEW k \in Nat
  PROVE  First(k, places) \subseteq places /\ Cardinality(First(k, places)) <= k
<1>1. First(k, places) \subseteq places
  BY DEF First
<1>2. CASE First(k, places) = {}
  BY <1>1, <1>2, FS_EmptySet
<1>3. CASE First(k, places) # {}
  <2>1. PICK m \in First(k, places) : \A l \in First(k, places) : l <= m
    BY <1>1, <1>3, GreatestPlace
  <2>. DEFINE upTo == {j \in places : j <= m}
  <2>2. Cardinality(upTo) <= k
    BY <2>1 DEF First
  <2>3. First(k, places) \in SUBSET upTo /\ upTo \in SUBSET (1..n)
    BY <1>1, <2>1
  <2>. HIDE DEF upTo
  <2>4. IsFiniteSet(1..n)
    BY FS_Interval
  <2>5. IsFiniteSet(upTo)
    BY <2>3, <2>4, FS_Subset
  <2>6. /\ IsFiniteSet(First(k, places))
        /\ Cardinality(First(k, places)) <= Cardinality(upTo)
    BY <2>3, <2>5, FS_Subset
  <2>7. Cardinality(First(k, places)) \in Nat /\ Cardinality(upTo) \in Nat
    BY <2>5, <2>6, FS_CardinalityType
  <2>. QED
    BY <1>1, <2>2, <2>6, <2>7
<1>. QED
  BY <1>2, <1>3

LEMMA KeptPlaces ==
  ASSUME NEW body \in Seq(Records)
  PROVE  /\ Kept(body) \subseteq {i \in DOMAIN body : FromRawBso(body[i]) /\ Fits(body, i)}
         /\ Kept(body) \subseteq BsoBodies(body).valid
         /\ Cardinality(Kept(body)) <= MaxPostRecords
         /\ DOMAIN Others(body) = DOMAIN body \ Kept(body)
<1>. DEFINE bsos == BsoBodies(body)
<1>1. /\ bsos.valid = {i \in DOMAIN body : FromRawBso(body[i]) /\ Fits(body, i)}
      /\ DOMAIN bsos.invalid = DOMAIN body \ bsos.valid
  BY DEF BsoBodies
<1>2. bsos.valid \in SUBSET (1..Len(body)) /\ Len(body) \in Nat
  BY <1>1
<1>. HIDE DEF bsos
<1>3. /\ First(MaxPostRecords, bsos.valid) \subseteq bsos.valid
      /\ Cardinality(First(MaxPostRecords, bsos.valid)) <= MaxPostRecords
  BY <1>2, FirstAreFew, UploadsAssumption
<1>4. Trimmed(bsos).valid = First(MaxPostRecords, bsos.valid)
  BY DEF Trimmed, KeepOnly
<1>5. DOMAIN Trimmed(bsos).invalid
         = (bsos.valid \ First(MaxPostRecords, bsos.valid)) \cup DOMAIN bsos.invalid
  BY DEF Trimmed, KeepOnly
<1>. QED
  BY <1>1, <1>3, <1>4, <1>5 DEF bsos, Kept, Others

LEMMA Sizes ==
  ASSUME NEW s \in Seq(Records), NEW places \in SUBSET (DOMAIN s)
  PROVE  /\ IsFiniteSet(places) /\ Weighs(Size(s), places)
         /\ IsFiniteSet(Named(s, places)) /\ Named(s, places) \subseteq Records
         /\ BytesOf(Named(s, places)) <= BytesAt(places, s)
         /\ BytesAt(places, s) <= BytesAt(DOMAIN s, s)
         /\ BytesAt(places, s) \in Nat /\ BytesAt(DOMAIN s, s) \in Nat
<1>. DEFINE w == Size(s)
            v == [r \in Records |-> r.size]
<1>1. DOMAIN s = 1..Len(s) /\ Len(s) \in Nat /\ \A i \in DOMAIN s : s[i] \in Records
  OBVIOUS
<1>2. \A i \in DOMAIN s : w[i] = s[i].size /\ w[i] \in Nat /\ v[s[i]] = w[i]
  BY <1>1, UploadsAssumption DEF Record, Size
<1>3. IsFiniteSet(DOMAIN s) /\ IsFiniteSet(places) /\ IsFiniteSet(Named(s, places))
  <2>1. IsFiniteSet(DOMAIN s)
    BY <1>1, FS_Interval
  <2>. QED
    BY <1>1, <2>1, FS_Subset, PlacesAreFinite
<1>4. /\ BytesAt(places, s) = SumFunctionOnSet(w, places)
      /\ BytesAt(DOMAIN s, s) = SumFunctionOnSet(w, DOMAIN s)
      /\ BytesOf(Named(s, places)) = SumFunctionOnSet(v, {s[i] : i \in places})
  BY DEF BytesAt, BytesOf, Size, Named
<1>. HIDE DEF w, v
<1>5. Weighs(w, DOMAIN s) /\ Weighs(w, places) /\ \A i \in places : v[s[i]] = w[i]
  BY <1>2 DEF Weighs
<1>6. SumFunctionOnSet(w, places) <= SumFunctionOnSet(w, DOMAIN s)
  BY <1>3, <1>5, SumPart
<1>7. SumFunctionOnSet(v, {s[i] : i \in places}) <= SumFunctionOnSet(w, places)
  BY <1>3, <1>5, SumImage
<1>8. SumFunctionOnSet(w, places) \in Nat /\ SumFunctionOnSet(w, DOMAIN s) \in Nat
  BY <1>3, <1>5, SumType
<1>9. Named(s, places) \subseteq Records
  BY <1>1 DEF Named
<1>. QED
  BY <1>3, <1>4, <1>5, <1>6, <1>7, <1>8, <1>9, Zenon DEF w

LEMMA KeptRecords ==
  ASSUME NEW body \in Seq(Records), ~Malformed(body), ~KnownBad(body)
  PROVE  LET ok     == Named(body, Kept(body))
             failed == Reasons(body, Others(body))
         IN  /\ IsFiniteSet(ok) /\ ok \subseteq {r \in Records : r.kind = "good"}
             /\ ok \cup DOMAIN failed = ToSet(body) /\ ok \cap DOMAIN failed = {}
             /\ Cardinality(ok) <= MaxPostRecords /\ BytesOf(ok) <= MaxPostBytes
             /\ \A r \in ok : r.size <= MaxRecordPayload
<1>. DEFINE kept   == Kept(body)
            ok     == Named(body, kept)
            failed == Reasons(body, Others(body))
<1>1. /\ kept \in SUBSET (DOMAIN body) /\ Len(body) \in Nat /\ DOMAIN body = 1..Len(body)
      /\ \A i \in kept : FromRawBso(body[i]) /\ Fits(body, i) /\ i \in BsoBodies(body).valid
      /\ Cardinality(kept) <= MaxPostRecords
      /\ \A i \in DOMAIN body : body[i] \in Records
  <2>1. /\ kept \subseteq {i \in DOMAIN body : FromRawBso(body[i]) /\ Fits(body, i)}
        /\ kept \subseteq BsoBodies(body).valid /\ Cardinality(kept) <= MaxPostRecords
    BY KeptPlaces, Zenon
  <2>. HIDE DEF kept
  <2>2. /\ Len(body) \in Nat /\ DOMAIN body = 1..Len(body)
        /\ \A i \in DOMAIN body : body[i] \in Records
    OBVIOUS
  <2>. QED
    BY <2>1, <2>2, Zenon
<1>2. DOMAIN failed = Named(body, DOMAIN body \ kept)
  BY KeptPlaces DEF Reasons
<1>. HIDE DEF kept, failed
<1>3. ok \cup DOMAIN failed = ToSet(body)
  <2>1. Named(body, kept) \cup Named(body, DOMAIN body \ kept) = ToSet(body)
    BY <1>1, Zenon DEF Named, ToSet
  <2>. QED
    BY <1>2, <2>1
<1>4. ok \cap DOMAIN failed = {}
  <2>1. SUFFICES ASSUME NEW i \in kept, NEW j \in DOMAIN body \ kept, body[i] = body[j]
                 PROVE  FALSE
    BY <1>2 DEF Named
  <2>2. body[i].id = body[j].id /\ i # j /\ i \in DOMAIN body
    BY <1>1, <2>1
  <2>. QED
    BY <2>2, Zenon DEF Malformed
<1>5. \A r \in ok : r \in Records /\ r.kind = "good" /\ r.size <= MaxRecordPayload
  <2>1. SUFFICES ASSUME NEW i \in kept
                 PROVE  /\ body[i] \in Records /\ body[i].kind = "good"
                        /\ body[i].size <= MaxRecordPayload
    BY DEF Named
  <2>2. body[i].kind # "knownbad"
    BY <1>1 DEF KnownBad
  <2>. QED
    BY <1>1, <2>2 DEF FromRawBso, Fits
<1>6. IsFiniteSet(ok) /\ Cardinality(ok) <= MaxPostRecords
  <2>1. /\ IsFiniteSet(ok) /\ Cardinality(ok) <= Cardinality(kept)
        /\ Cardinality(kept) \in Nat
    BY <1>1, PlacesAreFinite
  <2>2. Cardinality(ok) \in Nat
    BY <2>1, FS_CardinalityType
  <2>. QED
    BY <1>1, <2>1, <2>2, UploadsAssumption
<1>7. BytesOf(ok) <= MaxPostBytes
  <2>1. CASE kept = {}
    <3>1. ok = {}
      BY <2>1 DEF Named
    <3>2. BytesOf(ok) = 0
      BY <3>1, SumEmpty DEF BytesOf
    <3>. QED
      BY <3>2, UploadsAssumption
  <2>2. CASE kept # {}
    <3>1. PICK m \in kept : \A l \in kept : l <= m
      BY <1>1, <2>2, GreatestPlace
    <3>. DEFINE upTo == {j \in 1..m : FromRawBso(body[j])}
    <3>2. kept \in SUBSET upTo /\ upTo \in SUBSET (DOMAIN body)
      BY <1>1, <3>1
    <3>3. BytesAt(upTo, body) <= MaxPostBytes
      BY <1>1, <3>1 DEF Fits
    <3>. HIDE DEF upTo
    <3>4. /\ BytesOf(ok) <= BytesAt(kept, body) /\ BytesAt(kept, body) \in Nat
          /\ BytesAt(upTo, body) \in Nat
          /\ IsFiniteSet(upTo) /\ Weighs(Size(body), upTo)
      BY <1>1, <3>2, Sizes
    <3>5. BytesAt(kept, body) <= BytesAt(upTo, body)
      BY <3>2, <3>4, SumPart DEF BytesAt, Size
    <3>6. BytesOf(ok) \in Nat
      <4>1. IsFiniteSet(ok)
        BY <1>6
      <4>2. Weighs([r \in Records |-> r.size], ok)
        BY <1>5, UploadsAssumption DEF Weighs, Record
      <4>. HIDE DEF ok
      <4>. QED
        BY <4>1, <4>2, SumType DEF BytesOf
    <3>. QED
      BY <3>3, <3>4, <3>5, <3>6, UploadsAssumption
  <2>. QED
    BY <2>1, <2>2
<1>. QED
  BY <1>3, <1>4, <1>5, <1>6, <1>7 DEF kept, failed

-----------------------------------------------------------------------------
(* Uploads: the client's steps. *)

\* What the server writes.
Good == {r \in Records : r.kind = "good"}

UploadInv == TypeOK /\ IsFiniteSet(batch) /\ EveryRecordIsAnswered /\ PostsKeepTheirLimits

\* An answer names records of the body only.
OfBody(status, body, ok, failed) ==
    /\ status \in {200, 202} /\ ok \subseteq body /\ DOMAIN failed \subseteq body
    /\ body \subseteq Records /\ IsFiniteSet(body)

WritesGood == batch' \cup stored' \subseteq Good /\ (batch' # {} => open') /\ IsFiniteSet(batch')

\* The client goes on with records.
LEMMA AnsweredKeeps ==
  ASSUME TypeOK, NEW verb, NEW status, NEW body, NEW ok, NEW failed, NEW rest \in Seq(Records),
         Answered(verb, status, body, ok, failed, rest), OfBody(status, body, ok, failed),
         WritesGood
  PROVE  TypeOK'
<1>1. PICK left \in SetToSeqs(Retry(failed)) : queue' = rest \o left
  BY DEF Answered
<1>2. Retry(failed) \subseteq Records /\ Cardinality(Retry(failed)) \in Nat
  <2>1. Retry(failed) \in SUBSET body /\ body \subseteq Records /\ IsFiniteSet(body)
    BY DEF Retry, OfBody
  <2>2. IsFiniteSet(Retry(failed))
    BY <2>1, FS_Subset
  <2>. QED
    BY <2>1, <2>2, FS_CardinalityType
<1>3. left \in [1..Cardinality(Retry(failed)) -> Retry(failed)]
  BY DEF SetToSeqs
<1>4. left \in Seq(Records)
  <2>. DEFINE n == Cardinality(Retry(failed))
  <2>1. left \in [1..n -> Records] /\ n \in Nat
    BY <1>2, <1>3
  <2>. HIDE DEF n
  <2>. QED
    BY <2>1
<1>5. queue' \in Seq(Records)
  BY <1>1, <1>4
<1>. QED
  BY <1>5 DEF Answered, TypeOK, Good, OfBody, WritesGood

LEMMA RefuseKeeps ==
  ASSUME UploadInv, NEW verb, NEW body, Refuse(verb, body)
  PROVE  UploadInv'
<1>1. answer' = [verb |-> verb, status |-> 400, body |-> body, success |-> {}, failed |-> <<>>]
  BY DEF Refuse
<1>2. TypeOK' /\ IsFiniteSet(batch)'
  BY DEF UploadInv, Refuse, TypeOK
<1>3. EveryRecordIsAnswered'
  BY <1>1 DEF EveryRecordIsAnswered
<1>4. PostsKeepTheirLimits'
  <2>1. Cardinality({}) = 0 /\ BytesOf({}) = 0
    BY FS_EmptySet, SumEmpty DEF BytesOf
  <2>2. answer'.success = {}
    BY <1>1
  <2>3. BytesOf(answer.success)' = BytesOf(answer'.success)
    BY DEF BytesOf
  <2>. QED
    BY <2>1, <2>2, <2>3, UploadsAssumption DEF PostsKeepTheirLimits
<1>. QED
  BY <1>2, <1>3, <1>4 DEF UploadInv

LEMMA PutKeeps ==
  ASSUME UploadInv, Put
  PROVE  UploadInv'
<1>. DEFINE r == Head(queue)
<1>1. queue \in Seq(Records) /\ queue # <<>>
  BY DEF UploadInv, TypeOK, Put
<1>2. r \in Records /\ Tail(queue) \in Seq(Records)
  BY <1>1
<1>3. CASE PutRefused(r) /\ Refuse("put", {r})
  BY <1>3, RefuseKeeps
<1>4. CASE /\ ~PutRefused(r) /\ stored' = stored \cup {r} /\ UNCHANGED <<open, batch>>
           /\ Answered("put", 200, {r}, {r}, <<>>, Tail(queue))
  <2>. HIDE DEF r
  <2>. DEFINE it   == {r}
              none == <<>>
              rest == Tail(queue)
  <2>1. WritesGood
    BY <1>2, <1>4 DEF UploadInv, TypeOK, PutRefused, Good, WritesGood
  <2>2. DOMAIN none = {}
    OBVIOUS
  <2>3. OfBody(200, it, it, none)
    BY <1>2, <2>2, FS_Singleton DEF OfBody
  <2>4. Answered("put", 200, it, it, none, rest)
    BY <1>4
  <2>. HIDE DEF it, none, rest
  <2>5. TypeOK'
    BY <1>2, <2>1, <2>3, <2>4, AnsweredKeeps DEF UploadInv, rest
  <2>6. answer' = [verb |-> "put", status |-> 200, body |-> it, success |-> it,
                   failed |-> none]
    BY <2>4 DEF Answered
  <2>7. EveryRecordIsAnswered' /\ PostsKeepTheirLimits'
    BY <2>2, <2>6 DEF EveryRecordIsAnswered, PostsKeepTheirLimits
  <2>. QED
    BY <2>1, <2>5, <2>7 DEF UploadInv, WritesGood
<1>. QED
  BY <1>3, <1>4 DEF Put

\* What a POST of the first k records, taken on, answers.
PostAnswered(k, status) ==
    LET body == SubSeq(queue, 1, k) IN
    Answered("post", status, ToSet(body), Named(body, Kept(body)), Reasons(body, Others(body)),
             SubSeq(queue, k + 1, Len(queue)))

LEMMA PostAnsweredKeeps ==
  ASSUME UploadInv, NEW k \in 1..MaxUpload, k <= Len(queue), NEW status \in {200, 202},
         ~Malformed(SubSeq(queue, 1, k)), ~KnownBad(SubSeq(queue, 1, k)),
         PostAnswered(k, status), WritesGood
  PROVE  UploadInv'
<1>. DEFINE body   == SubSeq(queue, 1, k)
            rest   == SubSeq(queue, k + 1, Len(queue))
            ok     == Named(body, Kept(body))
            failed == Reasons(body, Others(body))
<1>1. /\ body \in Seq(Records) /\ rest \in Seq(Records)
      /\ ~Malformed(body) /\ ~KnownBad(body)
  BY UploadsAssumption DEF UploadInv, TypeOK
<1>2. Answered("post", status, ToSet(body), ok, failed, rest)
  BY DEF PostAnswered
<1>. HIDE DEF body, rest
<1>3. /\ ok \cup DOMAIN failed = ToSet(body) /\ ok \cap DOMAIN failed = {}
      /\ Cardinality(ok) <= MaxPostRecords /\ BytesOf(ok) <= MaxPostBytes
      /\ \A r \in ok : r.size <= MaxRecordPayload
  BY <1>1, KeptRecords
<1>4. ToSet(body) \subseteq Records /\ IsFiniteSet(ToSet(body))
  <2>1. ToSet(body) = Named(body, DOMAIN body)
    BY DEF ToSet, Named
  <2>. QED
    BY <1>1, <2>1, Sizes
<1>. HIDE DEF failed
<1>5. OfBody(status, ToSet(body), ok, failed)
  BY <1>3, <1>4 DEF OfBody
<1>. HIDE DEF ok
<1>6. /\ TypeOK'
      /\ answer' = [verb |-> "post", status |-> status, body |-> ToSet(body), success |-> ok,
                    failed |-> failed]
  <2>1. TypeOK'
    BY <1>1, <1>2, <1>5, AnsweredKeeps DEF UploadInv
  <2>. QED
    BY <1>2, <2>1 DEF Answered
<1>7. EveryRecordIsAnswered'
  BY <1>3, <1>6 DEF EveryRecordIsAnswered
<1>8. PostsKeepTheirLimits'
  <2>1. answer'.success = ok
    BY <1>6
  <2>2. BytesOf(answer.success)' = BytesOf(answer'.success)
    BY DEF BytesOf
  <2>. QED
    BY <1>3, <2>1, <2>2 DEF PostsKeepTheirLimits
<1>. QED
  BY <1>6, <1>7, <1>8 DEF UploadInv, WritesGood

LEMMA PostKeeps ==
  ASSUME UploadInv, NEW k \in 1..MaxUpload, NEW p, Post(k, p)
  PROVE  UploadInv'
<1>. DEFINE body   == SubSeq(queue, 1, k)
            ok     == Named(body, Kept(body))
            before == IF p.batch = "open" THEN batch ELSE {}
<1>1. k <= Len(queue) /\ body \in Seq(Records)
  BY UploadsAssumption DEF UploadInv, TypeOK, Post
<1>2. CASE Refuse("post", ToSet(body))
  BY <1>2, RefuseKeeps
<1>3. CASE ~Refused(body, before, p)
  <2>. HIDE DEF body
  <2>1. ~Malformed(body) /\ ~KnownBad(body)
    BY <1>3 DEF Refused
  <2>2. /\ IsFiniteSet(ok) /\ ok \subseteq Good
    BY <1>1, <2>1, KeptRecords, Zenon DEF Good
  <2>. HIDE DEF ok
  <2>3. /\ IsFiniteSet(batch) /\ batch \cup stored \subseteq Good
        /\ batch # {} => open
    BY DEF UploadInv, TypeOK, Good
  <2>4. IsFiniteSet(before \cup ok) /\ before \subseteq batch
    BY <2>2, <2>3, FS_Union, FS_EmptySet
  <2>. HIDE DEF before
  <2>5. CASE stored' = stored \cup ok /\ UNCHANGED <<open, batch>> /\ PostAnswered(k, 200)
    <3>1. WritesGood
      BY <2>2, <2>3, <2>5 DEF WritesGood
    <3>. QED
      BY <1>1, <2>1, <2>5, <3>1, PostAnsweredKeeps DEF body
  <2>6. CASE /\ open' = TRUE /\ batch' = before \cup ok /\ UNCHANGED stored
             /\ PostAnswered(k, 202)
    <3>1. WritesGood
      BY <2>2, <2>3, <2>4, <2>6 DEF WritesGood
    <3>. QED
      BY <1>1, <2>1, <2>6, <3>1, PostAnsweredKeeps DEF body
  <2>7. CASE /\ open' = FALSE /\ batch' = {} /\ stored' = stored \cup before \cup ok
             /\ PostAnswered(k, 200)
    <3>1. WritesGood
      BY <2>2, <2>3, <2>4, <2>7, FS_EmptySet DEF WritesGood
    <3>. QED
      BY <1>1, <2>1, <2>7, <3>1, PostAnsweredKeeps DEF body
  <2>. QED
    BY <1>2, <1>3, <2>5, <2>6, <2>7 DEF Post, PostAnswered, Kept, Others, body, ok, before
<1>. QED
  BY <1>2, <1>3 DEF Post

LEMMA InitUploadInv == Init => UploadInv
<1>. SUFFICES ASSUME Init PROVE UploadInv
  OBVIOUS
<1>1. upload \in Seq(Records)
  <2>1. PICK n \in 1..MaxUpload : upload \in [1..n -> Records]
    BY DEF Init
  <2>. QED
    BY <2>1
<1>2. answer.verb = "none" /\ answer.status = 0 /\ answer.success = {} /\ answer.body = {}
      /\ answer.failed = <<>>
  BY DEF Init, NoAnswer
<1>3. TypeOK
  BY <1>1, <1>2 DEF Init, TypeOK
<1>4. EveryRecordIsAnswered /\ PostsKeepTheirLimits
  BY <1>2 DEF EveryRecordIsAnswered, PostsKeepTheirLimits
<1>. QED
  BY <1>3, <1>4, FS_EmptySet DEF UploadInv, Init

LEMMA StepUploadInv == UploadInv /\ [Next]_vars => UploadInv'
<1>1. ASSUME UploadInv, UNCHANGED vars PROVE UploadInv'
  BY <1>1 DEF vars, UploadInv, TypeOK, EveryRecordIsAnswered, PostsKeepTheirLimits, BytesOf
<1>2. ASSUME UploadInv, NEW k \in 1..MaxUpload, NEW p \in ParamsOf(k), Post(k, p) PROVE UploadInv'
  BY <1>2, PostKeeps
<1>. QED
  BY <1>1, <1>2, PutKeeps DEF Next

LEMMA AlwaysUploadInv == Spec => []UploadInv
  BY InitUploadInv, StepUploadInv, PTL DEF Spec

\* A part of what a batch had before and a POST brings keeps the limits that the
\* headers, of all there is to send, keep.
LEMMA PartKeepsLimits ==
  ASSUME NEW s \in Seq(Records), NEW before \in SUBSET Records, IsFiniteSet(before),
         NEW places \in SUBSET (DOMAIN s), NEW whole \in SUBSET (before \cup Named(s, places)),
         Cardinality(before) + Len(s) <= MaxTotalRecords,
         BytesOf(before) + BytesAt(DOMAIN s, s) <= MaxTotalBytes
  PROVE  Cardinality(whole) <= MaxTotalRecords /\ BytesOf(whole) <= MaxTotalBytes
<1>. DEFINE ok == Named(s, places)
            v  == [r \in Records |-> r.size]
<1>1. /\ IsFiniteSet(ok) /\ ok \subseteq Records /\ BytesOf(ok) <= BytesAt(DOMAIN s, s)
      /\ BytesAt(DOMAIN s, s) \in Nat
  <2>1. /\ IsFiniteSet(ok) /\ ok \subseteq Records /\ BytesOf(ok) <= BytesAt(places, s)
        /\ BytesAt(places, s) <= BytesAt(DOMAIN s, s)
        /\ BytesAt(places, s) \in Nat /\ BytesAt(DOMAIN s, s) \in Nat
    BY Sizes, Zenon
  <2>2. BytesOf(ok) \in Nat
    <3>1. Weighs(v, ok)
      BY <2>1, UploadsAssumption DEF Weighs, Record
    <3>. HIDE DEF ok
    <3>. QED
      BY <2>1, <3>1, SumType DEF BytesOf
  <2>. HIDE DEF ok
  <2>. QED
    BY <2>1, <2>2
<1>2. Cardinality(ok) <= Len(s)
  <2>. DEFINE n == Len(s)
  <2>1. DOMAIN s = 1..n /\ n \in Nat
    OBVIOUS
  <2>. HIDE DEF n
  <2>2. Cardinality(ok) <= Cardinality(places) /\ Cardinality(places) \in Nat
    BY <2>1, PlacesAreFinite
  <2>3. Cardinality(places) <= n
    <3>1. IsFiniteSet(1..n) /\ Cardinality(1..n) = n
      BY <2>1, FS_Interval
    <3>2. places \in SUBSET (1..n)
      BY <2>1
    <3>3. Cardinality(places) <= Cardinality(1..n)
      BY <3>1, <3>2, FS_Subset
    <3>. QED
      BY <3>1, <3>3
  <2>4. Cardinality(ok) \in Nat
    BY <1>1, FS_CardinalityType
  <2>. HIDE DEF ok
  <2>. QED
    BY <2>1, <2>2, <2>3, <2>4 DEF n
<1>. DEFINE all == before \cup ok
<1>. HIDE DEF ok
<1>3. IsFiniteSet(all) /\ all \subseteq Records
  BY <1>1, FS_Union
<1>4. Cardinality(all) <= Cardinality(before) + Cardinality(ok)
  <2>1. Cardinality(all) = Cardinality(before) + Cardinality(ok) - Cardinality(before \cap ok)
    BY <1>1, FS_Union
  <2>2. /\ Cardinality(before \cap ok) \in Nat
        /\ Cardinality(before) \in Nat /\ Cardinality(ok) \in Nat
    BY <1>1, FS_Intersection, FS_CardinalityType
  <2>. QED
    BY <2>1, <2>2
<1>5. Weighs(v, all)
  BY <1>3, UploadsAssumption DEF Weighs, Record
<1>6. BytesOf(all) <= BytesOf(before) + BytesOf(ok)
  <2>1. before \in SUBSET all /\ ok \in SUBSET all
    OBVIOUS
  <2>. HIDE DEF v
  <2>2. SumFunctionOnSet(v, before \cup ok) <= SumFunctionOnSet(v, before) + SumFunctionOnSet(v, ok)
    <3>. HIDE DEF all
    <3>1. \A A, B \in SUBSET all :
             SumFunctionOnSet(v, A \cup B) <= SumFunctionOnSet(v, A) + SumFunctionOnSet(v, B)
      BY <1>3, <1>5, SumUnion, Zenon
    <3>. QED
      BY <2>1, <3>1, Zenon
  <2>. QED
    BY <2>2, Zenon DEF BytesOf, v
<1>7. whole \in SUBSET all /\ before \in SUBSET all /\ ok \in SUBSET all
  BY DEF ok
<1>. HIDE DEF all
<1>8. /\ Cardinality(whole) <= Cardinality(all) /\ Cardinality(whole) \in Nat
      /\ Cardinality(all) \in Nat /\ Cardinality(before) \in Nat /\ Cardinality(ok) \in Nat
  <2>1. IsFiniteSet(whole) /\ Cardinality(whole) <= Cardinality(all)
    BY <1>3, <1>7, FS_Subset
  <2>. QED
    BY <1>1, <1>3, <2>1, FS_CardinalityType, Zenon
<1>9. BytesOf(whole) <= BytesOf(all)
  BY <1>3, <1>5, <1>7, SumPart DEF BytesOf
<1>10. ASSUME NEW S \in SUBSET all PROVE BytesOf(S) \in Nat
  <2>1. IsFiniteSet(S) /\ Weighs(v, S)
    BY <1>3, <1>5, FS_Subset DEF Weighs
  <2>. QED
    BY <2>1, SumType DEF BytesOf
<1>11. /\ BytesOf(whole) \in Nat /\ BytesOf(all) \in Nat
       /\ BytesOf(before) \in Nat /\ BytesOf(ok) \in Nat
  BY <1>7, <1>10
<1>12. Cardinality(whole) <= MaxTotalRecords
  BY <1>2, <1>4, <1>8, UploadsAssumption
<1>13. BytesOf(whole) <= MaxTotalBytes
  BY <1>1, <1>6, <1>9, <1>11, UploadsAssumption
<1>. QED
  BY <1>12, <1>13

\* What a step does to the batch, and what of the queue it takes.
WithinLimits ==
    LET whole == IF stored' = stored THEN batch' ELSE stored' \ stored IN
    client.announces /\ answer'.verb = "post"
    => Cardinality(whole) <= MaxTotalRecords /\ BytesOf(whole) <= MaxTotalBytes

LEMMA PostWithinLimits ==
  ASSUME UploadInv, ~UNCHANGED <<open, batch, stored>>,
         \E k \in 1..MaxUpload : \E p \in ParamsOf(k) : Post(k, p)
  PROVE  WithinLimits
<1>0. PICK k \in 1..MaxUpload : \E p \in ParamsOf(k) : Post(k, p)
  OBVIOUS
<1>1. PICK p \in ParamsOf(k) : Post(k, p)
  BY <1>0
<1>. DEFINE body   == SubSeq(queue, 1, k)
            ok     == Named(body, Kept(body))
            before == IF p.batch = "open" THEN batch ELSE {}
            whole  == IF stored' = stored THEN batch' ELSE stored' \ stored
<1>2. ~Refuse("post", ToSet(body))
  BY DEF Refuse
<1>3. ~Refused(body, before, p) /\ whole \subseteq before \cup ok
  <2>. HIDE DEF body
  <2>1. ~Refused(body, before, p)
    BY <1>1, <1>2 DEF Post, body
  <2>. HIDE DEF before, ok
  <2>2. \/ stored' = stored \cup ok /\ UNCHANGED <<open, batch>>
        \/ batch' = before \cup ok /\ UNCHANGED stored
        \/ batch' = {} /\ stored' = stored \cup before \cup ok
    BY <1>1, <1>2 DEF Post, body, before, ok, Kept
  <2>. QED
    BY <2>1, <2>2
<1>4. /\ queue \in Seq(Records) /\ k <= Len(queue) /\ k \in Nat
      /\ before \in SUBSET Records /\ IsFiniteSet(before)
  BY <1>1, UploadsAssumption, FS_EmptySet DEF UploadInv, TypeOK, Post
<1>5. Kept(body) \in SUBSET (DOMAIN queue) /\ ok = Named(queue, Kept(body))
  <2>1. /\ body \in Seq(Records) /\ DOMAIN body = 1..k /\ DOMAIN queue = 1..Len(queue)
        /\ \A i \in 1..k : body[i] = queue[i]
    BY <1>4
  <2>2. Kept(body) \subseteq DOMAIN body
    BY <2>1, KeptPlaces
  <2>. HIDE DEF body
  <2>. QED
    BY <1>4, <2>1, <2>2 DEF Named
<1>. HIDE DEF before, body, ok
<1>6. ASSUME client.announces
      PROVE  /\ Cardinality(before) + Len(queue) <= MaxTotalRecords
             /\ BytesOf(before) + BytesAt(DOMAIN queue, queue) <= MaxTotalBytes
  BY <1>3, <1>6 DEF Refused, WithinHeaders
<1>7. ASSUME client.announces
      PROVE  Cardinality(whole) <= MaxTotalRecords /\ BytesOf(whole) <= MaxTotalBytes
  <2>1. whole \in SUBSET (before \cup Named(queue, Kept(body)))
    BY <1>3, <1>5
  <2>. HIDE DEF whole
  <2>. QED
    BY <1>4, <1>5, <1>6, <1>7, <2>1, PartKeepsLimits
<1>. QED
  BY <1>7 DEF WithinLimits

\* Only records without a fault are written, to a batch or to the collection
\* (BsoBodies, BsoBody).
THEOREM UploadsAreTyped == Spec => []TypeOK
<1>1. UploadInv => TypeOK
  BY DEF UploadInv
<1>. QED
  BY <1>1, AlwaysUploadInv, PTL

\* Every record of a body is among the successes or the failures of its answer,
\* never both and never neither, however it is trimmed to the limits of a POST
\* (BsoBodies, CollectionPostRequest).
THEOREM RecordsAreAnswered == Spec => []EveryRecordIsAnswered
<1>1. UploadInv => EveryRecordIsAnswered
  BY DEF UploadInv
<1>. QED
  BY <1>1, AlwaysUploadInv, PTL

\* What a POST writes keeps the limits of a request, whatever its headers announce
\* (BsoBodies, ServerLimits).
THEOREM PostsAreLimited == Spec => []PostsKeepTheirLimits
<1>1. UploadInv => PostsKeepTheirLimits
  BY DEF UploadInv
<1>. QED
  BY <1>1, AlwaysUploadInv, PTL

LEMMA StepWithinLimits ==
  ASSUME UploadInv, [Next]_vars, ~UNCHANGED <<open, batch, stored>>
  PROVE  WithinLimits
<1>0a. CASE Put
  <2>1. answer'.verb = "put"
    BY <1>0a DEF Put, Refuse, Answered
  <2>. QED
    BY <2>1, Zenon DEF WithinLimits
<1>0b. CASE \E k \in 1..MaxUpload : \E p \in ParamsOf(k) : Post(k, p)
  BY <1>0b, PostWithinLimits
<1>. QED
  BY <1>0a, <1>0b DEF Next, vars

\* What a POST has written of an upload, to a batch or to the collection, keeps the
\* limits of a batch upload, for a client that announces its totals, in whatever
\* order it uses the parameters and also when one POST creates and commits a batch
\* (BatchRequestOpt, ServerLimits).
THEOREM BatchesAreLimited == Spec => BatchesKeepTheirLimits
<1>1. UploadInv /\ [Next]_vars => [WithinLimits]_<<open, batch, stored>>
  BY StepWithinLimits
<1>. QED
  BY <1>1, AlwaysUploadInv, PTL DEF Spec, BatchesKeepTheirLimits, WithinLimits

-----------------------------------------------------------------------------
(* SyncTimestamp: timestamps that go through a header. *)

StampInv ==
    /\ modified \in Timestamp /\ header \in Timestamp \cup {NoHeader}
    /\ ChangesAreNoticed

\* What from_header gives is the header's time or a little earlier.
LEMMA FromHeaderIsNotLater ==
  ASSUME NEW h \in Timestamp, NEW t \in Timestamp, After(t, h)
  PROVE  After(t, FromHeader(h))
<1>1. FromHeader(h) \in {h, Before10ms(h)}
  BY Zenon DEF FromHeader
<1>2. After(t, Before10ms(h))
  <2>1. CASE h.hund > 0
    <3>1. /\ Before10ms(h).era = h.era /\ Before10ms(h).off = h.off
          /\ Before10ms(h).hund = h.hund - 1
      BY <2>1 DEF Before10ms, Timestamp
    <3>. QED
      BY <3>1 DEF After, Timestamp
  <2>2. CASE ~(h.hund > 0)
    <3>1. Before10ms(h).era = h.era /\ Before10ms(h).off = h.off - 1
      BY <2>2 DEF Before10ms, Timestamp
    <3>. QED
      BY <3>1 DEF After, Timestamp
  <2>. QED
    BY <2>1, <2>2
<1>. QED
  BY <1>1, <1>2

\* The answer to either header when the collection has changed since.
LEMMA ChangeIsNoticed ==
  ASSUME modified \in Timestamp, header \in Timestamp,
         NEW since \in {header, NoHeader}, NEW unless \in {header, NoHeader},
         After(modified, header)
  PROVE  LET e == Extrude(since, unless) IN
         /\ e.kind = "unmodified" => Status(e) = 412
         /\ e.kind = "modified" => Status(e) = 200
<1>. DEFINE e  == Extrude(since, unless)
            at == FromHeader(header)
<1>1. After(modified, at)
  BY FromHeaderIsNotLater
<1>2. \/ e.kind \in {"conflict", "none"}
      \/ e = [kind |-> "modified", at |-> at]
      \/ e = [kind |-> "unmodified", at |-> at]
  BY DEF Extrude
<1>. HIDE DEF e, at
<1>3. e.kind = "unmodified" => Status(e) = 412
  BY <1>1, <1>2 DEF Status
<1>4. e.kind = "modified" => Status(e) = 200
  BY <1>1, <1>2 DEF Status
<1>. QED
  BY <1>3, <1>4 DEF e

LEMMA StampStep ==
  ASSUME StampInv, [StampNext]_stampVars
  PROVE  StampInv'
<1>1. CASE Read
  BY <1>1 DEF Read, AsHeader, StampInv, ChangesAreNoticed
<1>2. CASE Write
  BY <1>2, SyncTimestampAssumption DEF Write, StampInv, ChangesAreNoticed
<1>3. CASE Conditional
  <2>1. PICK since \in {header, NoHeader}, unless \in {header, NoHeader} :
            result' = [of      |-> Extrude(since, unless).kind,
                       status  |-> Status(Extrude(since, unless)),
                       changed |-> After(modified, header)]
    BY <1>3 DEF Conditional
  <2>2. modified \in Timestamp /\ header \in Timestamp /\ UNCHANGED <<modified, header>>
    BY <1>3 DEF Conditional, StampInv
  <2>3. ChangesAreNoticed'
    <3>. DEFINE e == Extrude(since, unless)
    <3>1. ASSUME After(modified, header)
          PROVE  /\ e.kind = "unmodified" => Status(e) = 412
                 /\ e.kind = "modified" => Status(e) = 200
      BY <2>2, <3>1, ChangeIsNoticed
    <3>. HIDE DEF e
    <3>2. /\ result'.of = e.kind /\ result'.status = Status(e)
          /\ result'.changed => After(modified, header)
      <4>. DEFINE after == After(modified, header)
      <4>1. result' = [of |-> e.kind, status |-> Status(e), changed |-> after]
        BY <2>1, Zenon DEF e
      <4>. HIDE DEF after
      <4>2. /\ result'.of = e.kind /\ result'.status = Status(e)
            /\ result'.changed = after
        BY <4>1
      <4>. QED
        BY <4>2 DEF after
    <3>. QED
      BY <3>1, <3>2 DEF ChangesAreNoticed
  <2>. QED
    BY <2>2, <2>3 DEF StampInv
<1>4. CASE UNCHANGED stampVars
  BY <1>4 DEF stampVars, StampInv, ChangesAreNoticed
<1>. QED
  BY <1>1, <1>2, <1>3, <1>4 DEF StampNext

\* A write after the time a client sends is never taken for none: from_header never
\* gives a later time than was sent (PreConditionHeader, SyncTimestamp).
THEOREM EveryChangeIsNoticed == StampSpec => []ChangesAreNoticed
<1>1. StampInit => StampInv
  BY SyncTimestampAssumption DEF StampInit, StampInv, ChangesAreNoticed
<1>2. StampInv => ChangesAreNoticed
  BY DEF StampInv
<1>. QED
  BY <1>1, <1>2, StampStep, PTL DEF StampSpec

\* The moments where the float of the seconds has room for the product by 1000:
\* those after 1.024 * 2^era, from November 2004 until 2038 in this era.
RoomForTheProduct == \A t \in Moments \cup {Later} : HalfPlace(t) = 512

PowModTo(f, n) ==
    /\ f \in [0..n -> 0..99]
    /\ \A k \in 0..n : f[k] = IF k = 0 THEN 1 ELSE (2 * f[k - 1]) % 100

LEMMA PowModExists == ASSUME NEW n \in Nat PROVE \E f : PowModTo(f, n)
<1>. DEFINE Bad == {m \in Nat : ~ \E f : PowModTo(f, m)}
<1>1. SUFFICES ASSUME Bad # {} PROVE FALSE
  OBVIOUS
<1>2. PICK m \in Bad : \A y \in Bad : ~ (y < m)
  <2>. HIDE DEF Bad
  <2>1. Bad \in SUBSET Nat
    BY DEF Bad
  <2>. QED
    BY <1>1, <2>1, LeastElement
<1>3. CASE m = 0
  <2>1. PowModTo([k \in 0..0 |-> 1], 0)
    BY DEF PowModTo
  <2>. QED
    BY <1>2, <1>3, <2>1
<1>4. CASE m # 0
  <2>1. m - 1 \in Nat /\ m - 1 < m /\ m \in Nat
    BY <1>2, <1>4
  <2>2. PICK f : PowModTo(f, m - 1)
    BY <1>2, <2>1
  <2>. DEFINE g == [k \in 0..m |-> IF k = m THEN (2 * f[m - 1]) % 100 ELSE f[k]]
  <2>3. (2 * f[m - 1]) % 100 \in 0..99
    <3>1. f[m - 1] \in 0..99
      BY <2>1, <2>2 DEF PowModTo
    <3>. QED
      BY <3>1
  <2>4. g \in [0..m -> 0..99]
    <3>1. ASSUME NEW k \in 0..m, k # m PROVE f[k] \in 0..99
      BY <2>1, <2>2, <3>1 DEF PowModTo
    <3>. QED
      BY <2>3, <3>1
  <2>5. ASSUME NEW k \in 0..m PROVE g[k] = IF k = 0 THEN 1 ELSE (2 * g[k - 1]) % 100
    <3>1. CASE k = m
      BY <1>4, <2>1, <3>1
    <3>2. CASE k # m
      <4>1. k \in 0..(m - 1) /\ (k # 0 => k - 1 \in 0..m /\ k - 1 # m)
        BY <2>1, <3>2
      <4>2. g[k] = f[k] /\ (k # 0 => g[k - 1] = f[k - 1])
        BY <2>1, <3>2, <4>1
      <4>3. f[k] = IF k = 0 THEN 1 ELSE (2 * f[k - 1]) % 100
        BY <2>2, <4>1, Zenon DEF PowModTo
      <4>. QED
        BY <4>2, <4>3, Zenon
    <3>. QED
      BY <3>1, <3>2
  <2>. HIDE DEF g
  <2>6. PowModTo(g, m)
    BY <2>4, <2>5 DEF PowModTo
  <2>. QED
    BY <1>2, <2>6, Zenon
<1>. QED
  BY <1>3, <1>4, Zenon

LEMMA PowModType == ASSUME NEW k \in 0..37 PROVE PowMod[k] \in 0..99
<1>. DEFINE n == 37
<1>0. n \in Nat
  OBVIOUS
<1>. HIDE DEF n
<1>1. PICK f : PowModTo(f, n)
  BY <1>0, PowModExists, Zenon
<1>2. f = [l \in 0..37 |-> IF l = 0 THEN 1 ELSE (2 * f[l - 1]) % 100]
  <2>1. f = [l \in 0..n |-> IF l = 0 THEN 1 ELSE (2 * f[l - 1]) % 100]
    BY <1>1 DEF PowModTo
  <2>. QED
    BY <2>1, Zenon DEF n
<1>. DEFINE Is(g) == g = [l \in 0..37 |-> IF l = 0 THEN 1 ELSE (2 * g[l - 1]) % 100]
<1>. DEFINE h   == PowMod
            Bad == {l \in 0..37 : h[l] \notin 0..99}
<1>3. Is(h)
  <2>1. h = CHOOSE g : Is(g)
    BY DEF PowMod
  <2>2. Is(f)
    BY <1>2
  <2>. HIDE DEF Is, h
  <2>. QED
    BY <2>1, <2>2, Zenon
<1>. HIDE DEF h
<1>4. \A l \in 0..37 : h[l] = IF l = 0 THEN 1 ELSE (2 * h[l - 1]) % 100
  BY <1>3
<1>. HIDE DEF Is
<1>5. SUFFICES ASSUME Bad # {} PROVE FALSE
  BY DEF h
<1>6. PICK m \in Bad : \A y \in Bad : ~ (y < m)
  <2>. HIDE DEF Bad
  <2>1. Bad \in SUBSET Nat
    BY DEF Bad
  <2>. QED
    BY <1>5, <2>1, LeastElement
<1>7. CASE m = 0
  BY <1>4, <1>6, <1>7
<1>8. CASE m # 0
  <2>1. m - 1 \in 0..37 /\ m - 1 < m /\ h[m] = (2 * h[m - 1]) % 100
    BY <1>4, <1>6, <1>8
  <2>2. h[m - 1] \in 0..99
    BY <1>6, <2>1
  <2>3. h[m] \in 0..99
    BY <2>1, <2>2
  <2>. QED
    BY <1>6, <2>3
<1>. QED
  BY <1>7, <1>8

LEMMA FromHeaderIsExact ==
  ASSUME NEW t \in Timestamp, HalfPlace(t) = 512
  PROVE  FromHeader(t) = t
<1>. DEFINE power == PowMod[52 - t.era]
<1>1. power \in 0..99
  <2>1. 52 - t.era \in 0..37
    BY DEF Timestamp
  <2>. QED
    BY <2>1, PowModType
<1>. HIDE DEF power
<1>2. Rounded(t) = (t.hund * power) % 100
  BY DEF Rounded, power
<1>3. Rounded(t) \in Int
  <2>1. t.hund * power \in Nat
    BY <1>1 DEF Timestamp
  <2>. QED
    BY <1>2, <2>1
<1>. QED
  BY <1>3 DEF FromHeader

ExactInv ==
    /\ modified \in Moments \cup {Later}
    /\ header \in Moments \cup {Later, NoHeader}
    /\ RefusedOnlyForChanges

LEMMA ExactStep ==
  ASSUME RoomForTheProduct, ExactInv,
         [StampNext]_stampVars
  PROVE  ExactInv'
<1>1. CASE Read
  BY <1>1 DEF Read, AsHeader, ExactInv, RefusedOnlyForChanges
<1>2. CASE Write
  BY <1>2 DEF Write, ExactInv, RefusedOnlyForChanges
<1>3. CASE Conditional
  <2>1. PICK since \in {header, NoHeader}, unless \in {header, NoHeader} :
            result' = [of      |-> Extrude(since, unless).kind,
                       status  |-> Status(Extrude(since, unless)),
                       changed |-> After(modified, header)]
    BY <1>3 DEF Conditional
  <2>2. header \in Moments \cup {Later} /\ UNCHANGED <<modified, header>>
    BY <1>3 DEF Conditional, ExactInv
  <2>3. FromHeader(header) = header
    BY <2>2, FromHeaderIsExact, SyncTimestampAssumption DEF RoomForTheProduct
  <2>. DEFINE e     == Extrude(since, unless)
              after == After(modified, header)
  <2>4. \/ e.kind \in {"conflict", "none"}
        \/ e = [kind |-> "modified", at |-> header]
        \/ e = [kind |-> "unmodified", at |-> header]
    BY <2>3 DEF Extrude
  <2>5. result' = [of |-> e.kind, status |-> Status(e), changed |-> after]
    BY <2>1, Zenon
  <2>. HIDE DEF e
  <2>6. Status(e) = 412 => after
    BY <2>4 DEF Status
  <2>. HIDE DEF after
  <2>7. RefusedOnlyForChanges'
    BY <2>5, <2>6 DEF RefusedOnlyForChanges
  <2>. QED
    BY <2>2, <2>7 DEF ExactInv
<1>4. CASE UNCHANGED stampVars
  BY <1>4 DEF stampVars, ExactInv, RefusedOnlyForChanges
<1>. QED
  BY <1>1, <1>2, <1>3, <1>4 DEF StampNext

\* From November 2004 until 2038 a client that sends back the time it was given is
\* refused only when the collection has changed: from_header is then exact, for
\* every hundredth of a second (PreConditionHeader, SyncTimestamp).
THEOREM RefusalsAreForChanges ==
  ASSUME RoomForTheProduct
  PROVE  StampSpec => []RefusedOnlyForChanges
<1>1. StampInit => ExactInv
  BY DEF StampInit, ExactInv, RefusedOnlyForChanges
<1>2. ExactInv => RefusedOnlyForChanges
  BY DEF ExactInv
<1>. QED
  BY <1>1, <1>2, ExactStep, PTL DEF StampSpec
=============================================================================
