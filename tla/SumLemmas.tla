----------------------------- MODULE SumLemmas -----------------------------
(***************************************************************************)
(* Sums over finite sets.  MapThenSumSet adds the elements in the order in *)
(* which CHOOSE yields them; these lemmas say that its recursive function  *)
(* exists, and that the sum does not depend on the order.                  *)
(***************************************************************************)
EXTENDS Integers, FiniteSets, FiniteSetsExt, FiniteSetTheorems, TLAPS

Pick(s) == CHOOSE x \in s : TRUE

\* g is the recursive function of MapThenSumSet for the terms F, on the subsets of D.
IsSum(g, F, D) ==
    g = [s \in SUBSET D |-> IF s = {} THEN 0 ELSE F[Pick(s)] + g[s \ {Pick(s)}]]

LEMMA PickIn == \A s : s # {} => Pick(s) \in s
  BY DEF Pick

\* Induction over the subsets of a finite set: a set Q of them that contains each one
\* whose strict subsets it contains is all of them.
LEMMA SubsetInduction ==
    ASSUME NEW D, IsFiniteSet(D), NEW Q,
           \A s \in SUBSET D : (\A t \in SUBSET s : t # s => t \in Q) => s \in Q
    PROVE  SUBSET D \subseteq Q
  <1> DEFINE B == (SUBSET D) \ Q
  <1> SUFFICES ASSUME B # {} PROVE FALSE
    OBVIOUS
  <1>1. IsWellFoundedOn(StrictSubsetOrdering(D), SUBSET D)
    <2>1. IsWellFoundedOn(StrictSubsetOrdering(D), FiniteSubsetsOf(D))
      BY FS_StrictSubsetOrderingWellFounded
    <2>2. FiniteSubsetsOf(D) = SUBSET D
      BY FS_FiniteSubsetsOfFinite
    <2> QED
      BY <2>1, <2>2
  <1>2. B \subseteq SUBSET D
    OBVIOUS
  <1> HIDE DEF B
  <1>3. PICK s \in B : \A t \in B : ~ (<<t, s>> \in StrictSubsetOrdering(D))
    BY <1>1, <1>2, WFMin
  <1>4. s \in SUBSET D /\ s \notin Q
    BY DEF B
  <1>5. ASSUME NEW t \in SUBSET s, t # s PROVE t \in Q
    <2>1. <<t, s>> \in StrictSubsetOrdering(D)
      BY <1>4, <1>5 DEF StrictSubsetOrdering
    <2> QED
      BY <1>3, <1>4, <2>1 DEF B
  <1> QED
    BY <1>4, <1>5

LEMMA SumValue ==
    ASSUME NEW g, NEW F, NEW D, IsSum(g, F, D), NEW s \in SUBSET D
    PROVE  /\ s = {} => g[s] = 0
           /\ s # {} => g[s] = F[Pick(s)] + g[s \ {Pick(s)}]
  BY DEF IsSum

LEMMA SumValues ==
    ASSUME NEW g, NEW F, NEW D, IsSum(g, F, D)
    PROVE  \A s \in SUBSET D : s # {} => g[s] = F[Pick(s)] + g[s \ {Pick(s)}]
  BY DEF IsSum

LEMMA SumRestricted ==
    ASSUME NEW g, NEW F, NEW D, IsSum(g, F, D), NEW E \in SUBSET D
    PROVE  IsSum([s \in SUBSET E |-> g[s]], F, E)
  <1> DEFINE h == [s \in SUBSET E |-> g[s]]
             k == [s \in SUBSET E |-> IF s = {} THEN 0 ELSE F[Pick(s)] + h[s \ {Pick(s)}]]
  <1>1. ASSUME NEW s \in SUBSET E PROVE h[s] = k[s]
    <2>1. CASE s = {}
      BY <2>1, SumValue
    <2>2. CASE s # {}
      <3>1. s \in SUBSET D /\ s \ {Pick(s)} \in SUBSET E
        OBVIOUS
      <3>2. g[s] = F[Pick(s)] + g[s \ {Pick(s)}]
        BY <2>2, <3>1, SumValue
      <3> QED
        BY <2>2, <3>1, <3>2
    <2> QED
      BY <2>1, <2>2
  <1>2. h = k
    BY <1>1
  <1> QED
    BY <1>2 DEF IsSum

\* Two sums of terms that agree on a set agree on it.
LEMMA SumsAgree ==
    ASSUME NEW D, IsFiniteSet(D), NEW g, NEW h, NEW F, NEW G, NEW A, NEW B,
           D \subseteq A, D \subseteq B, IsSum(g, F, A), IsSum(h, G, B),
           \A x \in D : F[x] = G[x]
    PROVE  \A s \in SUBSET D : g[s] = h[s]
  <1> DEFINE Q == {s \in SUBSET D : g[s] = h[s]}
  <1>1. ASSUME NEW s \in SUBSET D, \A t \in SUBSET s : t # s => t \in Q
        PROVE  s \in Q
    <2>1. CASE s = {}
      BY <2>1, SumValue
    <2>2. CASE s # {}
      <3>1. Pick(s) \in s /\ s \in SUBSET A /\ s \in SUBSET B
        BY <2>2, PickIn
      <3>2. g[s \ {Pick(s)}] = h[s \ {Pick(s)}]
        BY <1>1, <3>1
      <3>3. g[s] = F[Pick(s)] + g[s \ {Pick(s)}]
        <4>1. \A t \in SUBSET A : t # {} => g[t] = F[Pick(t)] + g[t \ {Pick(t)}]
          BY SumValues
        <4> QED
          BY <2>2, <3>1, <4>1
      <3>4. h[s] = G[Pick(s)] + h[s \ {Pick(s)}]
        <4>1. \A t \in SUBSET B : t # {} => h[t] = G[Pick(t)] + h[t \ {Pick(t)}]
          <5> HIDE DEF Q
          <5> QED
            BY SumValues
        <4> QED
          BY <2>2, <3>1, <4>1
      <3> QED
        BY <3>1, <3>2, <3>3, <3>4
    <2> QED
      BY <2>1, <2>2
  <1> HIDE DEF Q
  <1>2. SUBSET D \subseteq Q
    BY <1>1, SubsetInduction
  <1> QED
    BY <1>2 DEF Q

\* The recursive function exists.
LEMMA SumExists ==
    ASSUME NEW D, IsFiniteSet(D), NEW F
    PROVE  \E g : IsSum(g, F, D)
  <1> DEFINE Q == {s \in SUBSET D : \E f : IsSum(f, F, s)}
  <1>1. ASSUME NEW s \in SUBSET D, \A t \in SUBSET s : t # s => t \in Q
        PROVE  s \in Q
    <2> DEFINE V(t) == (CHOOSE f : IsSum(f, F, t))[t]
               g == [t \in SUBSET s |-> IF t = {} THEN 0 ELSE F[Pick(t)] + V(t \ {Pick(t)})]
               k == [t \in SUBSET s |-> IF t = {} THEN 0 ELSE F[Pick(t)] + g[t \ {Pick(t)}]]
    <2>1. \A t \in SUBSET s : t # s => IsSum(CHOOSE f : IsSum(f, F, t), F, t)
      BY <1>1
    <2>2. ASSUME NEW t \in SUBSET s, t # s PROVE g[t] = V(t)
      <3> DEFINE h == CHOOSE f : IsSum(f, F, t)
                 p == Pick(t)
                 u == t \ {p}
                 hu == CHOOSE f : IsSum(f, F, u)
      <3>1. IsSum(h, F, t)
        BY <2>1, <2>2
      <3>2. CASE t = {}
        <4>1. h[t] = 0
          BY <3>1, <3>2, SumValue
        <4> QED
          BY <3>2, <4>1
      <3>3. CASE t # {}
        <4>1. p \in t /\ u \in SUBSET s /\ u # s /\ IsFiniteSet(u)
          BY <3>3, PickIn, FS_Subset
        <4>2. IsSum(hu, F, u)
          BY <2>1, <4>1
        <4>3. h[t] = F[p] + h[u]
          BY <3>1, <3>3, SumValue
        <4>4. h[u] = hu[u]
          <5> HIDE DEF h, hu, u
          <5>1. u \subseteq t /\ u \in SUBSET u
            BY DEF u
          <5> QED
            BY <3>1, <4>1, <4>2, <5>1, SumsAgree
        <4> QED
          BY <3>3, <4>3, <4>4
      <3> QED
        BY <3>2, <3>3
    <2>3. ASSUME NEW t \in SUBSET s PROVE g[t] = k[t]
      <3>1. CASE t = {}
        BY <3>1
      <3>2. CASE t # {}
        <4>1. t \ {Pick(t)} \in SUBSET s /\ t \ {Pick(t)} # s
          BY <3>2, PickIn
        <4>2. g[t \ {Pick(t)}] = V(t \ {Pick(t)})
          BY <2>2, <4>1
        <4> QED
          BY <3>2, <4>2
      <3> QED
        BY <3>1, <3>2
    <2>4. g = k
      BY <2>3
    <2>5. IsSum(g, F, s)
      BY <2>4 DEF IsSum
    <2> QED
      BY <2>5
  <1> HIDE DEF Q
  <1>2. SUBSET D \subseteq Q
    BY <1>1, SubsetInduction
  <1> QED
    BY <1>2 DEF Q

\* The order does not matter: the sum of integers is an integer, and any element can be
\* taken out of it.
LEMMA AnyOrder ==
    ASSUME NEW D, IsFiniteSet(D), NEW g, NEW F, IsSum(g, F, D), \A x \in D : F[x] \in Int
    PROVE  \A s \in SUBSET D : g[s] \in Int /\ \A y \in s : g[s] = F[y] + g[s \ {y}]
  <1> DEFINE Q == {s \in SUBSET D : g[s] \in Int /\ \A y \in s : g[s] = F[y] + g[s \ {y}]}
  <1>1. ASSUME NEW s \in SUBSET D, \A t \in SUBSET s : t # s => t \in Q
        PROVE  s \in Q
    <2>1. CASE s = {}
      <3>1. g[s] = 0
        BY <2>1, SumValue
      <3> QED
        BY <2>1, <3>1
    <2>2. CASE s # {}
      <3> DEFINE p == Pick(s)
      <3>0. p \in s /\ g[s] = F[p] + g[s \ {p}]
        BY <2>2, PickIn, SumValue
      <3>1. p \in s /\ s \ {p} \in Q /\ g[s] = F[p] + g[s \ {p}] /\ F[p] \in Int
        <4> HIDE DEF Q, p
        <4> QED
          BY <1>1, <3>0
      <3> HIDE DEF p
      <3>2. ASSUME NEW y \in s, y # p PROVE g[s] = F[y] + g[s \ {y}]
        <4> DEFINE r == (s \ {p}) \ {y}
        <4>1. s \ {y} \in Q /\ r = (s \ {y}) \ {p} /\ r \in Q
          BY <1>1, <3>1, <3>2
        <4>2. g[s \ {p}] = F[y] + g[r] /\ g[s \ {y}] = F[p] + g[r]
          BY <3>1, <3>2, <4>1
        <4>3. F[y] \in Int /\ g[r] \in Int
          BY <4>1
        <4> HIDE DEF r
        <4> QED
          BY <3>1, <4>2, <4>3
      <3>3. F[p] \in Int /\ g[s \ {p}] \in Int
        BY <3>1
      <3>4. g[s] \in Int
        BY <3>1, <3>3
      <3> QED
        BY <3>1, <3>2, <3>4
    <2> QED
      BY <2>1, <2>2
  <1> HIDE DEF Q
  <1>2. SUBSET D \subseteq Q
    BY <1>1, SubsetInduction
  <1> QED
    BY <1>2 DEF Q

-----------------------------------------------------------------------------
(* The sum of the terms F over S, and how it changes. *)

SumOf(F, S) == (CHOOSE g : IsSum(g, F, S))[S]

LEMMA SumOfIs ==
    ASSUME NEW S, IsFiniteSet(S), NEW F
    PROVE  \E g : IsSum(g, F, S) /\ SumOf(F, S) = g[S]
  BY SumExists DEF SumOf

\* A sum over a set is the value there of the sums over its subsets.
LEMMA SumOfPart ==
    ASSUME NEW D, IsFiniteSet(D), NEW F, NEW g, IsSum(g, F, D), NEW S \in SUBSET D
    PROVE  SumOf(F, S) = g[S]
  <1>1. IsFiniteSet(S) /\ S \subseteq S /\ S \in SUBSET S
    BY FS_Subset
  <1>2. PICK h : IsSum(h, F, S) /\ SumOf(F, S) = h[S]
    BY <1>1, SumOfIs
  <1>3. \A s \in SUBSET S : h[s] = g[s]
    BY <1>1, <1>2, SumsAgree
  <1> QED
    BY <1>1, <1>2, <1>3

LEMMA SumOfInt ==
    ASSUME NEW S, IsFiniteSet(S), NEW F, \A x \in S : F[x] \in Int
    PROVE  SumOf(F, S) \in Int
  <1>1. PICK g : IsSum(g, F, S) /\ SumOf(F, S) = g[S]
    BY SumOfIs
  <1>2. g[S] \in Int
    BY <1>1, AnyOrder
  <1> QED
    BY <1>1, <1>2

LEMMA SumOfEmpty ==
    ASSUME NEW F
    PROVE  SumOf(F, {}) = 0
  <1>1. IsFiniteSet({})
    BY FS_EmptySet
  <1>2. PICK g : IsSum(g, F, {}) /\ SumOf(F, {}) = g[{}]
    BY <1>1, SumOfIs
  <1> QED
    BY <1>2 DEF IsSum

LEMMA SumOfRemove ==
    ASSUME NEW S, IsFiniteSet(S), NEW F, \A x \in S : F[x] \in Int, NEW y \in S
    PROVE  SumOf(F, S) = F[y] + SumOf(F, S \ {y})
  <1>1. PICK g : IsSum(g, F, S) /\ SumOf(F, S) = g[S]
    BY SumOfIs
  <1>2. g[S] = F[y] + g[S \ {y}]
    BY <1>1, AnyOrder
  <1>3. SumOf(F, S \ {y}) = g[S \ {y}]
    BY <1>1, SumOfPart
  <1> QED
    BY <1>1, <1>2, <1>3

LEMMA SumOfAdd ==
    ASSUME NEW S, IsFiniteSet(S), NEW y, y \notin S, NEW F, \A x \in S \cup {y} : F[x] \in Int
    PROVE  SumOf(F, S \cup {y}) = F[y] + SumOf(F, S)
  <1>1. IsFiniteSet(S \cup {y}) /\ (S \cup {y}) \ {y} = S
    BY FS_AddElement
  <1>2. SumOf(F, S \cup {y}) = F[y] + SumOf(F, (S \cup {y}) \ {y})
    BY <1>1, SumOfRemove
  <1> QED
    BY <1>1, <1>2

LEMMA SumOfAgree ==
    ASSUME NEW S, IsFiniteSet(S), NEW F, NEW G, \A x \in S : F[x] = G[x]
    PROVE  SumOf(F, S) = SumOf(G, S)
  <1>1. PICK g : IsSum(g, F, S) /\ SumOf(F, S) = g[S]
    BY SumOfIs
  <1>2. PICK h : IsSum(h, G, S) /\ SumOf(G, S) = h[S]
    BY SumOfIs
  <1>3. \A s \in SUBSET S : g[s] = h[s]
    BY <1>1, <1>2, SumsAgree
  <1> QED
    BY <1>1, <1>2, <1>3

\* One term changes.
LEMMA SumOfChange ==
    ASSUME NEW S, IsFiniteSet(S), NEW F, NEW G, NEW y \in S,
           \A x \in S : F[x] \in Int /\ G[x] \in Int, \A x \in S \ {y} : F[x] = G[x]
    PROVE  SumOf(G, S) = (SumOf(F, S) + G[y]) - F[y]
  <1>1. SumOf(F, S) = F[y] + SumOf(F, S \ {y}) /\ SumOf(G, S) = G[y] + SumOf(G, S \ {y})
    BY SumOfRemove
  <1>2. SumOf(F, S \ {y}) = SumOf(G, S \ {y}) /\ SumOf(F, S \ {y}) \in Int
    BY SumOfAgree, SumOfInt, FS_RemoveElement
  <1> QED
    BY <1>1, <1>2

-----------------------------------------------------------------------------
(* Sums compared.  Each is proved by taking one element at a time. *)

LEMMA SetInduction ==
    ASSUME NEW D, IsFiniteSet(D), NEW Q, {} \in Q,
           \A s \in SUBSET D : \A y \in s : s \ {y} \in Q => s \in Q
    PROVE  D \in Q
  <1>1. ASSUME NEW s \in SUBSET D, \A t \in SUBSET s : t # s => t \in Q
        PROVE  s \in Q
    <2>1. CASE s = {}
      BY <2>1
    <2>2. CASE s # {}
      <3>1. PICK y \in s : TRUE
        BY <2>2
      <3>2. s \ {y} \in SUBSET s /\ s \ {y} # s
        BY <3>1
      <3> QED
        BY <1>1, <3>1, <3>2
    <2> QED
      BY <2>1, <2>2
  <1>2. SUBSET D \subseteq Q
    BY <1>1, SubsetInduction
  <1> QED
    BY <1>2

LEMMA SumOfNat ==
    ASSUME NEW S, IsFiniteSet(S), NEW F, \A x \in S : F[x] \in Nat
    PROVE  SumOf(F, S) \in Nat
  <1> DEFINE Q == {s \in SUBSET S : SumOf(F, s) \in Nat}
  <1>1. {} \in Q
    BY SumOfEmpty
  <1>2. ASSUME NEW s \in SUBSET S, NEW y \in s, s \ {y} \in Q PROVE s \in Q
    <2>1. SumOf(F, s) = F[y] + SumOf(F, s \ {y})
      BY SumOfRemove, FS_Subset
    <2> QED
      BY <1>2, <2>1
  <1> HIDE DEF Q
  <1>3. S \in Q
    BY <1>1, <1>2, SetInduction
  <1> QED
    BY <1>3 DEF Q

\* The sum over a part is the sum over the whole of the terms that count.
LEMMA SumOfFilter ==
    ASSUME NEW S, IsFiniteSet(S), NEW T \in SUBSET S, NEW F, NEW G, \A x \in S : F[x] \in Int,
           \A x \in S : G[x] = IF x \in T THEN F[x] ELSE 0
    PROVE  SumOf(F, T) = SumOf(G, S)
  <1> DEFINE Q == {s \in SUBSET S : SumOf(F, s \cap T) = SumOf(G, s)}
  <1>1. {} \in Q
    <2>1. {} \cap T = {}
      OBVIOUS
    <2> QED
      BY <2>1, SumOfEmpty
  <1>2. ASSUME NEW s \in SUBSET S, NEW y \in s, s \ {y} \in Q PROVE s \in Q
    <2>1. IsFiniteSet(s) /\ IsFiniteSet(s \cap T) /\ IsFiniteSet(s \ {y})
      BY FS_Subset
    <2>2. SumOf(G, s) = G[y] + SumOf(G, s \ {y}) /\ SumOf(G, s \ {y}) \in Int
      BY <2>1, SumOfRemove, SumOfInt
    <2>3. CASE y \in T
      <3>1. SumOf(F, s \cap T) = F[y] + SumOf(F, (s \cap T) \ {y})
        BY <2>1, <2>3, SumOfRemove
      <3>2. (s \cap T) \ {y} = (s \ {y}) \cap T
        OBVIOUS
      <3> QED
        BY <1>2, <2>2, <2>3, <3>1, <3>2
    <2>4. CASE y \notin T
      <3>1. s \cap T = (s \ {y}) \cap T
        BY <2>4
      <3> QED
        <4>1. G[y] = 0 /\ SumOf(F, (s \ {y}) \cap T) = SumOf(G, s \ {y})
          BY <1>2, <2>4
        <4> QED
          BY <2>2, <3>1, <4>1
    <2> QED
      BY <2>3, <2>4
  <1> HIDE DEF Q
  <1>3. S \in Q
    BY <1>1, <1>2, SetInduction
  <1>4. S \cap T = T
    OBVIOUS
  <1> QED
    BY <1>3, <1>4 DEF Q

LEMMA SumOfPlus ==
    ASSUME NEW S, IsFiniteSet(S), NEW F, NEW G, NEW H,
           \A x \in S : F[x] \in Int /\ G[x] \in Int /\ H[x] = F[x] + G[x]
    PROVE  SumOf(H, S) = SumOf(F, S) + SumOf(G, S)
  <1> DEFINE Q == {s \in SUBSET S : SumOf(H, s) = SumOf(F, s) + SumOf(G, s)}
  <1>1. {} \in Q
    <2>1. SumOf(H, {}) = 0 /\ SumOf(F, {}) = 0 /\ SumOf(G, {}) = 0
      BY SumOfEmpty
    <2> QED
      BY <2>1
  <1>2. ASSUME NEW s \in SUBSET S, NEW y \in s, s \ {y} \in Q PROVE s \in Q
    <2>1. IsFiniteSet(s) /\ IsFiniteSet(s \ {y}) /\ \A x \in s : H[x] \in Int
      BY FS_Subset
    <2>2. SumOf(F, s) = F[y] + SumOf(F, s \ {y}) /\ SumOf(F, s \ {y}) \in Int
      BY <2>1, SumOfRemove, SumOfInt
    <2>3. SumOf(G, s) = G[y] + SumOf(G, s \ {y}) /\ SumOf(G, s \ {y}) \in Int
      BY <2>1, SumOfRemove, SumOfInt
    <2>4. SumOf(H, s) = H[y] + SumOf(H, s \ {y})
      BY <2>1, SumOfRemove
    <2>5. F[y] \in Int /\ G[y] \in Int /\ H[y] = F[y] + G[y]
      OBVIOUS
    <2> QED
      BY <1>2, <2>2, <2>3, <2>4, <2>5
  <1> HIDE DEF Q
  <1>3. S \in Q
    BY <1>1, <1>2, SetInduction
  <1> QED
    BY <1>3 DEF Q

LEMMA SumOfUnion ==
    ASSUME NEW S, IsFiniteSet(S), NEW T, IsFiniteSet(T), S \cap T = {}, NEW F,
           \A x \in S \cup T : F[x] \in Int
    PROVE  SumOf(F, S \cup T) = SumOf(F, S) + SumOf(F, T)
  <1> DEFINE D == S \cup T
             G == [x \in D |-> IF x \in S THEN F[x] ELSE 0]
             H == [x \in D |-> IF x \in T THEN F[x] ELSE 0]
  <1>1. IsFiniteSet(D) /\ S \in SUBSET D /\ T \in SUBSET D
    BY FS_Union
  <1>2. \A x \in D : /\ G[x] = IF x \in S THEN F[x] ELSE 0
                     /\ H[x] = IF x \in T THEN F[x] ELSE 0
                     /\ G[x] \in Int /\ H[x] \in Int /\ F[x] \in Int /\ F[x] = G[x] + H[x]
    OBVIOUS
  <1> HIDE DEF D, G, H
  <1>3. SumOf(F, S) = SumOf(G, D)
    BY <1>1, <1>2, SumOfFilter
  <1>4. SumOf(F, T) = SumOf(H, D)
    BY <1>1, <1>2, SumOfFilter
  <1>5. SumOf(F, D) = SumOf(G, D) + SumOf(H, D)
    BY <1>1, <1>2, SumOfPlus
  <1> QED
    BY <1>3, <1>4, <1>5 DEF D

LEMMA SumOfConstant ==
    ASSUME NEW S, IsFiniteSet(S), NEW F, NEW c \in Int, \A x \in S : F[x] = c
    PROVE  SumOf(F, S) = Cardinality(S) * c
  <1> DEFINE Q == {s \in SUBSET S : SumOf(F, s) = Cardinality(s) * c}
  <1>1. {} \in Q
    <2>1. SumOf(F, {}) = 0 /\ Cardinality({}) = 0
      BY SumOfEmpty, FS_EmptySet
    <2> QED
      BY <2>1
  <1>2. ASSUME NEW s \in SUBSET S, NEW y \in s, s \ {y} \in Q PROVE s \in Q
    <2>1. SumOf(F, s) = c + SumOf(F, s \ {y})
      BY SumOfRemove, FS_Subset
    <2>2. Cardinality(s \ {y}) = Cardinality(s) - 1 /\ Cardinality(s) \in Nat
      BY FS_Subset, FS_RemoveElement, FS_CardinalityType
    <2>3. (Cardinality(s) - 1) * c = Cardinality(s) * c - c
      BY <2>2
    <2>4. SumOf(F, s \ {y}) = (Cardinality(s) - 1) * c /\ Cardinality(s) * c \in Int
      BY <1>2, <2>2
    <2> QED
      BY <2>1, <2>3, <2>4
  <1> HIDE DEF Q
  <1>3. S \in Q
    BY <1>1, <1>2, SetInduction
  <1> QED
    BY <1>3 DEF Q

\* Distinct elements of S correspond to distinct elements of T, with the same terms.
LEMMA SumOfImage ==
    ASSUME NEW S, IsFiniteSet(S), NEW T, IsFiniteSet(T), NEW k, NEW F, NEW G,
           \A x \in S : k[x] \in T /\ F[x] = G[k[x]],
           \A x, y \in S : k[x] = k[y] => x = y,
           \A z \in T : G[z] \in Int
    PROVE  SumOf(F, S) = SumOf(G, {k[x] : x \in S})
  <1> DEFINE im(s) == {k[x] : x \in s}
             Q == {s \in SUBSET S : SumOf(F, s) = SumOf(G, im(s))}
  <1>1. {} \in Q
    <2>1. im({}) = {}
      OBVIOUS
    <2> QED
      BY <2>1, SumOfEmpty
  <1>2. ASSUME NEW s \in SUBSET S, NEW y \in s, s \ {y} \in Q PROVE s \in Q
    <2>1. IsFiniteSet(s) /\ \A x \in s : F[x] \in Int
      BY FS_Subset
    <2>2. SumOf(F, s) = F[y] + SumOf(F, s \ {y})
      BY <2>1, SumOfRemove
    <2>3. im(s) \subseteq T /\ im(s \ {y}) = im(s) \ {k[y]} /\ k[y] \in im(s)
      OBVIOUS
    <2>4. IsFiniteSet(im(s)) /\ \A z \in im(s) : G[z] \in Int
      BY <2>3, FS_Subset
    <2> HIDE DEF im
    <2>5. SumOf(G, im(s)) = G[k[y]] + SumOf(G, im(s) \ {k[y]})
      BY <2>3, <2>4, SumOfRemove
    <2>6. F[y] = G[k[y]]
      OBVIOUS
    <2> QED
      BY <1>2, <2>2, <2>3, <2>5, <2>6
  <1> HIDE DEF Q
  <1>3. S \in Q
    BY <1>1, <1>2, SetInduction
  <1> QED
    BY <1>3 DEF Q

\* Terms that are not negative: a part is at most the whole.
LEMMA SumOfSubset ==
    ASSUME NEW T, IsFiniteSet(T), NEW A \in SUBSET T, NEW G, \A z \in T : G[z] \in Nat
    PROVE  SumOf(G, A) \in Nat /\ SumOf(G, T) \in Nat /\ SumOf(G, A) <= SumOf(G, T)
  <1> DEFINE H == [z \in T |-> IF z \in A THEN G[z] ELSE 0]
             K == [z \in T |-> IF z \in A THEN 0 ELSE G[z]]
  <1>1. SumOf(G, A) = SumOf(H, T)
    BY SumOfFilter
  <1>2. SumOf(G, T) = SumOf(H, T) + SumOf(K, T)
    BY SumOfPlus
  <1>3. SumOf(H, T) \in Nat /\ SumOf(K, T) \in Nat
    BY SumOfNat
  <1> QED
    BY <1>1, <1>2, <1>3

\* S is divided into a part for each element of U: the sum of the parts' sums is the sum.
LEMMA SumOfParts ==
    ASSUME NEW S, IsFiniteSet(S), NEW U, IsFiniteSet(U), NEW m, NEW F, NEW part, NEW P,
           \A x \in S : m[x] \in U /\ F[x] \in Int,
           \A u \in U : part[u] \subseteq S /\ \A x \in S : x \in part[u] <=> m[x] = u,
           \A u \in U : P[u] = SumOf(F, part[u])
    PROVE  SumOf(P, U) = SumOf(F, S)
  <1> DEFINE of(s, u) == {x \in s : m[x] = u}
             parts(s) == [u \in U |-> SumOf(F, of(s, u))]
             Q == {s \in SUBSET S : SumOf(parts(s), U) = SumOf(F, s)}
  <1>1. {} \in Q
    <2>1. \A u \in U : of({}, u) = {}
      OBVIOUS
    <2>2. \A u \in U : parts({})[u] = 0
      BY <2>1, SumOfEmpty
    <2> HIDE DEF parts
    <2>3. SumOf(parts({}), U) = Cardinality(U) * 0 /\ Cardinality(U) \in Nat
      BY <2>2, SumOfConstant, FS_CardinalityType
    <2> QED
      BY <2>3, SumOfEmpty
  <1>2. ASSUME NEW s \in SUBSET S, NEW y \in s, s \ {y} \in Q PROVE s \in Q
    <2> DEFINE v == m[y]
               r == s \ {y}
    <2>1. IsFiniteSet(s) /\ IsFiniteSet(r) /\ r \in SUBSET S /\ v \in U /\ F[y] \in Int
      BY FS_Subset
    <2>2. ASSUME NEW t \in SUBSET S, NEW u \in U PROVE parts(t)[u] \in Int
      <3>1. IsFiniteSet(of(t, u)) /\ \A x \in of(t, u) : F[x] \in Int
        BY FS_Subset
      <3> HIDE DEF of
      <3>2. SumOf(F, of(t, u)) \in Int
        BY <3>1, SumOfInt
      <3> QED
        BY <3>2
    <2>3. parts(s)[v] = F[y] + parts(r)[v]
      <3>1. y \in of(s, v) /\ of(r, v) = of(s, v) \ {y}
        OBVIOUS
      <3>2. IsFiniteSet(of(s, v)) /\ \A x \in of(s, v) : F[x] \in Int
        BY FS_Subset
      <3>3. SumOf(F, of(s, v)) = F[y] + SumOf(F, of(r, v))
        <4> HIDE DEF of, v, r
        <4>1. SumOf(F, of(s, v)) = F[y] + SumOf(F, of(s, v) \ {y})
          BY <3>1, <3>2, SumOfRemove
        <4> QED
          BY <3>1, <4>1
      <3> QED
        BY <2>1, <3>3
    <2>4. \A u \in U \ {v} : parts(r)[u] = parts(s)[u]
      <3>1. \A u \in U \ {v} : of(r, u) = of(s, u)
        OBVIOUS
      <3> QED
        BY <3>1
    <2> HIDE DEF parts, v, r
    <2>5. \A u \in U : parts(r)[u] \in Int /\ parts(s)[u] \in Int
      BY <2>1, <2>2
    <2>6. SumOf(parts(s), U) = (SumOf(parts(r), U) + parts(s)[v]) - parts(r)[v]
      BY <2>1, <2>4, <2>5, SumOfChange
    <2>7. SumOf(F, s) = F[y] + SumOf(F, r) /\ SumOf(parts(r), U) = SumOf(F, r)
      BY <1>2, <2>1, SumOfRemove DEF r
    <2>8. SumOf(F, r) \in Int
      BY <2>1, SumOfInt
    <2> QED
      BY <2>1, <2>3, <2>5, <2>6, <2>7, <2>8
  <1> HIDE DEF Q
  <1>3. S \in Q
    BY <1>1, <1>2, SetInduction
  <1>4. SumOf(parts(S), U) = SumOf(F, S)
    BY <1>3 DEF Q
  <1>5. \A u \in U : parts(S)[u] = P[u]
    <2>1. \A u \in U : of(S, u) = part[u]
      OBVIOUS
    <2> QED
      BY <2>1
  <1> HIDE DEF parts
  <1>6. SumOf(parts(S), U) = SumOf(P, U)
    BY <1>5, SumOfAgree
  <1> QED
    BY <1>4, <1>6

-----------------------------------------------------------------------------
(* MapThenSumSet is this sum.  A lemma cannot take the mapped operator as a  *)
(* parameter and be cited, so there is one for each field that is summed.    *)

\* Summed: the amounts of ledger rows.
LEMMA RealsSum ==
    ASSUME NEW S, IsFiniteSet(S), NEW rows, NEW F, \A i \in S : F[i] = rows[i].real
    PROVE  MapThenSumSet(LAMBDA i : rows[i].real, S) = SumOf(F, S)
  <1> DEFINE body(g) == [s \in SUBSET S |-> IF s = {} THEN 0
                                         ELSE rows[Pick(s)].real + g[s \ {Pick(s)}]]
             iter == CHOOSE g : g = body(g)
  <1>1. ASSUME NEW g PROVE IsSum(g, F, S) <=> g = body(g)
    <2>1. body(g) = [s \in SUBSET S |-> IF s = {} THEN 0 ELSE F[Pick(s)] + g[s \ {Pick(s)}]]
      BY PickIn
    <2> QED
      BY <2>1 DEF IsSum
  <1>2. IsSum(iter, F, S)
    <2>1. \E g : g = body(g)
      BY <1>1, SumExists
    <2> HIDE DEF body
    <2> QED
      BY <1>1, <2>1
  <1>3. SumOf(F, S) = iter[S]
    BY <1>2, SumOfPart
  <1>4. MapThenSumSet(LAMBDA i : rows[i].real, S) = iter[S]
    BY DEF MapThenSumSet, MapThenFoldSet, Pick
  <1> QED
    BY <1>3, <1>4

\* Summed: the amounts of transactions, flows and trades.
LEMMA AmountsSum ==
    ASSUME NEW S, IsFiniteSet(S), NEW rows, NEW F, \A i \in S : F[i] = rows[i].amount
    PROVE  MapThenSumSet(LAMBDA i : rows[i].amount, S) = SumOf(F, S)
  <1> DEFINE body(g) == [s \in SUBSET S |-> IF s = {} THEN 0
                                         ELSE rows[Pick(s)].amount + g[s \ {Pick(s)}]]
             iter == CHOOSE g : g = body(g)
  <1>1. ASSUME NEW g PROVE IsSum(g, F, S) <=> g = body(g)
    <2>1. body(g) = [s \in SUBSET S |-> IF s = {} THEN 0 ELSE F[Pick(s)] + g[s \ {Pick(s)}]]
      BY PickIn
    <2> QED
      BY <2>1 DEF IsSum
  <1>2. IsSum(iter, F, S)
    <2>1. \E g : g = body(g)
      BY <1>1, SumExists
    <2> HIDE DEF body
    <2> QED
      BY <1>1, <2>1
  <1>3. SumOf(F, S) = iter[S]
    BY <1>2, SumOfPart
  <1>4. MapThenSumSet(LAMBDA i : rows[i].amount, S) = iter[S]
    BY DEF MapThenSumSet, MapThenFoldSet, Pick
  <1> QED
    BY <1>3, <1>4

\* Summed: the available balances.
LEMMA AvailableSum ==
    ASSUME NEW S, IsFiniteSet(S), NEW rows, NEW F, \A i \in S : F[i] = rows[i].available
    PROVE  MapThenSumSet(LAMBDA i : rows[i].available, S) = SumOf(F, S)
  <1> DEFINE body(g) == [s \in SUBSET S |-> IF s = {} THEN 0
                                         ELSE rows[Pick(s)].available + g[s \ {Pick(s)}]]
             iter == CHOOSE g : g = body(g)
  <1>1. ASSUME NEW g PROVE IsSum(g, F, S) <=> g = body(g)
    <2>1. body(g) = [s \in SUBSET S |-> IF s = {} THEN 0 ELSE F[Pick(s)] + g[s \ {Pick(s)}]]
      BY PickIn
    <2> QED
      BY <2>1 DEF IsSum
  <1>2. IsSum(iter, F, S)
    <2>1. \E g : g = body(g)
      BY <1>1, SumExists
    <2> HIDE DEF body
    <2> QED
      BY <1>1, <2>1
  <1>3. SumOf(F, S) = iter[S]
    BY <1>2, SumOfPart
  <1>4. MapThenSumSet(LAMBDA i : rows[i].available, S) = iter[S]
    BY DEF MapThenSumSet, MapThenFoldSet, Pick
  <1> QED
    BY <1>3, <1>4
=============================================================================
