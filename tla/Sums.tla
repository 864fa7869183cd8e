-------------------------------- MODULE Sums --------------------------------
(***************************************************************************)
(* Sums over finite sets, for the proofs about totals.  MapThenSumSet      *)
(* folds a set in an order of its own; SumOn is the function it defines,   *)
(* and what it adds up does not depend on the order.                       *)
(***************************************************************************)
EXTENDS Integers, FiniteSets, FiniteSetTheorems, WellFoundedInduction, TLAPS

\* Induction over the subsets of a finite set: S is in P when a subset is in P that has
\* all its own subsets there.
LEMMA SmallerFirst ==
  ASSUME NEW S, IsFiniteSet(S), NEW P,
         \A T \in SUBSET S : (\A R \in SUBSET T : R # T => R \in P) => T \in P
  PROVE  S \in P
  <1> DEFINE Out == {T \in SUBSET S : T \notin P}
             below == StrictSubsetOrdering(S)
  <1>1. SUFFICES ASSUME Out # {} PROVE FALSE
    OBVIOUS
  <1>2. IsWellFoundedOn(below, SUBSET S)
    BY FS_StrictSubsetOrderingWellFounded, FS_FiniteSubsetsOfFinite
  <1>3. \E T \in Out : \A R \in Out : ~(<<R, T>> \in below)
    <2>1. Out \subseteq SUBSET S
      OBVIOUS
    <2> HIDE DEF Out, below
    <2>2. QED
      BY <1>1, <1>2, <2>1, WFMin
  <1>4. PICK T \in Out : \A R \in Out : ~(<<R, T>> \in below)
    BY <1>3
  <1>5. \A R \in SUBSET T : R # T => R \in P
    BY <1>4 DEF StrictSubsetOrdering
  <1>6. QED
    BY <1>4, <1>5

Pick(s) == CHOOSE x \in s : TRUE
SumEq(f, S, g) ==
  g = [s \in SUBSET S |-> IF s = {} THEN 0 ELSE f[Pick(s)] + g[s \ {Pick(s)}]]
SumOn(f, S) == (CHOOSE g : SumEq(f, S, g))[S]
Unrolled(f, S) == IF S = {} THEN 0 ELSE f[Pick(S)] + SumOn(f, S \ {Pick(S)})

LEMMA PickIn == \A s : s # {} => Pick(s) \in s
  BY DEF Pick

LEMMA SumUnrolls ==
  ASSUME NEW S, IsFiniteSet(S), NEW f
  PROVE  SumOn(f, S) = Unrolled(f, S)
  <1> DEFINE P == {T \in SUBSET S : SumOn(f, T) = Unrolled(f, T)}
  <1>1. ASSUME NEW T \in SUBSET S, \A R \in SUBSET T : R # T => R \in P
        PROVE  T \in P
    <2> DEFINE G == [R \in SUBSET T |-> Unrolled(f, R)]
    <2>1. \A R \in SUBSET T : R # T => G[R] = SumOn(f, R)
      BY <1>1
    <2>2. SumEq(f, T, G)
      <3>1. ASSUME NEW s \in SUBSET T, s # {}
            PROVE  Unrolled(f, s) = f[Pick(s)] + G[s \ {Pick(s)}]
        <4>1. s \ {Pick(s)} \in SUBSET T /\ s \ {Pick(s)} # T
          BY <3>1, PickIn
        <4>2. G[s \ {Pick(s)}] = SumOn(f, s \ {Pick(s)})
          <5> HIDE DEF G
          <5>1. QED
            BY <2>1, <4>1
        <4> HIDE DEF G
        <4>3. QED
          BY <3>1, <4>2 DEF Unrolled
      <3>2. \A s \in SUBSET T : Unrolled(f, s) = IF s = {} THEN 0 ELSE f[Pick(s)] + G[s \ {Pick(s)}]
        <4>1. Unrolled(f, {}) = 0
          BY DEF Unrolled
        <4> HIDE DEF G
        <4>2. QED
          BY <3>1, <4>1
      <3>3. QED
        BY <3>2 DEF SumEq
    <2>3. PICK g : g = (CHOOSE h : SumEq(f, T, h))
      OBVIOUS
    <2>4. SumEq(f, T, g)
      <3> HIDE DEF G
      <3>1. QED
        BY <2>2, <2>3
    <2>5. \A s \in SUBSET T : g[s] = IF s = {} THEN 0 ELSE f[Pick(s)] + g[s \ {Pick(s)}]
      BY <2>4 DEF SumEq
    <2>6. \A s \in SUBSET T : G[s] = IF s = {} THEN 0 ELSE f[Pick(s)] + G[s \ {Pick(s)}]
      <3> HIDE DEF G
      <3>1. QED
        BY <2>2 DEF SumEq
    <2> DEFINE Q == {R \in SUBSET T : g[R] = G[R]}
    <2>7. ASSUME NEW U \in SUBSET T, \A R \in SUBSET U : R # U => R \in Q
          PROVE  U \in Q
      <3> HIDE DEF G
      <3>1. CASE U = {}
        BY <2>5, <2>6, <3>1
      <3>2. CASE U # {}
        <4>1. U \ {Pick(U)} \in SUBSET U /\ U \ {Pick(U)} # U
          BY <3>2, PickIn
        <4>2. g[U \ {Pick(U)}] = G[U \ {Pick(U)}]
          BY <2>7, <4>1
        <4>3. QED
          BY <2>5, <2>6, <3>2, <4>2
      <3>3. QED
        BY <3>1, <3>2
    <2>8. T \in Q
      <3>1. IsFiniteSet(T)
        BY FS_Subset
      <3> HIDE DEF Q
      <3>2. QED
        BY <2>7, <3>1, SmallerFirst
    <2>9. QED
      BY <2>3, <2>8 DEF SumOn
  <1>2. S \in P
    <2> HIDE DEF P
    <2>1. QED
      BY <1>1, SmallerFirst
  <1>3. QED
    BY <1>2

Whole(f, S) == \A x \in S : f[x] \in Nat
Numbers(f, S) == \A x \in S : f[x] \in Int

LEMMA SumSame ==
  ASSUME NEW S, IsFiniteSet(S), NEW f, NEW h, \A x \in S : f[x] = h[x]
  PROVE  SumOn(f, S) = SumOn(h, S)
  <1> DEFINE P == {T \in SUBSET S : SumOn(f, T) = SumOn(h, T)}
  <1>1. ASSUME NEW T \in SUBSET S, \A R \in SUBSET T : R # T => R \in P
        PROVE  T \in P
    <2>1. IsFiniteSet(T)
      BY FS_Subset
    <2>2. SumOn(f, T) = Unrolled(f, T) /\ SumOn(h, T) = Unrolled(h, T)
      BY <2>1, SumUnrolls
    <2>3. Unrolled(f, T) = Unrolled(h, T)
      <3>1. CASE T = {}
        BY <3>1 DEF Unrolled
      <3>2. CASE T # {}
        <4>1. Pick(T) \in T /\ T \ {Pick(T)} \in SUBSET T /\ T \ {Pick(T)} # T
          BY <3>2, PickIn
        <4>2. SumOn(f, T \ {Pick(T)}) = SumOn(h, T \ {Pick(T)}) /\ f[Pick(T)] = h[Pick(T)]
          BY <1>1, <4>1
        <4>3. QED
          BY <3>2, <4>2 DEF Unrolled
      <3>3. QED
        BY <3>1, <3>2
    <2>4. QED
      BY <2>2, <2>3
  <1>2. S \in P
    <2> HIDE DEF P
    <2>1. QED
      BY <1>1, SmallerFirst
  <1>3. QED
    BY <1>2

LEMMA SumEmpty == ASSUME NEW f PROVE SumOn(f, {}) = 0
  BY FS_EmptySet, SumUnrolls DEF Unrolled

LEMMA SumWhole ==
  ASSUME NEW S, IsFiniteSet(S), NEW f, Whole(f, S)
  PROVE  SumOn(f, S) \in Nat
  <1> DEFINE P == {T \in SUBSET S : SumOn(f, T) \in Nat}
  <1>1. ASSUME NEW T \in SUBSET S, \A R \in SUBSET T : R # T => R \in P
        PROVE  T \in P
    <2>1. SumOn(f, T) = Unrolled(f, T)
      BY FS_Subset, SumUnrolls
    <2>2. CASE T = {}
      BY <2>2, SumEmpty
    <2>3. CASE T # {}
      <3>1. Pick(T) \in T /\ T \ {Pick(T)} \in SUBSET T /\ T \ {Pick(T)} # T
        BY <2>3, PickIn
      <3>2. SumOn(f, T \ {Pick(T)}) \in Nat /\ f[Pick(T)] \in Nat
        BY <1>1, <3>1 DEF Whole
      <3>3. SumOn(f, T) = f[Pick(T)] + SumOn(f, T \ {Pick(T)})
        BY <2>1, <2>3 DEF Unrolled
      <3>4. QED
        BY <3>2, <3>3
    <2>4. QED
      BY <2>2, <2>3
  <1>2. S \in P
    <2> HIDE DEF P
    <2>1. QED
      BY <1>1, SmallerFirst
  <1>3. QED
    BY <1>2

LEMMA SumNumber ==
  ASSUME NEW S, IsFiniteSet(S), NEW f, Numbers(f, S)
  PROVE  SumOn(f, S) \in Int
  <1> DEFINE P == {T \in SUBSET S : SumOn(f, T) \in Int}
  <1>1. ASSUME NEW T \in SUBSET S, \A R \in SUBSET T : R # T => R \in P
        PROVE  T \in P
    <2>1. SumOn(f, T) = Unrolled(f, T)
      BY FS_Subset, SumUnrolls
    <2>2. CASE T = {}
      BY <2>2, SumEmpty
    <2>3. CASE T # {}
      <3>1. Pick(T) \in T /\ T \ {Pick(T)} \in SUBSET T /\ T \ {Pick(T)} # T
        BY <2>3, PickIn
      <3>2. SumOn(f, T \ {Pick(T)}) \in Int /\ f[Pick(T)] \in Int
        BY <1>1, <3>1 DEF Numbers
      <3>3. SumOn(f, T) = f[Pick(T)] + SumOn(f, T \ {Pick(T)})
        BY <2>1, <2>3 DEF Unrolled
      <3>4. QED
        BY <3>2, <3>3
    <2>4. QED
      BY <2>2, <2>3
  <1>2. S \in P
    <2> HIDE DEF P
    <2>1. QED
      BY <1>1, SmallerFirst
  <1>3. QED
    BY <1>2

\* Any element can be taken out first, whichever the fold picks.
LEMMA NumberTake ==
  ASSUME NEW S, IsFiniteSet(S), NEW f, Numbers(f, S), NEW x \in S
  PROVE  SumOn(f, S) = f[x] + SumOn(f, S \ {x})
  <1> DEFINE P == {T \in SUBSET S : \A y \in T : SumOn(f, T) = f[y] + SumOn(f, T \ {y})}
  <1>1. ASSUME NEW T \in SUBSET S, \A R \in SUBSET T : R # T => R \in P
        PROVE  T \in P
    <2>1. \A R \in SUBSET T : IsFiniteSet(R) /\ SumOn(f, R) \in Int
      BY FS_Subset, SumNumber DEF Numbers
    <2>2. SUFFICES ASSUME NEW y \in T PROVE SumOn(f, T) = f[y] + SumOn(f, T \ {y})
      OBVIOUS
    <2>3. PICK k : k = Pick(T)
      OBVIOUS
    <2>4. k \in T /\ SumOn(f, T) = f[k] + SumOn(f, T \ {k})
      BY <2>1, <2>2, <2>3, PickIn, SumUnrolls DEF Unrolled
    <2>5. CASE y = k
      BY <2>4, <2>5
    <2>6. CASE y # k
      <3> DEFINE Rest == T \ {k, y}
      <3>1. /\ T \ {k} \in SUBSET T /\ T \ {k} # T /\ y \in T \ {k}
            /\ T \ {y} \in SUBSET T /\ T \ {y} # T /\ k \in T \ {y}
            /\ (T \ {k}) \ {y} = Rest /\ (T \ {y}) \ {k} = Rest
        BY <2>2, <2>4, <2>6
      <3>2. SumOn(f, T \ {k}) = f[y] + SumOn(f, Rest)
        BY <1>1, <3>1
      <3>3. SumOn(f, T \ {y}) = f[k] + SumOn(f, Rest)
        BY <1>1, <3>1
      <3>4. f[k] \in Int /\ f[y] \in Int /\ SumOn(f, Rest) \in Int
        BY <2>1, <2>2, <2>4 DEF Numbers
      <3> HIDE DEF Rest
      <3>5. QED
        BY <2>4, <3>2, <3>3, <3>4
    <2>7. QED
      BY <2>5, <2>6
  <1>2. S \in P
    <2> HIDE DEF P
    <2>1. QED
      BY <1>1, SmallerFirst
  <1>3. QED
    BY <1>2

LEMMA SumTake ==
  ASSUME NEW S, IsFiniteSet(S), NEW f, Whole(f, S), NEW x \in S
  PROVE  SumOn(f, S) = f[x] + SumOn(f, S \ {x})
  BY NumberTake DEF Whole, Numbers

LEMMA SumAdd ==
  ASSUME NEW S, IsFiniteSet(S), NEW f, NEW x, Whole(f, S \cup {x}), x \notin S
  PROVE  SumOn(f, S \cup {x}) = f[x] + SumOn(f, S)
  <1>1. IsFiniteSet(S \cup {x}) /\ x \in S \cup {x} /\ (S \cup {x}) \ {x} = S
    BY FS_AddElement
  <1>2. QED
    BY <1>1, SumTake

LEMMA SumOne ==
  ASSUME NEW f, NEW x, f[x] \in Int
  PROVE  SumOn(f, {x}) = f[x]
  <1>1. IsFiniteSet({x}) /\ Numbers(f, {x}) /\ {x} \ {x} = {}
    BY FS_Singleton DEF Numbers
  <1>2. SumOn(f, {x}) = f[x] + SumOn(f, {x} \ {x})
    BY <1>1, NumberTake
  <1>3. QED
    BY <1>1, <1>2, SumEmpty

LEMMA NumberUnion ==
  ASSUME NEW A, NEW B, IsFiniteSet(A), IsFiniteSet(B), A \cap B = {},
         NEW f, Numbers(f, A \cup B)
  PROVE  SumOn(f, A \cup B) = SumOn(f, A) + SumOn(f, B)
  <1> DEFINE P == {T \in SUBSET B : SumOn(f, A \cup T) = SumOn(f, A) + SumOn(f, T)}
  <1>1. ASSUME NEW T \in SUBSET B, \A R \in SUBSET T : R # T => R \in P
        PROVE  T \in P
    <2>1. CASE T = {}
      <3>1. SumOn(f, T) = 0 /\ SumOn(f, A \cup T) = SumOn(f, A)
        <4>1. A \cup T = A
          BY <2>1
        <4>2. QED
          BY <2>1, <4>1, SumEmpty, Zenon
      <3>2. SumOn(f, A) \in Int
        BY SumNumber DEF Numbers
      <3>3. SumOn(f, A \cup T) = SumOn(f, A) + SumOn(f, T)
        BY <3>1, <3>2
      <3>4. QED
        BY <3>3
    <2>2. ASSUME NEW x \in T PROVE SumOn(f, A \cup T) = SumOn(f, A) + SumOn(f, T)
      <3> DEFINE R == T \ {x}
      <3>1. IsFiniteSet(T) /\ IsFiniteSet(R) /\ IsFiniteSet(A \cup R) /\ IsFiniteSet(A \cup T)
        BY FS_Subset, FS_Union
      <3>2. SumOn(f, A \cup R) = SumOn(f, A) + SumOn(f, R)
        BY <1>1, <2>2
      <3>3. SumOn(f, T) = f[x] + SumOn(f, R)
        BY <2>2, <3>1, NumberTake DEF Numbers
      <3>4. SumOn(f, A \cup T) = f[x] + SumOn(f, A \cup R)
        <4>1. (A \cup T) \ {x} = A \cup R
          BY <2>2
        <4>2. x \in A \cup T /\ Numbers(f, A \cup T)
          BY <2>2 DEF Numbers
        <4>3. QED
          BY <3>1, <4>1, <4>2, NumberTake
      <3>5. f[x] \in Int /\ SumOn(f, A) \in Int /\ SumOn(f, R) \in Int
        BY <2>2, <3>1, SumNumber DEF Numbers
      <3> HIDE DEF R
      <3>6. QED
        BY <3>2, <3>3, <3>4, <3>5
    <2>3. QED
      BY <2>1, <2>2
  <1>2. B \in P
    <2> HIDE DEF P
    <2>1. QED
      BY <1>1, SmallerFirst
  <1>3. QED
    BY <1>2

LEMMA SumUnion ==
  ASSUME NEW A, NEW B, IsFiniteSet(A), IsFiniteSet(B), A \cap B = {},
         NEW f, Whole(f, A \cup B)
  PROVE  SumOn(f, A \cup B) = SumOn(f, A) + SumOn(f, B)
  BY NumberUnion DEF Whole, Numbers

LEMMA SumSplit ==
  ASSUME NEW S, IsFiniteSet(S), NEW T \in SUBSET S, NEW f, Whole(f, S)
  PROVE  /\ SumOn(f, S) = SumOn(f, T) + SumOn(f, S \ T)
         /\ SumOn(f, T) \in Nat /\ SumOn(f, S \ T) \in Nat
  <1>1. IsFiniteSet(T) /\ IsFiniteSet(S \ T) /\ T \cup (S \ T) = S /\ T \cap (S \ T) = {}
    BY FS_Subset
  <1>2. Whole(f, T) /\ Whole(f, S \ T)
    BY DEF Whole
  <1>3. QED
    BY <1>1, <1>2, SumUnion, SumWhole

LEMMA SumOnes ==
  ASSUME NEW S, IsFiniteSet(S), NEW f, \A x \in S : f[x] = 1
  PROVE  SumOn(f, S) = Cardinality(S)
  <1> DEFINE P == {T \in SUBSET S : SumOn(f, T) = Cardinality(T)}
  <1>1. ASSUME NEW T \in SUBSET S, \A R \in SUBSET T : R # T => R \in P
        PROVE  T \in P
    <2>1. IsFiniteSet(T)
      BY FS_Subset
    <2>2. CASE T = {}
      BY <2>2, SumEmpty, FS_EmptySet
    <2>3. ASSUME NEW x \in T PROVE SumOn(f, T) = Cardinality(T)
      <3>1. SumOn(f, T) = f[x] + SumOn(f, T \ {x})
        BY <2>1, <2>3, SumTake DEF Whole
      <3>2. SumOn(f, T \ {x}) = Cardinality(T \ {x}) /\ f[x] = 1
        BY <1>1, <2>3
      <3>3. Cardinality(T \ {x}) = Cardinality(T) - 1 /\ Cardinality(T) \in Nat
        BY <2>1, <2>3, FS_RemoveElement, FS_CardinalityType
      <3>4. QED
        BY <3>1, <3>2, <3>3
    <2>4. QED
      BY <2>2, <2>3
  <1>2. S \in P
    <2> HIDE DEF P
    <2>1. QED
      BY <1>1, SmallerFirst
  <1>3. QED
    BY <1>2

LEMMA SumScaled ==
  ASSUME NEW S, IsFiniteSet(S), NEW f, NEW h, NEW k \in Nat, Whole(h, S),
         \A x \in S : f[x] = h[x] * k
  PROVE  SumOn(f, S) = SumOn(h, S) * k
  <1>0. Whole(f, S)
    BY DEF Whole
  <1> DEFINE P == {T \in SUBSET S : SumOn(f, T) = SumOn(h, T) * k}
  <1>1. ASSUME NEW T \in SUBSET S, \A R \in SUBSET T : R # T => R \in P
        PROVE  T \in P
    <2>1. IsFiniteSet(T) /\ Whole(f, T) /\ Whole(h, T)
      BY <1>0, FS_Subset DEF Whole
    <2>2. CASE T = {}
      BY <2>2, SumEmpty
    <2>3. ASSUME NEW x \in T PROVE SumOn(f, T) = SumOn(h, T) * k
      <3>1. SumOn(f, T) = f[x] + SumOn(f, T \ {x}) /\ SumOn(h, T) = h[x] + SumOn(h, T \ {x})
        BY <2>1, <2>3, SumTake
      <3>2. SumOn(f, T \ {x}) = SumOn(h, T \ {x}) * k /\ f[x] = h[x] * k
        BY <1>1, <2>3
      <3>3. h[x] \in Nat /\ SumOn(h, T \ {x}) \in Nat
        BY <2>1, <2>3, SumSplit DEF Whole
      <3>4. PICK a \in Nat, b \in Nat : a = h[x] /\ b = SumOn(h, T \ {x})
        BY <3>3
      <3>5. (a + b) * k = a * k + b * k
        OBVIOUS
      <3>6. QED
        BY <3>1, <3>2, <3>4, <3>5
    <2>4. QED
      BY <2>2, <2>3
  <1>2. S \in P
    <2> HIDE DEF P
    <2>1. QED
      BY <1>1, SmallerFirst
  <1>3. QED
    BY <1>2

\* The image of a finite set.
LEMMA ImageFinite ==
  ASSUME NEW S, IsFiniteSet(S), NEW k
  PROVE  IsFiniteSet({k[x] : x \in S})
  <1> DEFINE P == {T \in SUBSET S : IsFiniteSet({k[x] : x \in T})}
  <1>1. ASSUME NEW T \in SUBSET S, \A R \in SUBSET T : R # T => R \in P
        PROVE  T \in P
    <2>1. CASE T = {}
      <3>1. {k[x] : x \in T} = {}
        BY <2>1
      <3>2. QED
        BY <3>1, FS_EmptySet
    <2>2. ASSUME NEW y \in T PROVE IsFiniteSet({k[x] : x \in T})
      <3>1. {k[x] : x \in T} = {k[x] : x \in T \ {y}} \cup {k[y]}
        BY <2>2
      <3>2. IsFiniteSet({k[x] : x \in T \ {y}})
        BY <1>1, <2>2
      <3>3. IsFiniteSet({k[x] : x \in T \ {y}} \cup {k[y]})
        BY <3>2, FS_AddElement
      <3>4. QED
        BY <3>1, <3>3
    <2>3. QED
      BY <2>1, <2>2
  <1>2. S \in P
    <2> HIDE DEF P
    <2>1. QED
      BY <1>1, SmallerFirst
  <1>3. QED
    BY <1>2

\* A sum is that of its groups, however it is cut; over some of the keys, it is that of
\* the groups of those.
KeysOf(k, S) == {k[x] : x \in S}
WithKey(k, S, v) == {x \in S : k[x] = v}
WithKeys(k, S, V) == {x \in S : k[x] \in V}

LEMMA NumberFibres ==
  ASSUME NEW S, IsFiniteSet(S), NEW f, Numbers(f, S), NEW k, NEW V, IsFiniteSet(V), NEW g,
         \A v \in V : g[v] = SumOn(f, WithKey(k, S, v))
  PROVE  SumOn(g, V) = SumOn(f, WithKeys(k, S, V))
  <1> DEFINE P == {T \in SUBSET V : SumOn(g, T) = SumOn(f, WithKeys(k, S, T))}
  <1>1. \A T \in SUBSET S : IsFiniteSet(T) /\ Numbers(f, T) /\ SumOn(f, T) \in Int
    BY FS_Subset, SumNumber DEF Numbers
  <1>2. /\ \A v : WithKey(k, S, v) \in SUBSET S
        /\ \A T : WithKeys(k, S, T) \in SUBSET S
    BY DEF WithKey, WithKeys
  <1>3. Numbers(g, V)
    BY <1>1, <1>2 DEF Numbers
  <1>4. ASSUME NEW T \in SUBSET V, \A R \in SUBSET T : R # T => R \in P
        PROVE  T \in P
    <2>1. CASE T = {}
      <3>1. WithKeys(k, S, T) = {}
        BY <2>1 DEF WithKeys
      <3>2. QED
        BY <2>1, <3>1, SumEmpty
    <2>2. ASSUME NEW v \in T PROVE SumOn(g, T) = SumOn(f, WithKeys(k, S, T))
      <3>1. PICK R : R = T \ {v}
        OBVIOUS
      <3>2. SumOn(g, R) = SumOn(f, WithKeys(k, S, R))
        BY <1>4, <2>2, <3>1
      <3>3. SumOn(g, T) = g[v] + SumOn(g, R)
        <4>1. IsFiniteSet(T) /\ Numbers(g, T)
          BY <1>3, FS_Subset DEF Numbers
        <4>2. QED
          BY <2>2, <3>1, <4>1, NumberTake
      <3>4. /\ WithKeys(k, S, T) = WithKeys(k, S, R) \cup WithKey(k, S, v)
            /\ WithKeys(k, S, R) \cap WithKey(k, S, v) = {}
        BY <2>2, <3>1 DEF WithKey, WithKeys
      <3>5. SumOn(f, WithKeys(k, S, T)) = SumOn(f, WithKeys(k, S, R)) + SumOn(f, WithKey(k, S, v))
        BY <1>1, <1>2, <3>4, NumberUnion
      <3>6. g[v] = SumOn(f, WithKey(k, S, v))
        BY <2>2
      <3>7. SumOn(f, WithKey(k, S, v)) \in Int /\ SumOn(f, WithKeys(k, S, R)) \in Int
        BY <1>1, <1>2
      <3>8. QED
        BY <3>2, <3>3, <3>5, <3>6, <3>7
    <2>3. QED
      BY <2>1, <2>2
  <1>5. V \in P
    <2> HIDE DEF P
    <2>1. QED
      BY <1>4, SmallerFirst
  <1>6. QED
    BY <1>5

LEMMA SumFibres ==
  ASSUME NEW S, IsFiniteSet(S), NEW f, Whole(f, S), NEW k, NEW V, IsFiniteSet(V), NEW g,
         \A v \in V : g[v] = SumOn(f, WithKey(k, S, v))
  PROVE  SumOn(g, V) = SumOn(f, WithKeys(k, S, V))
  BY NumberFibres DEF Whole, Numbers

LEMMA NumberGroups ==
  ASSUME NEW S, IsFiniteSet(S), NEW f, Numbers(f, S), NEW k, NEW g,
         \A v \in KeysOf(k, S) : g[v] = SumOn(f, WithKey(k, S, v))
  PROVE  SumOn(g, KeysOf(k, S)) = SumOn(f, S)
  <1>1. IsFiniteSet(KeysOf(k, S))
    BY ImageFinite DEF KeysOf
  <1>2. WithKeys(k, S, KeysOf(k, S)) = S
    BY DEF WithKeys, KeysOf
  <1>3. QED
    BY <1>1, <1>2, NumberFibres

LEMMA SumGroups ==
  ASSUME NEW S, IsFiniteSet(S), NEW f, Whole(f, S), NEW k, NEW g,
         \A v \in KeysOf(k, S) : g[v] = SumOn(f, WithKey(k, S, v))
  PROVE  SumOn(g, KeysOf(k, S)) = SumOn(f, S)
  BY NumberGroups DEF Whole, Numbers

LEMMA SumMonotone ==
  ASSUME NEW S, IsFiniteSet(S), NEW T \in SUBSET S, NEW f, Whole(f, S)
  PROVE  SumOn(f, T) \in Nat /\ SumOn(f, S) \in Nat /\ SumOn(f, T) <= SumOn(f, S)
  <1>1. /\ SumOn(f, S) = SumOn(f, T) + SumOn(f, S \ T)
        /\ SumOn(f, T) \in Nat /\ SumOn(f, S \ T) \in Nat
    BY SumSplit
  <1>2. QED
    BY <1>1

\* What is at most two others, term by term, is at most their sums.
LEMMA SumBounded ==
  ASSUME NEW S, IsFiniteSet(S), NEW f, NEW a, NEW b, Whole(f, S), Whole(a, S), Whole(b, S),
         \A x \in S : f[x] <= a[x] + b[x]
  PROVE  SumOn(f, S) <= SumOn(a, S) + SumOn(b, S)
  <1> DEFINE P == {T \in SUBSET S : SumOn(f, T) <= SumOn(a, T) + SumOn(b, T)}
  <1>1. ASSUME NEW T \in SUBSET S, \A R \in SUBSET T : R # T => R \in P
        PROVE  T \in P
    <2>1. IsFiniteSet(T) /\ Whole(f, T) /\ Whole(a, T) /\ Whole(b, T)
      BY FS_Subset DEF Whole
    <2>2. CASE T = {}
      BY <2>2, SumEmpty
    <2>3. ASSUME NEW x \in T PROVE SumOn(f, T) <= SumOn(a, T) + SumOn(b, T)
      <3>1. PICK R : R = T \ {x}
        OBVIOUS
      <3>2. /\ SumOn(f, T) = f[x] + SumOn(f, R) /\ SumOn(a, T) = a[x] + SumOn(a, R)
            /\ SumOn(b, T) = b[x] + SumOn(b, R)
        BY <2>1, <2>3, <3>1, SumTake
      <3>3. /\ f[x] \in Nat /\ a[x] \in Nat /\ b[x] \in Nat /\ f[x] <= a[x] + b[x]
            /\ SumOn(f, R) \in Nat /\ SumOn(a, R) \in Nat /\ SumOn(b, R) \in Nat
        BY <2>1, <2>3, <3>1, SumSplit DEF Whole
      <3>4. SumOn(f, R) <= SumOn(a, R) + SumOn(b, R)
        BY <1>1, <2>3, <3>1
      <3>5. QED
        BY <3>2, <3>3, <3>4
    <2>4. QED
      BY <2>2, <2>3
  <1>2. S \in P
    <2> HIDE DEF P
    <2>1. QED
      BY <1>1, SmallerFirst
  <1>3. QED
    BY <1>2

LEMMA SumPlus ==
  ASSUME NEW S, IsFiniteSet(S), NEW f, NEW a, NEW b, Whole(f, S), Whole(a, S), Whole(b, S),
         \A x \in S : f[x] = a[x] + b[x]
  PROVE  SumOn(f, S) = SumOn(a, S) + SumOn(b, S)
  <1> DEFINE P == {T \in SUBSET S : SumOn(f, T) = SumOn(a, T) + SumOn(b, T)}
  <1>1. ASSUME NEW T \in SUBSET S, \A R \in SUBSET T : R # T => R \in P
        PROVE  T \in P
    <2>1. IsFiniteSet(T) /\ Whole(f, T) /\ Whole(a, T) /\ Whole(b, T)
      BY FS_Subset DEF Whole
    <2>2. CASE T = {}
      BY <2>2, SumEmpty
    <2>3. ASSUME NEW x \in T PROVE SumOn(f, T) = SumOn(a, T) + SumOn(b, T)
      <3>1. PICK R : R = T \ {x}
        OBVIOUS
      <3>2. /\ SumOn(f, T) = f[x] + SumOn(f, R) /\ SumOn(a, T) = a[x] + SumOn(a, R)
            /\ SumOn(b, T) = b[x] + SumOn(b, R)
        BY <2>1, <2>3, <3>1, SumTake
      <3>3. /\ f[x] \in Nat /\ a[x] \in Nat /\ b[x] \in Nat /\ f[x] = a[x] + b[x]
            /\ SumOn(f, R) \in Nat /\ SumOn(a, R) \in Nat /\ SumOn(b, R) \in Nat
        BY <2>1, <2>3, <3>1, SumSplit DEF Whole
      <3>4. SumOn(f, R) = SumOn(a, R) + SumOn(b, R)
        BY <1>1, <2>3, <3>1
      <3>5. QED
        BY <3>2, <3>3, <3>4
    <2>4. QED
      BY <2>2, <2>3
  <1>2. S \in P
    <2> HIDE DEF P
    <2>1. QED
      BY <1>1, SmallerFirst
  <1>3. QED
    BY <1>2

LEMMA SumZeros ==
  ASSUME NEW S, IsFiniteSet(S), NEW f, \A x \in S : f[x] = 0
  PROVE  SumOn(f, S) = 0
  <1>1. Whole(f, S) /\ \A x \in S : f[x] = f[x] * 0
    BY DEF Whole
  <1>2. SumOn(f, S) \in Nat /\ SumOn(f, S) = SumOn(f, S) * 0
    BY <1>1, SumWhole, SumScaled
  <1>3. QED
    BY <1>2

\* One term changes, the others do not.
LEMMA SumUpdate ==
  ASSUME NEW S, IsFiniteSet(S), NEW f, NEW h, Whole(f, S), Whole(h, S), NEW x \in S,
         \A y \in S \ {x} : f[y] = h[y]
  PROVE  /\ SumOn(f, S) \in Nat /\ SumOn(h, S) \in Nat
         /\ SumOn(h, S) + f[x] = SumOn(f, S) + h[x]
  <1>1. SumOn(f, S) = f[x] + SumOn(f, S \ {x}) /\ SumOn(h, S) = h[x] + SumOn(h, S \ {x})
    BY SumTake
  <1>2. SumOn(f, S \ {x}) = SumOn(h, S \ {x})
    BY FS_Subset, SumSame
  <1>3. f[x] \in Nat /\ h[x] \in Nat /\ SumOn(f, S \ {x}) \in Nat
    <2>1. S \ {x} \in SUBSET S
      OBVIOUS
    <2>2. QED
      BY <2>1, SumMonotone DEF Whole
  <1>4. QED
    BY <1>1, <1>2, <1>3

LEMMA SumLess ==
  ASSUME NEW S, IsFiniteSet(S), NEW f, NEW h, Whole(f, S), Whole(h, S),
         \A x \in S : f[x] <= h[x]
  PROVE  SumOn(f, S) <= SumOn(h, S)
  <1> DEFINE zeros == [x \in S |-> 0]
  <1>1. Whole(zeros, S) /\ \A x \in S : zeros[x] = 0 /\ f[x] <= h[x] + zeros[x]
    BY DEF Whole
  <1> HIDE DEF zeros
  <1>2. SumOn(zeros, S) = 0 /\ SumOn(f, S) <= SumOn(h, S) + SumOn(zeros, S)
    BY <1>1, SumZeros, SumBounded
  <1>3. SumOn(h, S) \in Nat /\ SumOn(f, S) \in Nat
    BY SumWhole
  <1>4. QED
    BY <1>2, <1>3

\* A bound on the terms bounds the sum.
LEMMA SumConstant ==
  ASSUME NEW S, IsFiniteSet(S), NEW n \in Nat, NEW f, \A x \in S : f[x] = n
  PROVE  Whole(f, S) /\ SumOn(f, S) = Cardinality(S) * n
  <1> DEFINE ones == [x \in S |-> 1]
  <1>1. Whole(ones, S) /\ Whole(f, S) /\ \A x \in S : ones[x] = 1 /\ f[x] = ones[x] * n
    BY DEF Whole
  <1> HIDE DEF ones
  <1>2. SumOn(f, S) = SumOn(ones, S) * n /\ SumOn(ones, S) = Cardinality(S)
    BY <1>1, SumScaled, SumOnes
  <1>3. QED
    BY <1>1, <1>2

LEMMA SumCapped ==
  ASSUME NEW S, IsFiniteSet(S), NEW n \in Nat, NEW f, Whole(f, S), \A x \in S : f[x] <= n
  PROVE  SumOn(f, S) <= Cardinality(S) * n
  <1> DEFINE h == [x \in S |-> n]
  <1>1. \A x \in S : h[x] = n /\ f[x] <= h[x]
    OBVIOUS
  <1> HIDE DEF h
  <1>2. Whole(h, S) /\ SumOn(h, S) = Cardinality(S) * n
    BY <1>1, SumConstant
  <1>3. QED
    BY <1>1, <1>2, SumLess

\* Where f differs from a + b + h by n at most, term by term, so do the sums, by the sum
\* of n.
LEMMA SumApart ==
  ASSUME NEW S, IsFiniteSet(S), NEW f, NEW a, NEW b, NEW h, NEW n, Numbers(f, S), Numbers(a, S),
         Numbers(b, S), Numbers(h, S), Numbers(n, S),
         \A x \in S : /\ f[x] - (a[x] + b[x] + h[x]) <= n[x]
                     /\ a[x] + b[x] + h[x] - f[x] <= n[x]
  PROVE  /\ SumOn(f, S) - (SumOn(a, S) + SumOn(b, S) + SumOn(h, S)) <= SumOn(n, S)
         /\ SumOn(a, S) + SumOn(b, S) + SumOn(h, S) - SumOn(f, S) <= SumOn(n, S)
  <1> DEFINE Apart(T) ==
               /\ SumOn(f, T) - (SumOn(a, T) + SumOn(b, T) + SumOn(h, T)) <= SumOn(n, T)
               /\ SumOn(a, T) + SumOn(b, T) + SumOn(h, T) - SumOn(f, T) <= SumOn(n, T)
             P == {T \in SUBSET S : Apart(T)}
  <1>1. ASSUME NEW T \in SUBSET S, \A R \in SUBSET T : R # T => R \in P
        PROVE  T \in P
    <2>1. /\ IsFiniteSet(T)
          /\ Numbers(f, T) /\ Numbers(a, T) /\ Numbers(b, T) /\ Numbers(h, T) /\ Numbers(n, T)
      BY FS_Subset DEF Numbers
    <2>2. CASE T = {}
      BY <2>2, SumEmpty
    <2>3. ASSUME NEW x \in T PROVE Apart(T)
      <3>1. PICK R : R = T \ {x}
        OBVIOUS
      <3>2. /\ SumOn(f, T) = f[x] + SumOn(f, R) /\ SumOn(a, T) = a[x] + SumOn(a, R)
            /\ SumOn(b, T) = b[x] + SumOn(b, R) /\ SumOn(h, T) = h[x] + SumOn(h, R)
            /\ SumOn(n, T) = n[x] + SumOn(n, R)
        BY <2>1, <2>3, <3>1, NumberTake
      <3>3. /\ f[x] \in Int /\ a[x] \in Int /\ b[x] \in Int /\ h[x] \in Int /\ n[x] \in Int
            /\ f[x] - (a[x] + b[x] + h[x]) <= n[x] /\ a[x] + b[x] + h[x] - f[x] <= n[x]
        BY <2>1, <2>3 DEF Numbers
      <3>4. /\ SumOn(f, R) \in Int /\ SumOn(a, R) \in Int /\ SumOn(b, R) \in Int
            /\ SumOn(h, R) \in Int /\ SumOn(n, R) \in Int
        <4>1. /\ IsFiniteSet(R) /\ Numbers(f, R) /\ Numbers(a, R) /\ Numbers(b, R)
              /\ Numbers(h, R) /\ Numbers(n, R)
          BY <2>1, <3>1, FS_Subset DEF Numbers
        <4>2. QED
          BY <4>1, SumNumber
      <3>5. Apart(R)
        BY <1>1, <2>3, <3>1
      <3>6. QED
        BY <3>2, <3>3, <3>4, <3>5
    <2>4. QED
      BY <2>2, <2>3
  <1>2. S \in P
    <2> HIDE DEF P
    <2>1. QED
      BY <1>1, SmallerFirst
  <1>3. QED
    BY <1>2

LEMMA SumNear ==
  ASSUME NEW S, IsFiniteSet(S), NEW f, NEW h, NEW n, Numbers(f, S), Numbers(h, S), Numbers(n, S),
         \A x \in S : f[x] - h[x] <= n[x] /\ h[x] - f[x] <= n[x]
  PROVE  /\ SumOn(f, S) - SumOn(h, S) <= SumOn(n, S) /\ SumOn(h, S) - SumOn(f, S) <= SumOn(n, S)
         /\ SumOn(f, S) \in Int /\ SumOn(h, S) \in Int /\ SumOn(n, S) \in Int
  <1> DEFINE zeros == [x \in S |-> 0]
  <1>1. Numbers(zeros, S) /\ \A x \in S : zeros[x] = 0
    BY DEF Numbers
  <1> HIDE DEF zeros
  <1>2. SumOn(zeros, S) = 0 /\ SumOn(f, S) \in Int /\ SumOn(h, S) \in Int /\ SumOn(n, S) \in Int
    BY <1>1, SumZeros, SumNumber
  <1>3. \A x \in S : /\ f[x] - (h[x] + zeros[x] + zeros[x]) <= n[x]
                    /\ h[x] + zeros[x] + zeros[x] - f[x] <= n[x]
    BY <1>1 DEF Numbers
  <1>4. /\ SumOn(f, S) - (SumOn(h, S) + SumOn(zeros, S) + SumOn(zeros, S)) <= SumOn(n, S)
        /\ SumOn(h, S) + SumOn(zeros, S) + SumOn(zeros, S) - SumOn(f, S) <= SumOn(n, S)
    BY <1>1, <1>3, SumApart
  <1>5. QED
    BY <1>2, <1>4

\* Where each group's c is near the sum of the group, a unit an element apart at most, the
\* sum of c is as near the sum of all.
LEMMA NearGroups ==
  ASSUME NEW S, IsFiniteSet(S), NEW f, Numbers(f, S), NEW u \in Nat, NEW k, NEW c,
         \A v \in KeysOf(k, S) :
           /\ c[v] \in Int
           /\ c[v] - SumOn(f, WithKey(k, S, v)) <= u * Cardinality(WithKey(k, S, v))
           /\ SumOn(f, WithKey(k, S, v)) - c[v] <= u * Cardinality(WithKey(k, S, v))
  PROVE  /\ SumOn(c, KeysOf(k, S)) \in Int /\ SumOn(f, S) \in Int
         /\ SumOn(c, KeysOf(k, S)) - SumOn(f, S) <= u * Cardinality(S)
         /\ SumOn(f, S) - SumOn(c, KeysOf(k, S)) <= u * Cardinality(S)
  <1>1. PICK V : V = KeysOf(k, S)
    OBVIOUS
  <1> DEFINE g == [v \in V |-> SumOn(f, WithKey(k, S, v))]
             units == [x \in S |-> u]
             n == [v \in V |-> u * Cardinality(WithKey(k, S, v))]
  <1>2. IsFiniteSet(V)
    BY <1>1, ImageFinite DEF KeysOf
  <1>3. \A v : WithKey(k, S, v) \in SUBSET S /\ IsFiniteSet(WithKey(k, S, v))
    BY FS_Subset DEF WithKey
  <1>4. \A v \in V : g[v] = SumOn(f, WithKey(k, S, v)) /\ g[v] \in Int
    BY <1>3, SumNumber DEF Numbers
  <1>5. \A x \in S : units[x] = u
    OBVIOUS
  <1>6. \A v \in V : n[v] = SumOn(units, WithKey(k, S, v)) /\ n[v] \in Int
    <2>1. TAKE v \in V
    <2>2. \A x \in WithKey(k, S, v) : units[x] = u
      BY <1>3
    <2>3. Cardinality(WithKey(k, S, v)) \in Nat
      BY <1>3, FS_CardinalityType
    <2>4. n[v] = u * Cardinality(WithKey(k, S, v))
      OBVIOUS
    <2> HIDE DEF units, n
    <2>5. SumOn(units, WithKey(k, S, v)) = Cardinality(WithKey(k, S, v)) * u
      BY <1>3, <2>2, SumConstant
    <2>6. QED
      BY <2>3, <2>4, <2>5
  <1>7. \A v \in V : c[v] \in Int /\ c[v] - g[v] <= n[v] /\ g[v] - c[v] <= n[v]
    BY <1>1, <1>4
  <1> HIDE DEF g, units, n
  <1>8. SumOn(g, V) = SumOn(f, S)
    BY <1>1, <1>4, NumberGroups
  <1>9. Numbers(units, S) /\ SumOn(units, S) = Cardinality(S) * u /\ Cardinality(S) \in Nat
    BY <1>5, SumConstant, FS_CardinalityType DEF Numbers
  <1>10. SumOn(n, V) = SumOn(units, S)
    BY <1>1, <1>6, <1>9, NumberGroups
  <1>11. /\ SumOn(c, V) - SumOn(g, V) <= SumOn(n, V) /\ SumOn(g, V) - SumOn(c, V) <= SumOn(n, V)
         /\ SumOn(c, V) \in Int /\ SumOn(g, V) \in Int
    <2>1. Numbers(c, V) /\ Numbers(g, V) /\ Numbers(n, V)
      BY <1>4, <1>6, <1>7 DEF Numbers
    <2>2. QED
      BY <1>2, <1>7, <2>1, SumNear
  <1>12. QED
    BY <1>1, <1>8, <1>9, <1>10, <1>11
=============================================================================
