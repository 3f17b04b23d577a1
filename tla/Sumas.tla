---------------------------------- MODULE Sumas ----------------------------------
(***************************************************************************)
(* Sums and extremes of finite sets, for the proofs about money and time.  *)
(*                                                                         *)
(* MapThenSumSet of the community modules is a recursive function over the *)
(* subsets of its set.  Here its recursion is shown to have a value and    *)
(* the laws of a sum, for a summand given as a function.  Induction is     *)
(* stated for sets, so that a proof cites it as any other fact: a set of   *)
(* naturals closed under successor misses none, for the predecessor would  *)
(* be an injection of the missing ones into fewer.                         *)
(***************************************************************************)
EXTENDS Integers, FiniteSets, FiniteSetsExt, FiniteSetTheorems, TLAPS

\* The element a fold takes out of a set.
Elige(T) == CHOOSE x \in T : TRUE

\* The recursion of MapThenSumSet, with the summand as a function.
Acumula(f, S) ==
    CHOOSE g : g = [T \in SUBSET S |->
                       IF T = {} THEN 0 ELSE f[Elige(T)] + g[T \ {Elige(T)}]]

Total(f, S) == Acumula(f, S)[S]

\* g solves the recursion.
Solucion(g, f, S) ==
    \A T \in SUBSET S : g[T] = IF T = {} THEN 0 ELSE f[Elige(T)] + g[T \ {Elige(T)}]

\* A finite sum of integers.
Sumable(f, S) == IsFiniteSet(S) /\ \A x \in S : f[x] \in Int

-------------------------------------------------------------------------------
\* Induction over the naturals.
LEMMA InduccionNat ==
    ASSUME NEW S \in SUBSET Nat, 0 \in S, \A n \in S : n + 1 \in S
    PROVE  \A n \in Nat : n \in S
  <1> SUFFICES ASSUME NEW m \in Nat, m \notin S PROVE FALSE
    OBVIOUS
  <1> DEFINE T == {n \in 0..m : n \notin S}
             U == T \ {m}
             f == [n \in T |-> n - 1]
  <1>1. IsFiniteSet(T) /\ m \in T
    <2>1. IsFiniteSet(0..m)
      BY FS_Interval
    <2>2. T \in SUBSET (0..m) /\ m \in T
      OBVIOUS
    <2> HIDE DEF T
    <2>3. QED
      BY <2>1, <2>2, FS_Subset
  <1>2. IsFiniteSet(U) /\ Cardinality(U) = Cardinality(T) - 1 /\ Cardinality(T) \in Nat
    BY <1>1, FS_RemoveElement, FS_CardinalityType
  <1>3. \A n \in T : n - 1 \in U
    <2>1. SUFFICES ASSUME NEW n \in T PROVE n - 1 \in U
      OBVIOUS
    <2>2. n \in Nat /\ n # 0 /\ n <= m
      OBVIOUS
    <2>3. n - 1 \in Nat /\ (n - 1) + 1 = n
      BY <2>2
    <2>4. n - 1 \notin S
      BY <2>3
    <2>5. QED
      BY <2>2, <2>3, <2>4
  <1>4. f \in [T -> U]
    BY <1>3
  <1>5. \A a, b \in T : f[a] = f[b] => a = b
    OBVIOUS
  <1>6. f \in Injection(T, U)
    BY <1>4, <1>5 DEF Injection, IsInjective
  <1>7. Cardinality(T) <= Cardinality(U)
    BY <1>2, <1>6, FS_Injection
  <1>8. QED
    BY <1>2, <1>7

\* Induction over the subsets of a finite set, by their size.
LEMMA InduccionTamano ==
    ASSUME NEW S, IsFiniteSet(S), NEW C,
           \A T \in SUBSET S :
               (\A U \in SUBSET S : Cardinality(U) < Cardinality(T) => U \in C) => T \in C
    PROVE  \A T \in SUBSET S : T \in C
  <1> DEFINE N == {n \in Nat : \A T \in SUBSET S : Cardinality(T) < n => T \in C}
  <1>1. \A T \in SUBSET S : Cardinality(T) \in Nat
    BY FS_Subset, FS_CardinalityType
  <1>2. 0 \in N
    BY <1>1
  <1>3. ASSUME NEW n \in N PROVE n + 1 \in N
    <2>1. ASSUME NEW T \in SUBSET S, Cardinality(T) < n + 1 PROVE T \in C
      <3>1. \A U \in SUBSET S : Cardinality(U) < Cardinality(T) => U \in C
        BY <1>1, <2>1
      <3>2. QED
        BY <3>1
    <2>2. QED
      BY <2>1
  <1>4. \A n \in Nat : n \in N
    <2> HIDE DEF N
    <2>1. N \in SUBSET Nat
      BY DEF N
    <2>2. QED
      BY <1>2, <1>3, <2>1, InduccionNat
  <1>5. ASSUME NEW T \in SUBSET S PROVE T \in C
    <2>1. Cardinality(T) + 1 \in N
      BY <1>1, <1>4
    <2>2. QED
      BY <1>1, <2>1
  <1>6. QED
    BY <1>5

\* Taking out one element.
LEMMA SinUno ==
    ASSUME NEW T, IsFiniteSet(T), T # {}
    PROVE  /\ Elige(T) \in T
           /\ IsFiniteSet(T \ {Elige(T)})
           /\ Cardinality(T \ {Elige(T)}) < Cardinality(T)
  <1>1. Elige(T) \in T
    BY DEF Elige
  <1>2. \A x : IsFiniteSet(T \ {x})
               /\ (x \in T => Cardinality(T \ {x}) = Cardinality(T) - 1)
    BY FS_RemoveElement
  <1>3. Cardinality(T) \in Nat
    BY FS_CardinalityType
  <1>4. QED
    BY <1>1, <1>2, <1>3

-------------------------------------------------------------------------------
\* The recursion has a solution: one for the subsets up to each size.
LEMMA AcumulaExiste ==
    ASSUME NEW S, NEW f, Sumable(f, S)
    PROVE  \E g \in [SUBSET S -> Int] : Solucion(g, f, S)
  <1> DEFINE P(n) == {T \in SUBSET S : Cardinality(T) <= n}
             Sirve(g, n) == \A T \in P(n) :
                 g[T] = IF T = {} THEN 0 ELSE f[Elige(T)] + g[T \ {Elige(T)}]
             N == {n \in Nat : \E g \in [P(n) -> Int] : Sirve(g, n)}
  <1> USE DEF Sumable
  <1>1. \A T \in SUBSET S : IsFiniteSet(T) /\ Cardinality(T) \in Nat /\ Cardinality(T) <= Cardinality(S)
    BY FS_Subset, FS_CardinalityType
  <1>2. \A T \in SUBSET S : T # {} => /\ Elige(T) \in T /\ f[Elige(T)] \in Int
                                      /\ T \ {Elige(T)} \in SUBSET S
                                      /\ Cardinality(T \ {Elige(T)}) < Cardinality(T)
    BY <1>1, SinUno
  <1>3. 0 \in N
    <2> DEFINE g == [T \in P(0) |-> 0]
    <2>1. P(0) = {{}}
      BY <1>1, FS_EmptySet
    <2>2. g \in [P(0) -> Int] /\ Sirve(g, 0)
      BY <2>1
    <2>3. QED
      BY <2>2
  <1>4. ASSUME NEW n \in N PROVE n + 1 \in N
    <2>1. n \in Nat
      OBVIOUS
    <2>2. PICK g \in [P(n) -> Int] : Sirve(g, n)
      BY <1>4
    <2> DEFINE h == [T \in P(n + 1) |-> IF T \in P(n) THEN g[T]
                                        ELSE f[Elige(T)] + g[T \ {Elige(T)}]]
    <2>3. ASSUME NEW T \in P(n + 1), T # {}
          PROVE  T \ {Elige(T)} \in P(n) /\ T \ {Elige(T)} \in P(n + 1)
      BY <1>1, <1>2, <2>1, <2>3
    <2>4. ASSUME NEW T \in P(n + 1), T \notin P(n)
          PROVE  T # {}
      <3>1. Cardinality({}) = 0
        BY FS_EmptySet
      <3>2. {} \in P(n)
        BY <2>1, <3>1
      <3> HIDE DEF P
      <3>3. QED
        BY <2>4, <3>2
    <2>5. h \in [P(n + 1) -> Int]
      <3>1. ASSUME NEW T \in P(n + 1) PROVE h[T] \in Int
        <4>1. CASE T \in P(n)
          BY <2>2, <4>1
        <4>2. CASE T \notin P(n)
          <5>1. T # {} /\ T \ {Elige(T)} \in P(n) /\ f[Elige(T)] \in Int
            BY <1>2, <2>3, <2>4, <4>2
          <5>2. g[T \ {Elige(T)}] \in Int
            BY <2>2, <5>1
          <5>3. QED
            BY <4>2, <5>1, <5>2
        <4>3. QED
          BY <4>1, <4>2
      <3>2. QED
        BY <3>1
    <2>6. Sirve(h, n + 1)
      <3>1. SUFFICES ASSUME NEW T \in P(n + 1)
                     PROVE  h[T] = IF T = {} THEN 0 ELSE f[Elige(T)] + h[T \ {Elige(T)}]
        OBVIOUS
      <3>2. \A U \in P(n) : U \in P(n + 1) /\ h[U] = g[U]
        BY <1>1, <2>1
      <3>3. CASE T \in P(n)
        <4>1. h[T] = IF T = {} THEN 0 ELSE f[Elige(T)] + g[T \ {Elige(T)}]
          BY <2>2, <3>2, <3>3
        <4>2. T # {} => T \ {Elige(T)} \in P(n)
          BY <2>3
        <4> HIDE DEF h, P
        <4>3. QED
          BY <3>2, <4>1, <4>2
      <3>4. CASE T \notin P(n)
        <4>1. h[T] = f[Elige(T)] + g[T \ {Elige(T)}] /\ T # {} /\ T \ {Elige(T)} \in P(n)
          BY <2>3, <2>4, <3>4
        <4> HIDE DEF h, P
        <4>2. QED
          BY <3>2, <4>1
      <3>5. QED
        BY <3>3, <3>4
    <2>7. n + 1 \in Nat /\ \E k \in [P(n + 1) -> Int] : Sirve(k, n + 1)
      <3> HIDE DEF h, P, Sirve
      <3>1. QED
        BY <2>1, <2>5, <2>6
    <2>8. QED
      BY <2>7
  <1>5. Cardinality(S) \in N
    <2> HIDE DEF N
    <2>1. N \in SUBSET Nat
      BY DEF N
    <2>2. \A n \in Nat : n \in N
      BY <1>3, <1>4, <2>1, InduccionNat
    <2>3. QED
      BY <1>1, <2>2
  <1>6. P(Cardinality(S)) = SUBSET S
    BY <1>1
  <1>7. PICK g \in [SUBSET S -> Int] : Sirve(g, Cardinality(S))
    BY <1>5, <1>6
  <1>8. Solucion(g, f, S)
    BY <1>6, <1>7 DEF Solucion
  <1>9. QED
    BY <1>8

\* The recursion is the one MapThenSumSet unfolds to.
LEMMA AcumulaDef ==
    ASSUME NEW S, IsFiniteSet(S), NEW f, \A x \in S : f[x] \in Int
    PROVE  /\ Acumula(f, S) \in [SUBSET S -> Int]
           /\ \A T \in SUBSET S :
                 Acumula(f, S)[T] = IF T = {} THEN 0
                                    ELSE f[Elige(T)] + Acumula(f, S)[T \ {Elige(T)}]
  <1> DEFINE Eq(g) == g = [T \in SUBSET S |->
                              IF T = {} THEN 0 ELSE f[Elige(T)] + g[T \ {Elige(T)}]]
  <1> Sumable(f, S)
    BY DEF Sumable
  <1>0. PICK g \in [SUBSET S -> Int] : Solucion(g, f, S)
    BY AcumulaExiste
  <1>1. Eq(g)
    BY <1>0 DEF Solucion
  <1>2. Acumula(f, S) = CHOOSE k : Eq(k)
    BY DEF Acumula
  <1>3. Eq(Acumula(f, S))
    <2> HIDE DEF Eq
    <2>1. QED
      BY <1>1, <1>2
  <1> DEFINE A == Acumula(f, S)
  <1> HIDE DEF A
  <1>4. A = [T \in SUBSET S |-> IF T = {} THEN 0 ELSE f[Elige(T)] + A[T \ {Elige(T)}]]
    BY <1>3 DEF A
  <1>5. \A T \in SUBSET S : A[T] = IF T = {} THEN 0 ELSE f[Elige(T)] + A[T \ {Elige(T)}]
    BY <1>4
  <1>6. \A T \in SUBSET S : IsFiniteSet(T)
    BY FS_Subset
  <1> DEFINE C == {T \in SUBSET S : A[T] \in Int}
  <1>7. ASSUME NEW T \in SUBSET S,
               \A U \in SUBSET S : Cardinality(U) < Cardinality(T) => U \in C
        PROVE  T \in C
    <2>1. CASE T = {}
      <3>1. A[T] = 0
        BY <1>5, <2>1
      <3>2. QED
        BY <3>1
    <2>2. CASE T # {}
      <3>1. /\ Elige(T) \in T /\ T \ {Elige(T)} \in SUBSET S
            /\ Cardinality(T \ {Elige(T)}) < Cardinality(T)
        BY <1>6, <2>2, SinUno
      <3>2. A[T \ {Elige(T)}] \in Int /\ f[Elige(T)] \in Int
        BY <1>7, <3>1
      <3>3. A[T] = f[Elige(T)] + A[T \ {Elige(T)}]
        BY <1>5, <2>2
      <3>4. QED
        BY <3>2, <3>3
    <2>3. QED
      BY <2>1, <2>2
  <1>8. \A T \in SUBSET S : T \in C
    <2> HIDE DEF C
    <2>1. QED
      BY <1>7, InduccionTamano
  <1>9. A \in [SUBSET S -> Int]
    <2>1. DOMAIN A = SUBSET S /\ A = [T \in SUBSET S |-> A[T]]
      BY <1>4
    <2>2. QED
      BY <1>8, <2>1
  <1>10. QED
    BY <1>5, <1>9 DEF A

\* The fold over a set and over a subset of it run alike.
LEMMA AcumulaRestringe ==
    ASSUME NEW S, IsFiniteSet(S), NEW f, \A x \in S : f[x] \in Int, NEW R \in SUBSET S
    PROVE  Acumula(f, S)[R] = Total(f, R)
  <1> DEFINE A == Acumula(f, S)
             B == Acumula(f, R)
             C == {T \in SUBSET R : A[T] = B[T]}
  <1>1. IsFiniteSet(R) /\ \A x \in R : f[x] \in Int
    BY FS_Subset
  <1>2. \A T \in SUBSET R :
           /\ A[T] = IF T = {} THEN 0 ELSE f[Elige(T)] + A[T \ {Elige(T)}]
           /\ B[T] = IF T = {} THEN 0 ELSE f[Elige(T)] + B[T \ {Elige(T)}]
    BY <1>1, AcumulaDef
  <1> HIDE DEF A, B
  <1>3. ASSUME NEW T \in SUBSET R,
               \A U \in SUBSET R : Cardinality(U) < Cardinality(T) => U \in C
        PROVE  T \in C
    <2>1. CASE T = {}
      BY <1>2, <2>1
    <2>2. CASE T # {}
      <3>1. IsFiniteSet(T)
        BY <1>1, FS_Subset
      <3>2. /\ T \ {Elige(T)} \in SUBSET R
            /\ Cardinality(T \ {Elige(T)}) < Cardinality(T)
        BY <2>2, <3>1, SinUno
      <3>3. A[T \ {Elige(T)}] = B[T \ {Elige(T)}]
        BY <1>3, <3>2
      <3>4. QED
        BY <1>2, <2>2, <3>3
    <2>3. QED
      BY <2>1, <2>2
  <1>4. \A T \in SUBSET R : T \in C
    <2> HIDE DEF C
    <2>1. QED
      BY <1>1, <1>3, InduccionTamano
  <1>5. QED
    BY <1>4 DEF A, B, Total

\* A total is an integer, 0 for the empty set, and takes its elements in some order.
LEMMA TotalTipo ==
    ASSUME NEW S, IsFiniteSet(S), NEW f, \A x \in S : f[x] \in Int
    PROVE  Total(f, S) \in Int
  BY AcumulaDef DEF Total

LEMMA TotalVacio == ASSUME NEW f PROVE Total(f, {}) = 0
  <1>1. IsFiniteSet({}) /\ \A x \in {} : f[x] \in Int
    BY FS_EmptySet
  <1>2. QED
    BY <1>1, AcumulaDef DEF Total

LEMMA TotalElige ==
    ASSUME NEW S, IsFiniteSet(S), NEW f, \A x \in S : f[x] \in Int, S # {}
    PROVE  Total(f, S) = f[Elige(S)] + Total(f, S \ {Elige(S)})
  <1>1. Acumula(f, S)[S] = f[Elige(S)] + Acumula(f, S)[S \ {Elige(S)}]
    BY AcumulaDef
  <1>2. Acumula(f, S)[S \ {Elige(S)}] = Total(f, S \ {Elige(S)})
    BY AcumulaRestringe
  <1>3. QED
    BY <1>1, <1>2 DEF Total

\* Any element may be taken first.
LEMMA TotalQuita ==
    ASSUME NEW S, IsFiniteSet(S), NEW f, \A x \in S : f[x] \in Int, NEW a \in S
    PROVE  Total(f, S) = f[a] + Total(f, S \ {a})
  <1> DEFINE C == {T \in SUBSET S : \A b \in T : Total(f, T) = f[b] + Total(f, T \ {b})}
  <1>1. \A T \in SUBSET S : IsFiniteSet(T) /\ Total(f, T) \in Int
    BY FS_Subset, TotalTipo
  <1>2. ASSUME NEW T \in SUBSET S,
               \A U \in SUBSET S : Cardinality(U) < Cardinality(T) => U \in C
        PROVE  T \in C
    <2>1. SUFFICES ASSUME NEW b \in T
                   PROVE  Total(f, T) = f[b] + Total(f, T \ {b})
      OBVIOUS
    <2> DEFINE e == Elige(T)
    <2>2. /\ e \in T /\ Total(f, T) = f[e] + Total(f, T \ {e})
          /\ Cardinality(T \ {e}) < Cardinality(T)
      BY <1>1, SinUno, TotalElige
    <2> HIDE DEF e
    <2>3. CASE b = e
      BY <2>2, <2>3
    <2>4. CASE b # e
      <3>1. Cardinality(T \ {b}) < Cardinality(T)
        <4>1. Cardinality(T \ {b}) = Cardinality(T) - 1 /\ Cardinality(T) \in Nat
          BY <1>1, FS_RemoveElement, FS_CardinalityType
        <4>2. QED
          BY <4>1
      <3>2. T \ {e} \in C /\ T \ {b} \in C
        BY <1>2, <2>2, <3>1
      <3>3. /\ Total(f, T \ {e}) = f[b] + Total(f, (T \ {e}) \ {b})
            /\ Total(f, T \ {b}) = f[e] + Total(f, (T \ {b}) \ {e})
        BY <2>2, <2>4, <3>2
      <3>4. (T \ {e}) \ {b} = (T \ {b}) \ {e}
        OBVIOUS
      <3> DEFINE resto == Total(f, (T \ {b}) \ {e})
      <3>5. f[e] \in Int /\ f[b] \in Int /\ resto \in Int
        BY <1>1, <2>2
      <3>6. Total(f, T) = f[e] + (f[b] + resto) /\ Total(f, T \ {b}) = f[e] + resto
        BY <2>2, <3>3, <3>4
      <3> HIDE DEF resto
      <3>7. QED
        BY <3>5, <3>6
    <2>5. QED
      BY <2>3, <2>4
  <1>3. \A T \in SUBSET S : T \in C
    <2> HIDE DEF C
    <2>1. QED
      BY <1>2, InduccionTamano
  <1>4. QED
    BY <1>3

\* One element more.
LEMMA TotalAgrega ==
    ASSUME NEW S, IsFiniteSet(S), NEW f, \A x \in S : f[x] \in Int,
           NEW a, a \notin S, f[a] \in Int
    PROVE  Total(f, S \cup {a}) = f[a] + Total(f, S)
  <1> DEFINE T == S \cup {a}
  <1>1. IsFiniteSet(T) /\ a \in T /\ T \ {a} = S /\ \A x \in T : f[x] \in Int
    BY FS_AddElement
  <1> HIDE DEF T
  <1>2. Total(f, T) = f[a] + Total(f, T \ {a})
    BY <1>1, TotalQuita
  <1>3. QED
    BY <1>1, <1>2 DEF T

\* A total depends only on the summands of its set.
LEMMA TotalIgual ==
    ASSUME NEW S, IsFiniteSet(S), NEW f, NEW g,
           \A x \in S : f[x] \in Int /\ g[x] = f[x]
    PROVE  Total(f, S) = Total(g, S)
  <1> DEFINE C == {T \in SUBSET S : Total(f, T) = Total(g, T)}
  <1>1. ASSUME NEW T \in SUBSET S,
               \A U \in SUBSET S : Cardinality(U) < Cardinality(T) => U \in C
        PROVE  T \in C
    <2>1. CASE T = {}
      BY <2>1, TotalVacio
    <2>2. CASE T # {}
      <3>1. IsFiniteSet(T)
        BY FS_Subset
      <3>2. /\ Elige(T) \in T /\ T \ {Elige(T)} \in SUBSET S
            /\ Cardinality(T \ {Elige(T)}) < Cardinality(T)
        BY <2>2, <3>1, SinUno
      <3>3. Total(f, T \ {Elige(T)}) = Total(g, T \ {Elige(T)})
        BY <1>1, <3>2
      <3>4. /\ Total(f, T) = f[Elige(T)] + Total(f, T \ {Elige(T)})
            /\ Total(g, T) = g[Elige(T)] + Total(g, T \ {Elige(T)})
        BY <2>2, <3>1, TotalElige
      <3>5. QED
        BY <3>2, <3>3, <3>4
    <2>3. QED
      BY <2>1, <2>2
  <1>2. \A T \in SUBSET S : T \in C
    <2> HIDE DEF C
    <2>1. QED
      BY <1>1, InduccionTamano
  <1>3. QED
    BY <1>2

\* A total of zeros.
LEMMA TotalCero ==
    ASSUME NEW S, IsFiniteSet(S), NEW f, \A x \in S : f[x] = 0
    PROVE  Total(f, S) = 0
  <1> DEFINE C == {T \in SUBSET S : Total(f, T) = 0}
  <1>1. ASSUME NEW T \in SUBSET S,
               \A U \in SUBSET S : Cardinality(U) < Cardinality(T) => U \in C
        PROVE  T \in C
    <2>1. CASE T = {}
      BY <2>1, TotalVacio
    <2>2. CASE T # {}
      <3>1. IsFiniteSet(T) /\ \A x \in T : f[x] \in Int
        BY FS_Subset
      <3>2. /\ Elige(T) \in T /\ T \ {Elige(T)} \in SUBSET S
            /\ Cardinality(T \ {Elige(T)}) < Cardinality(T)
        BY <2>2, <3>1, SinUno
      <3>3. Total(f, T) = f[Elige(T)] + Total(f, T \ {Elige(T)})
        BY <2>2, <3>1, TotalElige
      <3>4. QED
        BY <1>1, <3>2, <3>3
    <2>3. QED
      BY <2>1, <2>2
  <1>2. \A T \in SUBSET S : T \in C
    <2> HIDE DEF C
    <2>1. QED
      BY <1>1, InduccionTamano
  <1>3. QED
    BY <1>2

\* At most one summand, and that one is 1.
LEMMA TotalUno ==
    ASSUME NEW S, IsFiniteSet(S), NEW f, \A x \in S : f[x] \in {0, 1},
           \A x, y \in S : f[x] = 1 /\ f[y] = 1 => x = y
    PROVE  Total(f, S) <= 1
  <1>1. CASE \A x \in S : f[x] = 0
    BY <1>1, TotalCero
  <1>2. CASE \E x \in S : f[x] # 0
    <2>1. PICK a \in S : f[a] = 1
      BY <1>2
    <2>2. IsFiniteSet(S \ {a}) /\ \A x \in S \ {a} : f[x] = 0
      BY <2>1, FS_RemoveElement
    <2>3. Total(f, S \ {a}) = 0
      BY <2>2, TotalCero
    <2>4. Total(f, S) = f[a] + Total(f, S \ {a})
      BY TotalQuita
    <2>5. QED
      BY <2>1, <2>3, <2>4
  <1>3. QED
    BY <1>1, <1>2

\* The total over two parts of a set.
LEMMA TotalPartes ==
    ASSUME NEW S, IsFiniteSet(S), NEW f, \A x \in S : f[x] \in Int,
           NEW R \in SUBSET S
    PROVE  Total(f, S) = Total(f, R) + Total(f, S \ R)
  <1> DEFINE C == {T \in SUBSET R : Total(f, S) = Total(f, T) + Total(f, S \ T)}
  <1>1. IsFiniteSet(R) /\ \A T \in SUBSET S : IsFiniteSet(T) /\ Total(f, T) \in Int
    BY FS_Subset, TotalTipo
  <1>2. ASSUME NEW T \in SUBSET R,
               \A U \in SUBSET R : Cardinality(U) < Cardinality(T) => U \in C
        PROVE  T \in C
    <2>1. CASE T = {}
      <3>1. Total(f, {}) = 0 /\ S \ {} = S
        BY TotalVacio
      <3>2. QED
        BY <1>1, <2>1, <3>1
    <2>2. CASE T # {}
      <3> DEFINE a == Elige(T)
                 U == T \ {a}
                 W == S \ U
      <3>1. IsFiniteSet(T) /\ a \in T /\ Cardinality(U) < Cardinality(T) /\ U \in SUBSET R
        BY <1>1, <2>2, SinUno
      <3> HIDE DEF a
      <3>2. Total(f, S) = Total(f, U) + Total(f, W)
        BY <1>2, <3>1
      <3>3. a \in W /\ W \ {a} = S \ T /\ W \in SUBSET S
        BY <3>1
      <3>4. Total(f, W) = f[a] + Total(f, S \ T)
        <4>1. IsFiniteSet(W) /\ \A x \in W : f[x] \in Int
          BY <1>1, <3>3
        <4> HIDE DEF W
        <4>2. QED
          BY <3>3, <4>1, TotalQuita
      <3>5. Total(f, T) = f[a] + Total(f, U)
        BY <1>1, <3>1, TotalQuita
      <3>6. f[a] \in Int /\ Total(f, U) \in Int /\ Total(f, S \ T) \in Int
        BY <1>1, <3>1
      <3> DEFINE u == Total(f, U)
                 w == Total(f, S \ T)
      <3>7. Total(f, S) = u + (f[a] + w) /\ Total(f, T) = f[a] + u /\ u \in Int /\ w \in Int
        BY <3>2, <3>4, <3>5, <3>6
      <3>8. Total(f, S) = Total(f, T) + w
        <4> HIDE DEF u, w
        <4>1. QED
          BY <3>6, <3>7
      <3>9. QED
        BY <3>8
    <2>3. QED
      BY <2>1, <2>2
  <1>3. \A T \in SUBSET R : T \in C
    <2> HIDE DEF C
    <2>1. QED
      BY <1>1, <1>2, InduccionTamano
  <1>4. QED
    BY <1>3

\* The total of a difference.
LEMMA TotalResta ==
    ASSUME NEW S, IsFiniteSet(S), NEW f, NEW g, NEW h,
           \A x \in S : f[x] \in Int /\ g[x] \in Int /\ h[x] = f[x] - g[x]
    PROVE  Total(h, S) = Total(f, S) - Total(g, S)
  <1> DEFINE C == {T \in SUBSET S : Total(h, T) = Total(f, T) - Total(g, T)}
  <1>0. \A x \in S : h[x] \in Int
    OBVIOUS
  <1>1. ASSUME NEW T \in SUBSET S,
               \A U \in SUBSET S : Cardinality(U) < Cardinality(T) => U \in C
        PROVE  T \in C
    <2>1. CASE T = {}
      <3>1. Total(f, T) = 0 /\ Total(g, T) = 0 /\ Total(h, T) = 0
        BY <2>1, TotalVacio
      <3>2. QED
        BY <3>1
    <2>2. CASE T # {}
      <3> DEFINE a == Elige(T)
                 U == T \ {a}
      <3>1. IsFiniteSet(T) /\ \A x \in T : f[x] \in Int /\ g[x] \in Int /\ h[x] \in Int
        BY <1>0, FS_Subset
      <3>2. a \in T /\ U \in SUBSET S /\ IsFiniteSet(U) /\ Cardinality(U) < Cardinality(T)
        BY <2>2, <3>1, SinUno
      <3>3. Total(h, U) = Total(f, U) - Total(g, U)
        BY <1>1, <3>2
      <3>4. /\ Total(f, T) = f[a] + Total(f, U)
            /\ Total(g, T) = g[a] + Total(g, U)
            /\ Total(h, T) = h[a] + Total(h, U)
        BY <2>2, <3>1, TotalElige
      <3>5. /\ Total(f, U) \in Int /\ Total(g, U) \in Int
        <4> HIDE DEF U
        <4>1. QED
          BY <3>2, TotalTipo
      <3> DEFINE tf == Total(f, U)
                 tg == Total(g, U)
      <3>6. f[a] \in Int /\ g[a] \in Int /\ h[a] = f[a] - g[a]
        BY <3>2
      <3>7. /\ Total(f, T) = f[a] + tf /\ Total(g, T) = g[a] + tg
            /\ Total(h, T) = h[a] + (tf - tg) /\ tf \in Int /\ tg \in Int
        BY <3>3, <3>4, <3>5
      <3>8. Total(h, T) = Total(f, T) - Total(g, T)
        <4> HIDE DEF tf, tg, a
        <4>1. QED
          BY <3>6, <3>7
      <3>9. QED
        BY <3>8
    <2>3. QED
      BY <2>1, <2>2
  <1>2. \A T \in SUBSET S : T \in C
    <2> HIDE DEF C
    <2>1. QED
      BY <1>1, InduccionTamano
  <1>3. QED
    BY <1>2

\* The total group by group.
LEMMA TotalFibras ==
    ASSUME NEW S, IsFiniteSet(S), NEW f, \A x \in S : f[x] \in Int,
           NEW K, IsFiniteSet(K), NEW c, \A x \in S : c[x] \in K,
           NEW g, \A k \in K : g[k] = Total(f, {x \in S : c[x] = k})
    PROVE  Total(g, K) = Total(f, S)
  <1> DEFINE De(k) == {x \in S : c[x] = k}
             En(T) == {x \in S : c[x] \in T}
             C == {T \in SUBSET K : Total(g, T) = Total(f, En(T))}
  <1>1. \A R \in SUBSET S : IsFiniteSet(R) /\ Total(f, R) \in Int
    BY FS_Subset, TotalTipo
  <1>2. \A k : De(k) \in SUBSET S
    OBVIOUS
  <1>3. \A k \in K : g[k] = Total(f, De(k))
    OBVIOUS
  <1>4. \A T : En(T) \in SUBSET S
    OBVIOUS
  <1>5. \A T, a : a \in T => /\ De(a) \in SUBSET En(T)
                             /\ En(T) \ De(a) = En(T \ {a})
    OBVIOUS
  <1>6. En({}) = {} /\ En(K) = S
    OBVIOUS
  <1> HIDE DEF De, En
  <1>7. \A k \in K : g[k] \in Int
    BY <1>1, <1>2, <1>3
  <1>8. ASSUME NEW T \in SUBSET K,
               \A U \in SUBSET K : Cardinality(U) < Cardinality(T) => U \in C
        PROVE  T \in C
    <2>1. CASE T = {}
      BY <1>6, <2>1, TotalVacio
    <2>2. CASE T # {}
      <3> DEFINE a == Elige(T)
                 U == T \ {a}
                 R == En(T)
      <3>1. IsFiniteSet(T) /\ \A k \in T : g[k] \in Int
        BY <1>7, FS_Subset
      <3>2. a \in T /\ U \in SUBSET K /\ Cardinality(U) < Cardinality(T)
        BY <2>2, <3>1, SinUno
      <3>3. Total(g, U) = Total(f, En(U))
        BY <1>8, <3>2
      <3>4. Total(g, T) = g[a] + Total(g, U)
        BY <2>2, <3>1, TotalElige
      <3>5. IsFiniteSet(R) /\ (\A x \in R : f[x] \in Int) /\ De(a) \in SUBSET R /\ R \ De(a) = En(U)
        BY <1>1, <1>4, <1>5, <3>2
      <3> HIDE DEF a, U, R
      <3>6. Total(f, R) = Total(f, De(a)) + Total(f, R \ De(a))
        BY <3>5, TotalPartes
      <3>7. g[a] = Total(f, De(a))
        BY <1>3, <3>2
      <3>8. Total(g, T) = Total(f, R)
        BY <3>3, <3>4, <3>5, <3>6, <3>7
      <3>9. QED
        BY <3>8 DEF R
    <2>3. QED
      BY <2>1, <2>2
  <1>9. \A T \in SUBSET K : T \in C
    <2> HIDE DEF C
    <2>1. QED
      BY <1>8, InduccionTamano
  <1>10. Total(g, K) = Total(f, En(K))
    BY <1>9
  <1>11. QED
    BY <1>6, <1>10

\* A cardinality is a total of ones.
LEMMA TotalUnos ==
    ASSUME NEW S, IsFiniteSet(S), NEW f, \A x \in S : f[x] = 1
    PROVE  Total(f, S) = Cardinality(S)
  <1> DEFINE C == {T \in SUBSET S : Total(f, T) = Cardinality(T)}
  <1>1. ASSUME NEW T \in SUBSET S,
               \A U \in SUBSET S : Cardinality(U) < Cardinality(T) => U \in C
        PROVE  T \in C
    <2>1. CASE T = {}
      BY <2>1, TotalVacio, FS_EmptySet
    <2>2. CASE T # {}
      <3> DEFINE a == Elige(T)
                 U == T \ {a}
      <3>1. IsFiniteSet(T) /\ \A x \in T : f[x] \in Int
        BY FS_Subset
      <3>2. a \in T /\ U \in SUBSET S /\ Cardinality(U) < Cardinality(T)
        BY <2>2, <3>1, SinUno
      <3>3. Total(f, U) = Cardinality(U)
        BY <1>1, <3>2
      <3>4. Total(f, T) = f[a] + Total(f, U)
        BY <2>2, <3>1, TotalElige
      <3>5. Cardinality(T) \in Nat
        BY <3>1, FS_CardinalityType
      <3> HIDE DEF a
      <3>6. Cardinality(U) = Cardinality(T) - 1
        BY <3>1, <3>2, FS_RemoveElement
      <3>7. f[a] = 1
        BY <3>2
      <3>8. Total(f, T) = Cardinality(T)
        <4> HIDE DEF U
        <4>1. QED
          BY <3>3, <3>4, <3>5, <3>6, <3>7
      <3>9. QED
        BY <3>8
    <2>3. QED
      BY <2>1, <2>2
  <1>2. \A T \in SUBSET S : T \in C
    <2> HIDE DEF C
    <2>1. QED
      BY <1>1, InduccionTamano
  <1>3. QED
    BY <1>2

\* A finite set of integers has a greatest and a least member.
LEMMA Extremos ==
    ASSUME NEW S \in SUBSET Int, IsFiniteSet(S), S # {}
    PROVE  /\ \E x \in S : \A y \in S : x >= y
           /\ \E x \in S : \A y \in S : x <= y
  <1> DEFINE C == {T \in SUBSET S :
                     T # {} => /\ \E x \in T : \A y \in T : x >= y
                               /\ \E x \in T : \A y \in T : x <= y}
  <1>1. ASSUME NEW T \in SUBSET S,
               \A U \in SUBSET S : Cardinality(U) < Cardinality(T) => U \in C
        PROVE  T \in C
    <2> SUFFICES ASSUME T # {}
                 PROVE  /\ \E x \in T : \A y \in T : x >= y
                        /\ \E x \in T : \A y \in T : x <= y
      OBVIOUS
    <2> DEFINE a == Elige(T)
               U == T \ {a}
    <2>1. IsFiniteSet(T)
      BY FS_Subset
    <2>2. a \in T /\ Cardinality(U) < Cardinality(T) /\ U \in SUBSET S
      BY <2>1, SinUno
    <2> HIDE DEF a
    <2>3. U \in C
      BY <1>1, <2>2
    <2>4. CASE U = {}
      BY <2>2, <2>4
    <2>5. CASE U # {}
      <3>1. PICK x \in U, z \in U : (\A y \in U : x >= y) /\ (\A y \in U : z <= y)
        BY <2>3, <2>5
      <3>2. \E m \in T : \A y \in T : m >= y
        <4>1. CASE a >= x
          BY <2>2, <3>1, <4>1
        <4>2. CASE ~(a >= x)
          BY <2>2, <3>1, <4>2
        <4>3. QED
          BY <4>1, <4>2
      <3>3. \E m \in T : \A y \in T : m <= y
        <4>1. CASE a <= z
          BY <2>2, <3>1, <4>1
        <4>2. CASE ~(a <= z)
          BY <2>2, <3>1, <4>2
        <4>3. QED
          BY <4>1, <4>2
      <3>4. QED
        BY <3>2, <3>3
    <2>6. QED
      BY <2>4, <2>5
  <1>2. \A T \in SUBSET S : T \in C
    <2> HIDE DEF C
    <2>1. QED
      BY <1>1, InduccionTamano
  <1>3. QED
    BY <1>2

\* The extremes as the community modules define them.
LEMMA MaxDef ==
    ASSUME NEW S \in SUBSET Int, IsFiniteSet(S), S # {}
    PROVE  Max(S) \in S /\ \A y \in S : Max(S) >= y
  <1> DEFINE P(x) == x \in S /\ \A y \in S : x >= y
  <1>1. \E x : P(x)
    BY Extremos
  <1>2. Max(S) = CHOOSE x : P(x)
    BY DEF Max
  <1> HIDE DEF P
  <1>3. P(Max(S))
    BY <1>1, <1>2, Zenon
  <1>4. QED
    BY <1>3 DEF P

LEMMA MinDef ==
    ASSUME NEW S \in SUBSET Int, IsFiniteSet(S), S # {}
    PROVE  Min(S) \in S /\ \A y \in S : Min(S) <= y
  <1> DEFINE P(x) == x \in S /\ \A y \in S : x <= y
  <1>1. \E x : P(x)
    BY Extremos
  <1>2. Min(S) = CHOOSE x : P(x)
    BY DEF Min
  <1> HIDE DEF P
  <1>3. P(Min(S))
    BY <1>1, <1>2, Zenon
  <1>4. QED
    BY <1>3 DEF P

\* Of two integers.
LEMMA MaxDos ==
    ASSUME NEW a \in Int, NEW b \in Int
    PROVE  /\ Max({a, b}) = IF a >= b THEN a ELSE b
           /\ Min({a, b}) = IF a <= b THEN a ELSE b
  <1> DEFINE S == {a, b}
  <1>1. S \in SUBSET Int /\ S # {} /\ a \in S /\ b \in S /\ \A x \in S : x = a \/ x = b
    OBVIOUS
  <1>2. IsFiniteSet(S)
    <2>1. IsFiniteSet({a} \cup {b})
      BY FS_Singleton, FS_AddElement
    <2>2. {a} \cup {b} = S
      OBVIOUS
    <2>3. QED
      BY <2>1, <2>2
  <1> HIDE DEF S
  <1>3. /\ Max(S) \in S /\ \A y \in S : Max(S) >= y
        /\ Min(S) \in S /\ \A y \in S : Min(S) <= y
    BY <1>1, <1>2, MaxDef, MinDef
  <1> DEFINE m == Max(S)
             n == Min(S)
  <1>4. /\ (m = a \/ m = b) /\ m >= a /\ m >= b
        /\ (n = a \/ n = b) /\ n <= a /\ n <= b
    BY <1>1, <1>3
  <1> HIDE DEF m, n
  <1>5. m = (IF a >= b THEN a ELSE b) /\ n = (IF a <= b THEN a ELSE b)
    BY <1>4
  <1>6. QED
    BY <1>5 DEF m, n, S

\* The values of a function on a finite set are finitely many.
LEMMA ImagenFinita ==
    ASSUME NEW S, IsFiniteSet(S), NEW R, NEW f \in [S -> R]
    PROVE  IsFiniteSet({f[x] : x \in S})
  <1> DEFINE T == {f[x] : x \in S}
  <1>1. f \in Surjection(S, T)
    BY DEF Surjection
  <1> HIDE DEF T
  <1>2. IsFiniteSet(T)
    BY <1>1, FS_Surjection
  <1>3. QED
    BY <1>2 DEF T

\* The k-th of a finite set, counted from the greatest value: k elements have
\* at least that value, and fewer than k have more.
LEMMA Umbral ==
    ASSUME NEW S, IsFiniteSet(S), NEW f \in [S -> Int], NEW k \in Nat \ {0},
           Cardinality(S) >= k
    PROVE  \E t \in {f[x] : x \in S} :
              /\ Cardinality({x \in S : f[x] >= t}) >= k
              /\ Cardinality({x \in S : f[x] > t}) < k
  <1> DEFINE T == {f[x] : x \in S}
             Desde(t) == {x \in S : f[x] >= t}
             Tras(t) == {x \in S : f[x] > t}
             M == {t \in T : Cardinality(Desde(t)) >= k}
  <1>1. T \in SUBSET Int /\ \A x \in S : f[x] \in T
    OBVIOUS
  <1>2. IsFiniteSet(T)
    BY ImagenFinita
  <1>3. S # {}
    BY FS_EmptySet
  <1>4. \A t : Desde(t) \in SUBSET S /\ Tras(t) \in SUBSET S
    OBVIOUS
  <1>5. \A t : Cardinality(Desde(t)) \in Nat /\ Cardinality(Tras(t)) \in Nat
    <2> HIDE DEF Desde, Tras
    <2>1. QED
      BY <1>4, FS_Subset, FS_CardinalityType
  <1>6. M # {}
    <2>1. PICK t \in T : \A y \in T : t <= y
      BY <1>1, <1>2, <1>3, Extremos
    <2>2. Desde(t) = S
      BY <1>1, <2>1
    <2> HIDE DEF Desde
    <2>3. QED
      BY <2>1, <2>2
  <1>7. PICK t \in M : \A y \in M : t >= y
    <2>1. M \in SUBSET T /\ M \in SUBSET Int
      BY <1>1
    <2> HIDE DEF M
    <2>2. IsFiniteSet(M)
      BY <1>2, <2>1, FS_Subset
    <2>3. QED
      BY <1>6, <2>1, <2>2, Extremos
  <1>8. Cardinality(Tras(t)) < k
    <2>0. Cardinality(Tras(t)) \in Nat
      BY <1>5
    <2> HIDE DEF Tras
    <2> SUFFICES ASSUME Cardinality(Tras(t)) >= k PROVE FALSE
      BY <2>0
    <2> USE DEF Tras
    <2> DEFINE U == {y \in T : y > t}
    <2>1. Tras(t) # {}
      BY <1>5, FS_EmptySet
    <2>2. U \in SUBSET T /\ U \in SUBSET Int /\ U # {}
      BY <1>1, <2>1
    <2>3. PICK u \in U : \A y \in U : u <= y
      <3> HIDE DEF U
      <3>1. IsFiniteSet(U)
        BY <1>2, <2>2, FS_Subset
      <3>2. QED
        BY <2>2, <3>1, Extremos
    <2>4. u \in T /\ u \in Int /\ t \in Int /\ u > t
      BY <1>1, <1>7, <2>3
    <2>5. Desde(u) = Tras(t)
      <3>1. ASSUME NEW x \in S PROVE f[x] >= u <=> f[x] > t
        <4>1. f[x] \in T /\ f[x] \in Int
          BY <1>1
        <4>2. f[x] > t => f[x] >= u
          BY <2>3, <4>1
        <4>3. QED
          BY <2>4, <4>1, <4>2
      <3>2. QED
        BY <3>1
    <2> HIDE DEF Desde, Tras, U
    <2>6. u \in M
      BY <2>4, <2>5
    <2>7. QED
      BY <1>7, <2>4, <2>6
  <1>9. QED
    BY <1>7, <1>8

-------------------------------------------------------------------------------
\* The sum of a column of a table, as the models write it.
SumaMontos(S) == MapThenSumSet(LAMBDA x : x.monto, S)

LEMMA MontosTotal == ASSUME NEW S PROVE SumaMontos(S) = Total([x \in S |-> x.monto], S)
  BY DEF SumaMontos, MapThenSumSet, MapThenFoldSet, Total, Acumula, Elige

LEMMA MontosTipo ==
    ASSUME NEW S, IsFiniteSet(S), \A x \in S : x.monto \in Int
    PROVE  SumaMontos(S) \in Int
  <1> DEFINE f == [x \in S |-> x.monto]
  <1>1. \A x \in S : f[x] \in Int
    OBVIOUS
  <1>2. SumaMontos(S) = Total(f, S)
    BY MontosTotal
  <1> HIDE DEF f
  <1>3. QED
    BY <1>1, <1>2, TotalTipo

LEMMA MontosVacio == SumaMontos({}) = 0
  BY MontosTotal, TotalVacio

\* A row more adds its amount.
LEMMA MontosAgrega ==
    ASSUME NEW S, IsFiniteSet(S), \A x \in S : x.monto \in Int,
           NEW a, a \notin S, a.monto \in Int
    PROVE  SumaMontos(S \cup {a}) = a.monto + SumaMontos(S)
  <1> DEFINE T == S \cup {a}
             f == [x \in T |-> x.monto]
             g == [x \in S |-> x.monto]
  <1>1. /\ f[a] = a.monto
        /\ \A x \in S : f[x] \in Int /\ g[x] = f[x]
    OBVIOUS
  <1>2. SumaMontos(T) = Total(f, T)
    BY MontosTotal
  <1>3. SumaMontos(S) = Total(g, S)
    BY MontosTotal
  <1> HIDE DEF f, g
  <1>4. Total(f, T) = f[a] + Total(f, S)
    BY <1>1, TotalAgrega
  <1>5. Total(f, S) = Total(g, S)
    BY <1>1, TotalIgual
  <1>6. QED
    BY <1>1, <1>2, <1>3, <1>4, <1>5
===============================================================================
