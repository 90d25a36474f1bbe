----------------------------- MODULE FiniteSums -----------------------------
(***************************************************************************)
(* Sums over finite sets, for the proofs about counters that a component   *)
(* keeps beside the things it counts and about numbers that add up.  The   *)
(* models sum with MapThenSumSet, which takes one element after the other: *)
(* Partial is that recursion for a weight of each element.  And the orders *)
(* of finite sets, for the proofs about what is sorted and filtered.       *)
(***************************************************************************)
EXTENDS Integers, FiniteSets, Lists, FiniteSetTheorems, SequenceTheorems, WellFoundedInduction, TLAPS

(* The element taken first, and what remains.                               *)
OneOf(s) == CHOOSE x \in s : TRUE

Remaining(s) == s \ {OneOf(s)}

(* f sums the weights w of the sets in T, taking the first one after the other. *)
Partial(f, w, T) ==
    f = [s \in T |-> IF s = {} THEN 0 ELSE w[OneOf(s)] + f[Remaining(s)]]

(* The sum of the weights w of a set.                                       *)
Sum(w, S) == CHOOSE n : \E f : Partial(f, w, SUBSET S) /\ n = f[S]

(* The parts of S of at most n elements.                                    *)
Parts(S, n) == {s \in SUBSET S : Cardinality(s) <= n}

(* Among numbers one is the least.                                          *)
LEMMA LeastOf ==
    ASSUME NEW T \in SUBSET Nat, T # {}
    PROVE  \E m \in T : \A k \in T : m <= k
<1>1. \E m \in T : \A k \in T : ~(<<k, m>> \in OpToRel(<, Nat))
  BY WFMin, NatLessThanWellFounded
<1>2. PICK m \in T : \A k \in T : ~(<<k, m>> \in OpToRel(<, Nat))
  BY <1>1
<1>3. \A k \in T : ~(k < m)
  BY <1>2 DEF OpToRel
<1> QED
  BY <1>3

(* A part without one of its elements is smaller.                           *)
LEMMA FewerElements ==
    ASSUME NEW S, IsFiniteSet(S), NEW s \in SUBSET S, NEW x \in s
    PROVE  /\ IsFiniteSet(s) /\ IsFiniteSet(s \ {x}) /\ s \ {x} \in SUBSET S
           /\ Cardinality(s) \in Nat /\ Cardinality(s \ {x}) \in Nat
           /\ Cardinality(s) = Cardinality(s \ {x}) + 1
<1>1. IsFiniteSet(s)
  BY FS_Subset
<1>2. IsFiniteSet(s \ {x}) /\ Cardinality(s \ {x}) = Cardinality(s) - 1
  BY <1>1, FS_RemoveElement
<1>3. Cardinality(s) \in Nat /\ Cardinality(s \ {x}) \in Nat
  BY <1>1, <1>2, FS_CardinalityType
<1> QED
  BY <1>1, <1>2, <1>3

(* So is one without its first.                                             *)
LEMMA RemainingAreFewer ==
    ASSUME NEW S, IsFiniteSet(S), NEW s \in SUBSET S, s # {}
    PROVE  /\ OneOf(s) \in s /\ Remaining(s) \in SUBSET S /\ Cardinality(Remaining(s)) \in Nat
           /\ Cardinality(s) = Cardinality(Remaining(s)) + 1
<1>1. OneOf(s) \in s
  BY DEF OneOf
<1>2. \A x \in s : /\ s \ {x} \in SUBSET S /\ Cardinality(s \ {x}) \in Nat
                   /\ Cardinality(s) = Cardinality(s \ {x}) + 1
  BY FewerElements
<1> QED
  BY <1>1, <1>2 DEF Remaining

(* The first of a set is one of it.                                         *)
LEMMA OneIsIn ==
    ASSUME NEW s, s # {}
    PROVE  OneOf(s) \in s
BY DEF OneOf

(* The recursion has a solution.                                            *)
LEMMA PartialExists ==
    ASSUME NEW S, IsFiniteSet(S), NEW w \in [S -> Int]
    PROVE  \E f \in [SUBSET S -> Int] : Partial(f, w, SUBSET S)
<1> DEFINE Missing == {n \in Nat : ~\E f \in [Parts(S, n) -> Int] : Partial(f, w, Parts(S, n))}
<1>1. Missing = {}
  <2> SUFFICES ASSUME Missing # {} PROVE FALSE
    OBVIOUS
  <2>1. Missing \in SUBSET Nat
    OBVIOUS
  <2>2. PICK n \in Missing : \A k \in Missing : n <= k
    BY <2>1, LeastOf
  <2>3. n \in Nat /\ ~\E f \in [Parts(S, n) -> Int] : Partial(f, w, Parts(S, n))
    OBVIOUS
  <2>4. ASSUME NEW s \in Parts(S, n), s # {}
        PROVE  /\ n > 0 /\ Remaining(s) \in Parts(S, n - 1) /\ w[OneOf(s)] \in Int
               /\ s \in SUBSET S
    <3>1. OneOf(s) \in s /\ s \in SUBSET S /\ Cardinality(s) <= n
      BY <2>4, OneIsIn DEF Parts
    <3>2. Cardinality(s) = Cardinality(Remaining(s)) + 1 /\ Remaining(s) \in SUBSET S
          /\ Cardinality(Remaining(s)) \in Nat
      BY <2>4, <3>1, RemainingAreFewer
    <3>3. n > 0 /\ Cardinality(Remaining(s)) <= n - 1
      BY <2>3, <3>1, <3>2
    <3> QED
      BY <3>1, <3>2, <3>3 DEF Parts
  <2>5. CASE n = 0
    <3> DEFINE f == [s \in Parts(S, n) |-> 0]
    <3>1. \A s \in Parts(S, n) : s = {}
      BY <2>4, <2>5
    <3>2. f \in [Parts(S, n) -> Int] /\ Partial(f, w, Parts(S, n))
      BY <3>1 DEF Partial
    <3> QED
      BY <2>3, <3>2
  <2>6. CASE n # 0
    <3>1. n - 1 \in Nat /\ ~(n <= n - 1)
      BY <2>3, <2>6
    <3>2. PICK g \in [Parts(S, n - 1) -> Int] : Partial(g, w, Parts(S, n - 1))
      BY <2>2, <3>1
    <3> DEFINE f == [s \in Parts(S, n) |-> IF s = {} THEN 0 ELSE w[OneOf(s)] + g[Remaining(s)]]
    <3>3. g \in [Parts(S, n - 1) -> Int]
      BY <3>2
    <3>4. f \in [Parts(S, n) -> Int]
      BY <2>4, <3>3
    <3>5. ASSUME NEW s \in Parts(S, n - 1)
          PROVE  s \in Parts(S, n) /\ f[s] = g[s]
      <4>1. s \in Parts(S, n)
        <5>1. s \in SUBSET S /\ Cardinality(s) <= n - 1 /\ Cardinality(s) \in Nat
          BY FS_Subset, FS_CardinalityType DEF Parts
        <5> QED
          BY <5>1, <2>3 DEF Parts
      <4>2. g[s] = IF s = {} THEN 0 ELSE w[OneOf(s)] + g[Remaining(s)]
        BY <3>2 DEF Partial
      <4> QED
        BY <4>1, <4>2
    <3>6. \A s \in Parts(S, n) : f[s] = IF s = {} THEN 0 ELSE w[OneOf(s)] + f[Remaining(s)]
      BY <2>4, <3>5
    <3>7. Partial(f, w, Parts(S, n))
      BY <3>6 DEF Partial
    <3> QED
      BY <2>3, <3>4, <3>7
  <2> QED
    BY <2>5, <2>6
<1>2. Cardinality(S) \in Nat
  BY FS_CardinalityType
<1>3. SUBSET S = Parts(S, Cardinality(S))
  BY FS_Subset DEF Parts
<1>4. \E f \in [Parts(S, Cardinality(S)) -> Int] : Partial(f, w, Parts(S, Cardinality(S)))
  BY <1>1, <1>2
<1> QED
  BY <1>3, <1>4

(* Its solutions agree where both are defined.                              *)
LEMMA PartialsAgree ==
    ASSUME NEW S, IsFiniteSet(S), NEW R, IsFiniteSet(R), NEW v, NEW w, NEW f, NEW g,
           Partial(f, v, SUBSET S), Partial(g, w, SUBSET R),
           NEW U \in SUBSET S, U \in SUBSET R, \A x \in U : v[x] = w[x]
    PROVE  f[U] = g[U]
<1> DEFINE Differ == {n \in Nat : \E s \in SUBSET U : Cardinality(s) = n /\ f[s] # g[s]}
<1>1. IsFiniteSet(U) /\ \A s \in SUBSET U : s \in SUBSET S /\ s \in SUBSET R
  BY FS_Subset
<1>2. Differ = {}
  <2> SUFFICES ASSUME Differ # {} PROVE FALSE
    OBVIOUS
  <2>1. Differ \in SUBSET Nat
    OBVIOUS
  <2>2. PICK n \in Differ : \A k \in Differ : n <= k
    BY <2>1, LeastOf
  <2>3. PICK s \in SUBSET U : Cardinality(s) = n /\ f[s] # g[s]
    OBVIOUS
  <2>4. /\ f[s] = IF s = {} THEN 0 ELSE v[OneOf(s)] + f[Remaining(s)]
        /\ g[s] = IF s = {} THEN 0 ELSE w[OneOf(s)] + g[Remaining(s)]
    BY <1>1 DEF Partial
  <2>5. s # {} /\ OneOf(s) \in s /\ f[Remaining(s)] # g[Remaining(s)]
    BY <2>3, <2>4, OneIsIn
  <2>6. /\ Remaining(s) \in SUBSET U /\ Cardinality(Remaining(s)) \in Nat
        /\ Cardinality(s) = Cardinality(Remaining(s)) + 1
    BY <1>1, <2>5, RemainingAreFewer
  <2>7. Cardinality(Remaining(s)) \in Differ
    BY <2>5, <2>6
  <2>8. n <= Cardinality(Remaining(s)) /\ n = Cardinality(Remaining(s)) + 1
    BY <2>2, <2>3, <2>6, <2>7
  <2> QED
    BY <2>6, <2>8
<1>3. Cardinality(U) \in Nat /\ U \in SUBSET U
  BY <1>1, FS_CardinalityType
<1> QED
  BY <1>2, <1>3

(* They are sums of integers.                                               *)
LEMMA PartialType ==
    ASSUME NEW S, IsFiniteSet(S), NEW w \in [S -> Int], NEW f, Partial(f, w, SUBSET S)
    PROVE  f \in [SUBSET S -> Int]
<1>1. PICK g \in [SUBSET S -> Int] : Partial(g, w, SUBSET S)
  BY PartialExists
<1>2. \A U \in SUBSET S : f[U] = g[U]
  BY <1>1, PartialsAgree
<1>3. DOMAIN f = SUBSET S /\ f = [U \in SUBSET S |-> f[U]]
  BY DEF Partial
<1> QED
  BY <1>2, <1>3

(* The sum is what any solution says.                                       *)
LEMMA SumIs ==
    ASSUME NEW S, IsFiniteSet(S), NEW w \in [S -> Int], NEW f, Partial(f, w, SUBSET S)
    PROVE  Sum(w, S) = f[S] /\ f[S] \in Int
<1>1. f[S] \in Int
  <2>1. f \in [SUBSET S -> Int]
    BY PartialType
  <2> QED
    BY <2>1
<1>2. ASSUME NEW g, Partial(g, w, SUBSET S)
      PROVE  g[S] = f[S]
  <2>1. S \in SUBSET S /\ \A x \in S : w[x] = w[x]
    OBVIOUS
  <2> QED
    BY <1>2, <2>1, PartialsAgree
<1>3. \A n : (\E g : Partial(g, w, SUBSET S) /\ n = g[S]) <=> n = f[S]
  BY <1>2
<1> QED
  BY <1>1, <1>3 DEF Sum

(* The sum of nothing.                                                      *)
LEMMA SumOfNone ==
    ASSUME NEW w \in [{} -> Int]
    PROVE  Sum(w, {}) = 0
<1>1. IsFiniteSet({})
  BY FS_EmptySet
<1>2. PICK f : Partial(f, w, SUBSET {})
  BY <1>1, PartialExists
<1>3. f[{}] = 0
  BY <1>2 DEF Partial
<1> QED
  BY <1>1, <1>2, <1>3, SumIs

(* Any element can be the first.                                            *)
LEMMA AnyOneFirst ==
    ASSUME NEW S, IsFiniteSet(S), NEW w \in [S -> Int], NEW f, Partial(f, w, SUBSET S),
           NEW x \in S
    PROVE  f[S] = w[x] + f[S \ {x}]
<1>0. \A s \in SUBSET S : \A z \in s :
         /\ s \ {z} \in SUBSET S /\ Cardinality(s \ {z}) \in Nat
         /\ Cardinality(s) = Cardinality(s \ {z}) + 1
  BY FewerElements
<1> DEFINE Bad == {n \in Nat : \E s \in SUBSET S : /\ Cardinality(s) = n
                                                  /\ \E y \in s : f[s] # w[y] + f[s \ {y}]}
<1>1. Bad = {}
  <2> SUFFICES ASSUME Bad # {} PROVE FALSE
    OBVIOUS
  <2>1. Bad \in SUBSET Nat
    OBVIOUS
  <2>2. PICK n \in Bad : \A k \in Bad : n <= k
    BY <2>1, LeastOf
  <2>3. PICK s \in SUBSET S : Cardinality(s) = n /\ \E y \in s : f[s] # w[y] + f[s \ {y}]
    OBVIOUS
  <2>4. PICK y \in s : f[s] # w[y] + f[s \ {y}]
    BY <2>3
  <2> DEFINE c == OneOf(s)
  <2>5. c \in s
    BY OneIsIn
  <2> HIDE DEF c
  <2>6. f[s] = w[c] + f[s \ {c}]
    BY <2>5 DEF Partial, Remaining, c
  <2>7. c # y
    BY <2>4, <2>6
  <2>8. ASSUME NEW z \in s, NEW u \in s, u # z
        PROVE  f[s \ {z}] = w[u] + f[(s \ {z}) \ {u}]
    <3>1. /\ s \ {z} \in SUBSET S /\ Cardinality(s \ {z}) \in Nat
          /\ n = Cardinality(s \ {z}) + 1
      BY <1>0, <2>3
    <3>2. Cardinality(s \ {z}) \notin Bad
      <4>1. \A m \in Nat : n = m + 1 => ~(n <= m)
        OBVIOUS
      <4>2. ~(n <= Cardinality(s \ {z}))
        BY <3>1, <4>1
      <4> HIDE DEF Bad
      <4> QED
        BY <2>2, <4>2
    <3>3. \A y1 \in s \ {z} : f[s \ {z}] = w[y1] + f[(s \ {z}) \ {y1}]
      BY <3>1, <3>2
    <3> QED
      BY <2>8, <3>3
  <2>9. (s \ {c}) \ {y} = (s \ {y}) \ {c}
    OBVIOUS
  <2>10. /\ f[s \ {c}] = w[y] + f[(s \ {c}) \ {y}]
         /\ f[s \ {y}] = w[c] + f[(s \ {c}) \ {y}]
    BY <2>5, <2>7, <2>8, <2>9
  <2>11. w[c] \in Int /\ w[y] \in Int /\ f[(s \ {c}) \ {y}] \in Int
    BY <2>5, PartialType
  <2>12. \A a, b, d \in Int : a + (b + d) = b + (a + d)
    OBVIOUS
  <2> QED
    BY <2>4, <2>6, <2>10, <2>11, <2>12
<1>2. Cardinality(S) \in Nat /\ S \in SUBSET S
  BY FS_CardinalityType
<1> QED
  BY <1>1, <1>2

(* The sum of all but one.                                                  *)
LEMMA SumWithout ==
    ASSUME NEW S, IsFiniteSet(S), NEW w \in [S -> Int], NEW x \in S,
           NEW v \in [S \ {x} -> Int], \A y \in S \ {x} : v[y] = w[y]
    PROVE  Sum(w, S) = w[x] + Sum(v, S \ {x})
<1>1. IsFiniteSet(S \ {x}) /\ S \ {x} \in SUBSET S
  BY FS_RemoveElement
<1>2. PICK f : Partial(f, w, SUBSET S)
  BY PartialExists
<1>3. PICK g : Partial(g, v, SUBSET (S \ {x}))
  BY <1>1, PartialExists
<1>4. Sum(w, S) = f[S] /\ f[S] = w[x] + f[S \ {x}]
  BY <1>2, SumIs, AnyOneFirst
<1>5. Sum(v, S \ {x}) = g[S \ {x}]
  BY <1>1, <1>3, SumIs
<1>6. f[S \ {x}] = g[S \ {x}]
  <2> DEFINE U == S \ {x}
  <2>1. IsFiniteSet(U) /\ U \in SUBSET S /\ U \in SUBSET U /\ \A y \in U : w[y] = v[y]
    BY <1>1
  <2>2. Partial(f, w, SUBSET S) /\ Partial(g, v, SUBSET U)
    BY <1>2, <1>3
  <2> HIDE DEF U
  <2>3. f[U] = g[U]
    BY <2>1, <2>2, PartialsAgree
  <2> QED
    BY <2>3 DEF U
<1> QED
  BY <1>4, <1>5, <1>6

(* A sum is an integer, and a number where the weights are.                 *)
LEMMA SumType ==
    ASSUME NEW S, IsFiniteSet(S), NEW w \in [S -> Int]
    PROVE  Sum(w, S) \in Int
<1>1. PICK f : Partial(f, w, SUBSET S)
  BY PartialExists
<1> QED
  BY <1>1, SumIs

(* Equal weights, equal sums.                                               *)
LEMMA SameSum ==
    ASSUME NEW S, IsFiniteSet(S), NEW v \in [S -> Int], NEW w \in [S -> Int],
           \A x \in S : v[x] = w[x]
    PROVE  Sum(v, S) = Sum(w, S)
<1>1. v = w
  OBVIOUS
<1> QED
  BY <1>1

(* The sum with one more.                                                   *)
LEMMA SumWith ==
    ASSUME NEW S, IsFiniteSet(S), NEW x, x \notin S,
           NEW w \in [S \union {x} -> Int], NEW v \in [S -> Int],
           \A y \in S : v[y] = w[y]
    PROVE  Sum(w, S \union {x}) = w[x] + Sum(v, S)
<1> DEFINE T == S \union {x}
<1>1. IsFiniteSet(T) /\ x \in T /\ T \ {x} = S
  BY FS_AddElement
<1> HIDE DEF T
<1>2. w \in [T -> Int] /\ v \in [T \ {x} -> Int] /\ \A y \in T \ {x} : v[y] = w[y]
  BY <1>1 DEF T
<1>3. Sum(w, T) = w[x] + Sum(v, T \ {x})
  BY <1>1, <1>2, SumWithout
<1> QED
  BY <1>1, <1>3 DEF T

(* A sum of numbers is a number.                                            *)
LEMMA SumIsNat ==
    ASSUME NEW S, IsFiniteSet(S), NEW w \in [S -> Nat]
    PROVE  Sum(w, S) \in Nat
<1> DEFINE Neg == {n \in Nat : \E s \in SUBSET S :
                       Cardinality(s) = n /\ Sum([x \in s |-> w[x]], s) \notin Nat}
<1>1. Neg = {}
  <2> SUFFICES ASSUME Neg # {} PROVE FALSE
    OBVIOUS
  <2>1. Neg \in SUBSET Nat
    OBVIOUS
  <2>2. PICK n \in Neg : \A k \in Neg : n <= k
    BY <2>1, LeastOf
  <2>3. PICK s \in SUBSET S : Cardinality(s) = n /\ Sum([x \in s |-> w[x]], s) \notin Nat
    OBVIOUS
  <2>4. s # {}
    <3> DEFINE u == [x \in s |-> w[x]]
    <3> SUFFICES ASSUME s = {} PROVE FALSE
      OBVIOUS
    <3>1. u \in [{} -> Int] /\ Sum(u, s) \notin Nat
      BY <2>3
    <3> HIDE DEF u
    <3>2. Sum(u, {}) = 0
      BY <3>1, SumOfNone
    <3> QED
      BY <3>1, <3>2
  <2>5. PICK y \in s : TRUE
    BY <2>4
  <2> DEFINE u == [x \in s |-> w[x]]
             r == s \ {y}
             v == [x \in r |-> w[x]]
  <2>6. /\ IsFiniteSet(s) /\ IsFiniteSet(r) /\ r \in SUBSET S
        /\ Cardinality(r) \in Nat /\ n = Cardinality(r) + 1
    BY <2>3, FewerElements
  <2>7. u \in [s -> Int] /\ v \in [r -> Int] /\ \A x \in r : v[x] = u[x]
    OBVIOUS
  <2>8. u[y] = w[y] /\ w[y] \in Nat
    OBVIOUS
  <2> HIDE DEF u, v
  <2>9. Sum(u, s) = u[y] + Sum(v, r)
    BY <2>6, <2>7, SumWithout
  <2>10. Sum(v, r) \in Nat
    <3>1. \A m \in Nat : n = m + 1 => ~(n <= m)
      OBVIOUS
    <3>2. Cardinality(r) \notin Neg
      <4> HIDE DEF Neg, r
      <4> QED
        BY <2>2, <2>6, <3>1
    <3> HIDE DEF r
    <3> QED
      BY <2>6, <3>2 DEF v
  <2>11. \A a, b \in Nat : a + b \in Nat
    OBVIOUS
  <2>12. Sum(u, s) \in Nat
    BY <2>8, <2>9, <2>10, <2>11
  <2> QED
    BY <2>3, <2>12 DEF u
<1>2. Cardinality(S) \in Nat /\ S \in SUBSET S /\ w = [x \in S |-> w[x]]
  BY FS_CardinalityType
<1> QED
  BY <1>1, <1>2

(* The weights of a part.                                                   *)
Of(w, T) == [x \in T |-> w[x]]

(* The sum of a part without one of its elements.                           *)
LEMMA SumOfWithout ==
    ASSUME NEW S, IsFiniteSet(S), NEW w \in [S -> Int], NEW T \in SUBSET S, NEW x \in T
    PROVE  /\ Sum(Of(w, T), T) = w[x] + Sum(Of(w, T \ {x}), T \ {x})
           /\ Sum(Of(w, T \ {x}), T \ {x}) \in Int
<1> DEFINE R == T \ {x}
<1>1. IsFiniteSet(T) /\ IsFiniteSet(R) /\ R \in SUBSET S
  BY FewerElements
<1>2. /\ Of(w, T) \in [T -> Int] /\ Of(w, R) \in [R -> Int] /\ Of(w, T)[x] = w[x]
      /\ \A y \in R : Of(w, R)[y] = Of(w, T)[y]
  BY DEF Of
<1>3. Sum(Of(w, T), T) = Of(w, T)[x] + Sum(Of(w, R), R)
  <2> DEFINE u == Of(w, T)
             v == Of(w, R)
  <2>1. u \in [T -> Int] /\ v \in [T \ {x} -> Int] /\ \A y \in T \ {x} : v[y] = u[y]
    BY <1>2
  <2> HIDE DEF u, v
  <2>2. Sum(u, T) = u[x] + Sum(v, T \ {x})
    BY <1>1, <2>1, SumWithout
  <2> QED
    BY <2>2 DEF u, v
<1>4. Sum(Of(w, R), R) \in Int
  BY <1>1, <1>2, SumType
<1> QED
  BY <1>2, <1>3, <1>4

(* The sum of the whole is that of its two parts.                           *)
LEMMA SumSplit ==
    ASSUME NEW S, IsFiniteSet(S), NEW w \in [S -> Int], NEW T \in SUBSET S
    PROVE  Sum(w, S) = Sum(Of(w, T), T) + Sum(Of(w, S \ T), S \ T)
<1> DEFINE Splits(t) == Sum(w, S) = Sum(Of(w, t), t) + Sum(Of(w, S \ t), S \ t)
           Bad == {n \in Nat : \E t \in SUBSET S : Cardinality(t) = n /\ ~Splits(t)}
<1>1. Bad = {}
  <2> SUFFICES ASSUME Bad # {} PROVE FALSE
    OBVIOUS
  <2>1. Bad \in SUBSET Nat
    OBVIOUS
  <2>2. PICK n \in Bad : \A k \in Bad : n <= k
    BY <2>1, LeastOf
  <2>3. PICK t \in SUBSET S : Cardinality(t) = n /\ ~Splits(t)
    OBVIOUS
  <2>4. t # {}
    <3> SUFFICES ASSUME t = {} PROVE FALSE
      OBVIOUS
    <3>1. Of(w, {}) \in [{} -> Int] /\ S \ {} = S /\ Of(w, S) = w
      BY DEF Of
    <3>2. Sum(Of(w, {}), {}) = 0 /\ Sum(w, S) \in Int
      BY <3>1, SumOfNone, SumType
    <3> QED
      BY <2>3, <3>1, <3>2
  <2>5. PICK y \in t : TRUE
    BY <2>4
  <2> DEFINE r == t \ {y}
  <2>6. r \in SUBSET S /\ Cardinality(r) \in Nat /\ n = Cardinality(r) + 1
    BY <2>3, FewerElements
  <2>7. \A m \in Nat : n = m + 1 => ~(n <= m)
    OBVIOUS
  <2>8. Splits(r)
    <3>1. Cardinality(r) \notin Bad
      <4> HIDE DEF Bad, r
      <4> QED
        BY <2>2, <2>6, <2>7
    <3> HIDE DEF r, Splits
    <3> QED
      BY <2>6, <3>1
  <2>9. /\ S \ r \in SUBSET S /\ y \in S \ r /\ (S \ r) \ {y} = S \ t
    OBVIOUS
  <2>10. /\ Sum(Of(w, t), t) = w[y] + Sum(Of(w, r), r) /\ Sum(Of(w, r), r) \in Int
    BY SumOfWithout
  <2>11. /\ Sum(Of(w, S \ r), S \ r) = w[y] + Sum(Of(w, S \ t), S \ t)
         /\ Sum(Of(w, S \ t), S \ t) \in Int
    <3> HIDE DEF r
    <3> QED
      BY <2>9, SumOfWithout
  <2>12. \A a, b, c \in Int : b + (a + c) = (a + b) + c
    OBVIOUS
  <2>13. w[y] \in Int
    OBVIOUS
  <2> HIDE DEF r
  <2> QED
    BY <2>3, <2>8, <2>10, <2>11, <2>12, <2>13
<1> DEFINE n == Cardinality(T)
<1>2. n \in Nat
  BY FS_Subset, FS_CardinalityType
<1> HIDE DEF Splits
<1>3. Splits(T)
  BY <1>1, <1>2
<1> QED
  BY <1>3 DEF Splits

(* A part sums to no more than the whole.                                   *)
LEMMA SumOfPart ==
    ASSUME NEW S, IsFiniteSet(S), NEW w \in [S -> Nat], NEW T \in SUBSET S
    PROVE  /\ Sum(Of(w, T), T) \in Nat /\ Sum(w, S) \in Nat
           /\ Sum(Of(w, T), T) <= Sum(w, S)
<1>1. IsFiniteSet(T) /\ IsFiniteSet(S \ T)
  BY FS_Subset
<1>2. Of(w, T) \in [T -> Nat] /\ Of(w, S \ T) \in [S \ T -> Nat]
  BY DEF Of
<1>3. /\ Sum(Of(w, T), T) \in Nat /\ Sum(Of(w, S \ T), S \ T) \in Nat
      /\ Sum(w, S) = Sum(Of(w, T), T) + Sum(Of(w, S \ T), S \ T)
  <2>1. Sum(Of(w, T), T) \in Nat
    BY <1>1, <1>2, SumIsNat
  <2>2. Sum(Of(w, S \ T), S \ T) \in Nat
    BY <1>1, <1>2, SumIsNat
  <2>3. w \in [S -> Int]
    OBVIOUS
  <2> QED
    BY <2>1, <2>2, <2>3, SumSplit
<1>4. \A a, b \in Nat : a + b \in Nat /\ a <= a + b
  OBVIOUS
<1> QED
  BY <1>3, <1>4

(* Nothing sums to nothing.                                                 *)
LEMMA SumOfZeros ==
    ASSUME NEW S, IsFiniteSet(S), NEW w \in [S -> Int], \A x \in S : w[x] = 0
    PROVE  Sum(w, S) = 0
<1> DEFINE Bad == {n \in Nat : \E t \in SUBSET S : Cardinality(t) = n /\ Sum(Of(w, t), t) # 0}
<1>1. Bad = {}
  <2> SUFFICES ASSUME Bad # {} PROVE FALSE
    OBVIOUS
  <2>1. Bad \in SUBSET Nat
    OBVIOUS
  <2>2. PICK n \in Bad : \A k \in Bad : n <= k
    BY <2>1, LeastOf
  <2>3. PICK t \in SUBSET S : Cardinality(t) = n /\ Sum(Of(w, t), t) # 0
    OBVIOUS
  <2>4. t # {}
    <3> SUFFICES ASSUME t = {} PROVE FALSE
      OBVIOUS
    <3>1. Of(w, {}) \in [{} -> Int]
      BY DEF Of
    <3> QED
      BY <2>3, <3>1, SumOfNone
  <2>5. PICK y \in t : TRUE
    BY <2>4
  <2> DEFINE r == t \ {y}
  <2>6. r \in SUBSET S /\ Cardinality(r) \in Nat /\ n = Cardinality(r) + 1
    <3>1. /\ Cardinality(t) \in Nat /\ Cardinality(t \ {y}) \in Nat /\ t \ {y} \in SUBSET S
          /\ Cardinality(t) = Cardinality(t \ {y}) + 1
      <4> HIDE DEF Bad
      <4> QED
        BY FewerElements
    <3> QED
      BY <2>3, <3>1
  <2>7. \A m \in Nat : n = m + 1 => ~(n <= m)
    OBVIOUS
  <2>8. Sum(Of(w, r), r) = 0
    <3>1. Cardinality(r) \notin Bad
      <4> HIDE DEF Bad, r
      <4> QED
        BY <2>2, <2>6, <2>7
    <3> HIDE DEF r
    <3> QED
      BY <2>6, <3>1
  <2>9. Sum(Of(w, t), t) = w[y] + Sum(Of(w, r), r) /\ w[y] = 0
    BY SumOfWithout
  <2> QED
    BY <2>3, <2>8, <2>9
<1>2. Cardinality(S) \in Nat /\ S \in SUBSET S /\ w = Of(w, S)
  BY FS_CardinalityType DEF Of
<1> QED
  BY <1>1, <1>2

(* One weight changes.                                                      *)
LEMMA SumChanged ==
    ASSUME NEW S, IsFiniteSet(S), NEW v \in [S -> Int], NEW w \in [S -> Int], NEW x \in S,
           \A y \in S \ {x} : v[y] = w[y]
    PROVE  Sum(v, S) = Sum(w, S) + (v[x] - w[x])
<1> DEFINE R == S \ {x}
           u == [y \in R |-> w[y]]
<1>1. u \in [R -> Int] /\ (\A y \in R : u[y] = w[y] /\ u[y] = v[y]) /\ IsFiniteSet(R)
  BY FS_RemoveElement
<1> HIDE DEF u
<1>2. Sum(v, S) = v[x] + Sum(u, R) /\ Sum(w, S) = w[x] + Sum(u, R)
  BY <1>1, SumWithout
<1>3. Sum(u, R) \in Int /\ v[x] \in Int /\ w[x] \in Int
  BY <1>1, SumType
<1>4. \A a, b, c \in Int : a + c = (b + c) + (a - b)
  OBVIOUS
<1> QED
  BY <1>2, <1>3, <1>4

-----------------------------------------------------------------------------
(* Lists in an order: what an arrangement of a list holds.                  *)

(* R orders the positions K.                                                *)
Orders(R, K) ==
    /\ \A k \in K : <<k, k>> \notin R
    /\ \A j, k \in K : j # k => <<j, k>> \in R \/ <<k, j>> \in R
    /\ \A i, j, k \in K : <<i, j>> \in R /\ <<j, k>> \in R => <<i, k>> \in R

(* How many of K are before k, and who has n - 1 before it.                 *)
Rank(k, K, R) == Cardinality({j \in K : <<j, k>> \in R})

PositionAt(n, K, R) == CHOOSE k \in K : Rank(k, K, R) = n - 1

(* An element ranks after those before it.                                  *)
LEMMA RankGrows ==
    ASSUME NEW K, IsFiniteSet(K), NEW R, Orders(R, K), NEW j \in K, NEW k \in K
    PROVE  /\ Rank(k, K, R) \in Nat /\ Rank(k, K, R) < Cardinality(K)
           /\ Rank(j, K, R) < Rank(k, K, R) <=> <<j, k>> \in R
<1> DEFINE Below(x) == {i \in K : <<i, x>> \in R}
<1>1. ASSUME NEW x \in K
      PROVE  IsFiniteSet(Below(x)) /\ Rank(x, K, R) \in Nat /\ Rank(x, K, R) < Cardinality(K)
  <2>1. Below(x) \in SUBSET K /\ Below(x) # K
    BY DEF Orders
  <2>2. /\ IsFiniteSet(Below(x)) /\ Cardinality(Below(x)) \in Nat /\ Cardinality(K) \in Nat
        /\ Cardinality(Below(x)) <= Cardinality(K) /\ Cardinality(K) # Cardinality(Below(x))
    BY <2>1, FS_Subset, FS_CardinalityType
  <2> QED
    BY <2>2 DEF Rank
<1>2. ASSUME NEW x \in K, NEW y \in K, <<x, y>> \in R
      PROVE  Rank(x, K, R) < Rank(y, K, R)
  <2>1. Below(x) \in SUBSET Below(y) /\ x \in Below(y) /\ x \notin Below(x)
    BY <1>2 DEF Orders
  <2>2. /\ Cardinality(Below(x)) <= Cardinality(Below(y))
        /\ Cardinality(Below(y)) # Cardinality(Below(x))
    <3>1. IsFiniteSet(Below(y))
      BY <1>1
    <3> HIDE DEF Below
    <3> QED
      BY <2>1, <3>1, FS_Subset
  <2> HIDE DEF Below
  <2>3. Cardinality(Below(x)) \in Nat /\ Cardinality(Below(y)) \in Nat
    BY <1>1, FS_CardinalityType
  <2>4. Cardinality(Below(x)) < Cardinality(Below(y))
    BY <2>2, <2>3
  <2> QED
    BY <2>4 DEF Rank, Below
<1>3. j = k \/ <<j, k>> \in R \/ <<k, j>> \in R
  BY DEF Orders
<1>4. Rank(j, K, R) \in Nat /\ Rank(k, K, R) \in Nat /\ Rank(k, K, R) < Cardinality(K)
  BY <1>1
<1>5. /\ <<j, k>> \in R => Rank(j, K, R) < Rank(k, K, R)
      /\ <<k, j>> \in R => Rank(k, K, R) < Rank(j, K, R)
  BY <1>2
<1>6. ASSUME Rank(j, K, R) < Rank(k, K, R)
      PROVE  <<j, k>> \in R
  BY <1>3, <1>4, <1>5, <1>6
<1> QED
  BY <1>4, <1>5, <1>6

(* Every place has one element, and every element one place.                *)
LEMMA EveryPlace ==
    ASSUME NEW K, IsFiniteSet(K), NEW R, Orders(R, K)
    PROVE  /\ Cardinality(K) \in Nat
           /\ \A n \in 1..Cardinality(K) :
                PositionAt(n, K, R) \in K /\ Rank(PositionAt(n, K, R), K, R) = n - 1
           /\ \A k \in K : /\ Rank(k, K, R) + 1 \in 1..Cardinality(K)
                           /\ PositionAt(Rank(k, K, R) + 1, K, R) = k
<1> DEFINE place == [k \in K |-> Rank(k, K, R) + 1]
<1>1. Cardinality(K) \in Nat
  BY FS_CardinalityType
<1>2. \A k \in K : Rank(k, K, R) \in Nat /\ Rank(k, K, R) < Cardinality(K)
  BY RankGrows
<1>3. \A j, k \in K : Rank(j, K, R) = Rank(k, K, R) => j = k
  <2>1. ASSUME NEW j \in K, NEW k \in K, Rank(j, K, R) = Rank(k, K, R)
        PROVE  j = k
    <3>1. <<j, k>> \notin R /\ <<k, j>> \notin R
      BY <2>1, <1>2, RankGrows
    <3> QED
      BY <3>1 DEF Orders
  <2> QED
    BY <2>1
<1>4. place \in Injection(K, 1..Cardinality(K))
  <2>1. \A k \in K : Rank(k, K, R) + 1 \in 1..Cardinality(K)
    BY <1>1, <1>2
  <2>2. \A j, k \in K : Rank(j, K, R) + 1 = Rank(k, K, R) + 1 => j = k
    BY <1>2, <1>3
  <2> QED
    BY <2>1, <2>2 DEF Injection, IsInjective
<1>5. IsFiniteSet(1..Cardinality(K)) /\ Cardinality(1..Cardinality(K)) = Cardinality(K)
  BY <1>1, FS_Interval
<1>6. place \in Surjection(K, 1..Cardinality(K))
  BY <1>4, <1>5, FS_Injection
<1>7. ASSUME NEW n \in 1..Cardinality(K)
      PROVE  PositionAt(n, K, R) \in K /\ Rank(PositionAt(n, K, R), K, R) = n - 1
  <2>1. PICK k \in K : place[k] = n
    BY <1>6 DEF Surjection
  <2>2. Rank(k, K, R) = n - 1
    BY <2>1, <1>2
  <2> QED
    BY <2>2 DEF PositionAt
<1>8. ASSUME NEW k \in K
      PROVE  /\ Rank(k, K, R) + 1 \in 1..Cardinality(K)
             /\ PositionAt(Rank(k, K, R) + 1, K, R) = k
  <2>1. PICK n \in 1..Cardinality(K) : n = Rank(k, K, R) + 1
    BY <1>1, <1>2
  <2>2. PositionAt(n, K, R) \in K /\ Rank(PositionAt(n, K, R), K, R) = Rank(k, K, R)
    BY <1>2, <1>7, <2>1
  <2>3. PositionAt(n, K, R) = k
    BY <1>3, <2>2
  <2> QED
    BY <2>1, <2>3
<1> QED
  BY <1>1, <1>7, <1>8

(* The list A holds the elements of a list at K, in the order R.            *)
IsArrangement(A, list, K, R) ==
    /\ \A n \in DOMAIN A : PositionAt(n, K, R) \in K /\ A[n] = list[PositionAt(n, K, R)]
    /\ \A m, n \in DOMAIN A : m < n => <<PositionAt(m, K, R), PositionAt(n, K, R)>> \in R
    /\ \A e : Cardinality({n \in DOMAIN A : A[n] = e}) = Cardinality({k \in K : list[k] = e})

(* An arrangement is one.                                                   *)
LEMMA ArrangedHolds ==
    ASSUME NEW S, NEW list \in Seq(S), NEW K \in SUBSET DOMAIN list, NEW R, Orders(R, K)
    PROVE  /\ Arranged(list, K, R) \in Seq(S)
           /\ IsArrangement(Arranged(list, K, R), list, K, R)
<1> DEFINE A == Arranged(list, K, R)
           P(n) == PositionAt(n, K, R)
<1>1. IsFiniteSet(DOMAIN list) /\ IsFiniteSet(K)
  <2>1. DOMAIN list = 1..Len(list) /\ Len(list) \in Nat
    OBVIOUS
  <2>2. IsFiniteSet(DOMAIN list)
    BY <2>1, FS_Interval
  <2> QED
    BY <2>2, FS_Subset
<1>2. /\ Cardinality(K) \in Nat
      /\ \A n \in 1..Cardinality(K) : P(n) \in K /\ Rank(P(n), K, R) = n - 1
      /\ \A k \in K : Rank(k, K, R) + 1 \in 1..Cardinality(K) /\ P(Rank(k, K, R) + 1) = k
  BY <1>1, EveryPlace
<1>3. A = [n \in 1..Cardinality(K) |-> list[P(n)]]
  BY <1>2 DEF Arranged, Ordered, PositionAt, Rank
<1>4. DOMAIN A = 1..Cardinality(K) /\ \A n \in DOMAIN A : P(n) \in K /\ A[n] = list[P(n)]
  BY <1>2, <1>3
<1>5. A \in Seq(S)
  <2>1. \A k \in K : list[k] \in S
    OBVIOUS
  <2>2. \A n \in 1..Cardinality(K) : list[P(n)] \in S
    BY <1>2, <2>1
  <2> HIDE DEF A, P
  <2>3. A \in [1..Cardinality(K) -> S]
    BY <1>3, <2>2
  <2> QED
    BY <1>2, <2>3
<1>6. ASSUME NEW m \in DOMAIN A, NEW n \in DOMAIN A, m < n
      PROVE  <<P(m), P(n)>> \in R
  <2>1. P(m) \in K /\ P(n) \in K /\ Rank(P(m), K, R) < Rank(P(n), K, R)
    BY <1>2, <1>4, <1>6
  <2> QED
    BY <1>1, <2>1, RankGrows
<1>7. ASSUME NEW e
      PROVE  Cardinality({n \in DOMAIN A : A[n] = e}) = Cardinality({k \in K : list[k] = e})
  <2> DEFINE From == {k \in K : list[k] = e}
             To == {n \in DOMAIN A : A[n] = e}
             place == [k \in From |-> Rank(k, K, R) + 1]
  <2>1. \A k \in From : Rank(k, K, R) + 1 \in To
    BY <1>2, <1>4
  <2>2. \A j, k \in From : Rank(j, K, R) + 1 = Rank(k, K, R) + 1 => j = k
    BY <1>2
  <2>3. \A n \in To : P(n) \in From /\ Rank(P(n), K, R) + 1 = n
    <3>1. ASSUME NEW n \in To
          PROVE  P(n) \in From /\ Rank(P(n), K, R) + 1 = n
      <4>1. n \in 1..Cardinality(K) /\ P(n) \in K /\ Rank(P(n), K, R) = n - 1 /\ list[P(n)] = e
        BY <1>2, <1>4
      <4> HIDE DEF P
      <4>2. Rank(P(n), K, R) + 1 = n
        BY <1>2, <4>1
      <4> QED
        BY <4>1, <4>2
    <3> QED
      BY <3>1
  <2> HIDE DEF To, P
  <2>4. place \in Bijection(From, To)
    <3>1. place \in [From -> To] /\ \A j, k \in From : place[j] = place[k] => j = k
      BY <2>1, <2>2
    <3>2. \A n \in To : \E k \in From : place[k] = n
      BY <2>3
    <3> QED
      BY <3>1, <3>2 DEF Bijection, Injection, Surjection, IsInjective
  <2>5. IsFiniteSet(From)
    BY <1>1, FS_Subset
  <2>6. ExistsBijection(From, To)
    BY <2>4 DEF ExistsBijection
  <2> HIDE DEF From
  <2>7. Cardinality(To) = Cardinality(From)
    BY <2>5, <2>6, FS_Bijection
  <2> QED
    BY <2>7 DEF To, From
<1> HIDE DEF A, P
<1>8. /\ A \in Seq(S)
      /\ \A n \in DOMAIN A : P(n) \in K /\ A[n] = list[P(n)]
      /\ \A m, n \in DOMAIN A : m < n => <<P(m), P(n)>> \in R
      /\ \A e : Cardinality({n \in DOMAIN A : A[n] = e}) = Cardinality({k \in K : list[k] = e})
  BY <1>4, <1>5, <1>6, <1>7
<1>9. A \in Seq(S) /\ IsArrangement(A, list, K, R)
  BY <1>8 DEF IsArrangement, P
<1> QED
  BY <1>9 DEF A

(* Numbers are ordered by a key and, where it does not tell them apart, by  *)
(* themselves.                                                              *)
LEMMA StablyOrders ==
    ASSUME NEW K \in SUBSET Nat, NEW key \in [K -> Nat]
    PROVE  /\ Orders(Stably(K, key), K)
           /\ Orders({pair \in K \X K : pair[1] < pair[2]}, K)
<1>1. \A j, k \in K :
        /\ <<j, k>> \in Stably(K, key) <=> key[j] < key[k] \/ (key[j] = key[k] /\ j < k)
        /\ <<j, k>> \in {pair \in K \X K : pair[1] < pair[2]} <=> j < k
  BY DEF Stably
<1>2. \A k \in K : k \in Nat /\ key[k] \in Nat
  OBVIOUS
<1>3. Orders(Stably(K, key), K)
  BY <1>1, <1>2 DEF Orders
<1>4. Orders({pair \in K \X K : pair[1] < pair[2]}, K)
  <2> DEFINE R == {pair \in K \X K : pair[1] < pair[2]}
  <2>1. \A j, k \in K : <<j, k>> \in R <=> j < k
    OBVIOUS
  <2> HIDE DEF R
  <2>2. Orders(R, K)
    BY <1>2, <2>1 DEF Orders
  <2> QED
    BY <2>2 DEF R
<1> QED
  BY <1>3, <1>4

(* A set in an order is a list of its elements, each in one place.          *)
LEMMA OrderedIs ==
    ASSUME NEW K, IsFiniteSet(K), NEW R, Orders(R, K)
    PROVE  /\ Ordered(K, R) \in Seq(K)
           /\ DOMAIN Ordered(K, R) = 1..Cardinality(K) /\ Cardinality(K) \in Nat
           /\ \A m, n \in DOMAIN Ordered(K, R) : m # n => Ordered(K, R)[m] # Ordered(K, R)[n]
<1>1. /\ Cardinality(K) \in Nat
      /\ \A n \in 1..Cardinality(K) :
           PositionAt(n, K, R) \in K /\ Rank(PositionAt(n, K, R), K, R) = n - 1
  BY EveryPlace
<1>2. Ordered(K, R) = [n \in 1..Cardinality(K) |-> PositionAt(n, K, R)]
  BY DEF Ordered, PositionAt, Rank
<1>3. Ordered(K, R) \in [1..Cardinality(K) -> K]
  BY <1>1, <1>2
<1>4. \A m, n \in 1..Cardinality(K) : m # n => PositionAt(m, K, R) # PositionAt(n, K, R)
  BY <1>1
<1> QED
  BY <1>1, <1>2, <1>3, <1>4

(* The positions of a list can be counted.                                  *)
LEMMA PositionsAre ==
    ASSUME NEW S, NEW list \in Seq(S)
    PROVE  /\ IsFiniteSet(DOMAIN list) /\ DOMAIN list \in SUBSET Nat
           /\ Cardinality(DOMAIN list) = Len(list)
           /\ \A K \in SUBSET DOMAIN list : IsFiniteSet(K) /\ K \in SUBSET Nat
<1>1. DOMAIN list = 1..Len(list) /\ Len(list) \in Nat
  OBVIOUS
<1>2. 1 \in Int /\ Len(list) \in Int
  BY <1>1
<1>3. IsFiniteSet(DOMAIN list) /\ Cardinality(DOMAIN list) = Len(list)
  BY <1>1, <1>2, FS_Interval
<1>4. \A K \in SUBSET DOMAIN list : IsFiniteSet(K) /\ K \in SUBSET Nat
  BY <1>1, <1>3, FS_Subset
<1> QED
  BY <1>1, <1>3, <1>4

(* What is selected from a list is of the list.                             *)
LEMMA SelectedIs ==
    ASSUME NEW S, NEW list \in Seq(S), NEW K \in SUBSET DOMAIN list
    PROVE  /\ Selected(list, K) \in Seq(S)
           /\ \A n \in DOMAIN Selected(list, K) : \E k \in K : Selected(list, K)[n] = list[k]
<1> DEFINE R == {pair \in K \X K : pair[1] < pair[2]}
<1>1. K \in SUBSET Nat
  BY PositionsAre
<1>2. Orders(R, K)
  <2>1. PICK key \in [K -> Nat] : key = [k \in K |-> 0]
    OBVIOUS
  <2> QED
    BY <1>1, <2>1, StablyOrders
<1>3. Selected(list, K) = Arranged(list, K, R)
  BY DEF Selected
<1> HIDE DEF R
<1>4. Arranged(list, K, R) \in Seq(S) /\ IsArrangement(Arranged(list, K, R), list, K, R)
  BY <1>2, ArrangedHolds
<1> QED
  BY <1>3, <1>4 DEF IsArrangement

(* A sorted list has the elements of the list, and as many.                 *)
LEMMA SortedIs ==
    ASSUME NEW S, NEW list \in Seq(S), NEW key \in [DOMAIN list -> Nat]
    PROVE  /\ Sorted(list, key) \in Seq(S)
           /\ DOMAIN Sorted(list, key) = DOMAIN list
           /\ \A n \in DOMAIN list : \E k \in DOMAIN list : Sorted(list, key)[n] = list[k]
<1> DEFINE K == DOMAIN list
           R == Stably(K, key)
<1>1. /\ K \in SUBSET Nat /\ K \in SUBSET DOMAIN list
      /\ Cardinality(K) = Len(list) /\ K = 1..Len(list)
  BY PositionsAre
<1>2. Orders(R, K)
  BY <1>1, StablyOrders
<1>3. Sorted(list, key) = Arranged(list, K, R)
  BY DEF Sorted
<1>4. DOMAIN Arranged(list, K, R) = 1..Cardinality(K)
  BY DEF Arranged
<1> HIDE DEF R
<1>5. Arranged(list, K, R) \in Seq(S) /\ IsArrangement(Arranged(list, K, R), list, K, R)
  BY <1>1, <1>2, ArrangedHolds
<1> QED
  BY <1>1, <1>3, <1>4, <1>5 DEF IsArrangement

(* A takes its elements from the positions `at` of a list, each of K once.  *)
Takes(A, list, K, at) ==
    /\ at \in [DOMAIN A -> K]
    /\ \A n \in DOMAIN A : A[n] = list[at[n]]
    /\ \A k \in K : \E n \in DOMAIN A : at[n] = k

(* The positions are in the order R.                                        *)
Follows(A, at, R) == \A m, n \in DOMAIN A : m < n => <<at[m], at[n]>> \in R

(* Every element of an arrangement is that of one position.                 *)
LEMMA ArrangedFrom ==
    ASSUME NEW S, NEW list \in Seq(S), NEW K \in SUBSET DOMAIN list, NEW R, Orders(R, K)
    PROVE  \E at : Takes(Arranged(list, K, R), list, K, at) /\ Follows(Arranged(list, K, R), at, R)
<1> DEFINE A == Arranged(list, K, R)
           at == [n \in DOMAIN A |-> PositionAt(n, K, R)]
<1>1. IsFiniteSet(K)
  BY PositionsAre
<1>2. IsArrangement(A, list, K, R)
  BY ArrangedHolds
<1>3. DOMAIN A = 1..Cardinality(K)
  BY DEF Arranged
<1> HIDE DEF A
<1>4. /\ at \in [DOMAIN A -> K] /\ \A n \in DOMAIN A : A[n] = list[at[n]]
      /\ \A m, n \in DOMAIN A : m < n => <<at[m], at[n]>> \in R
  BY <1>2 DEF IsArrangement
<1>5. \A k \in K : \E n \in DOMAIN A : at[n] = k
  <2>1. \A k \in K : /\ Rank(k, K, R) + 1 \in 1..Cardinality(K)
                    /\ PositionAt(Rank(k, K, R) + 1, K, R) = k
    BY <1>1, EveryPlace
  <2> QED
    BY <1>3, <2>1
<1> HIDE DEF at
<1>6. Takes(A, list, K, at) /\ Follows(A, at, R)
  BY <1>4, <1>5 DEF Takes, Follows
<1> QED
  BY <1>6 DEF A

(* What is selected from a list stays in its order.                         *)
LEMMA SelectedFrom ==
    ASSUME NEW S, NEW list \in Seq(S), NEW K \in SUBSET DOMAIN list
    PROVE  \E at : /\ Takes(Selected(list, K), list, K, at)
                   /\ \A m, n \in DOMAIN Selected(list, K) : m < n => at[m] < at[n]
<1> DEFINE R == {pair \in K \X K : pair[1] < pair[2]}
<1>1. K \in SUBSET Nat
  BY PositionsAre
<1>2. Orders(R, K)
  <2>1. PICK key \in [K -> Nat] : key = [k \in K |-> 0]
    OBVIOUS
  <2> QED
    BY <1>1, <2>1, StablyOrders
<1>3. Selected(list, K) = Arranged(list, K, R)
  BY DEF Selected
<1>4. \A j, k \in K : <<j, k>> \in R <=> j < k
  OBVIOUS
<1> HIDE DEF R
<1>5. PICK at : Takes(Arranged(list, K, R), list, K, at) /\ Follows(Arranged(list, K, R), at, R)
  BY <1>2, ArrangedFrom
<1>6. \A m, n \in DOMAIN Selected(list, K) : m < n => at[m] < at[n]
  <2>1. \A n \in DOMAIN Selected(list, K) : at[n] \in K
    BY <1>3, <1>5 DEF Takes
  <2> QED
    BY <1>3, <1>4, <1>5, <2>1 DEF Follows
<1> QED
  BY <1>3, <1>5, <1>6

(* A sorted list is in the order of the keys and, among equals, of the list. *)
LEMMA SortedFrom ==
    ASSUME NEW S, NEW list \in Seq(S), NEW key \in [DOMAIN list -> Nat]
    PROVE  \E at : /\ Takes(Sorted(list, key), list, DOMAIN list, at)
                   /\ \A m, n \in DOMAIN list : m < n =>
                        key[at[m]] < key[at[n]] \/ (key[at[m]] = key[at[n]] /\ at[m] < at[n])
<1> DEFINE K == DOMAIN list
           R == Stably(K, key)
<1>1. K \in SUBSET Nat /\ K \in SUBSET DOMAIN list
  BY PositionsAre
<1>2. Orders(R, K)
  BY <1>1, StablyOrders
<1>3. Sorted(list, key) = Arranged(list, K, R)
  BY DEF Sorted
<1>4. \A j, k \in K : <<j, k>> \in R => key[j] < key[k] \/ (key[j] = key[k] /\ j < k)
  BY DEF Stably
<1> HIDE DEF R
<1>5. PICK at : Takes(Arranged(list, K, R), list, K, at) /\ Follows(Arranged(list, K, R), at, R)
  BY <1>1, <1>2, ArrangedFrom
<1>6. DOMAIN Arranged(list, K, R) = K
  BY <1>3, SortedIs
<1>7. \A n \in K : at[n] \in K
  BY <1>5, <1>6 DEF Takes
<1>8. \A m, n \in K : m < n =>
        key[at[m]] < key[at[n]] \/ (key[at[m]] = key[at[n]] /\ at[m] < at[n])
  BY <1>4, <1>5, <1>6, <1>7 DEF Follows
<1> QED
  BY <1>3, <1>5, <1>8

(* A sum over the first numbers, with one more.                             *)
LEMMA SumOfNext ==
    ASSUME NEW n \in Nat, NEW w \in [1..(n + 1) -> Int], NEW v \in [1..n -> Int],
           \A k \in 1..n : v[k] = w[k]
    PROVE  Sum(w, 1..(n + 1)) = Sum(v, 1..n) + w[n + 1]
<1>1. PICK T, one : T = 1..(n + 1) /\ one = n + 1
  OBVIOUS
<1>2. IsFiniteSet(T) /\ one \in T /\ T \ {one} = 1..n
  <2>1. 1 \in Int /\ n + 1 \in Int
    OBVIOUS
  <2>2. IsFiniteSet(1..(n + 1))
    BY <2>1, FS_Interval
  <2> QED
    BY <1>1, <2>2
<1>3. w \in [T -> Int] /\ v \in [T \ {one} -> Int] /\ w[one] \in Int
  BY <1>1, <1>2
<1>4. \A y \in T \ {one} : v[y] = w[y]
  BY <1>2
<1>5. Sum(w, T) = w[one] + Sum(v, T \ {one})
  BY <1>2, <1>3, <1>4, SumWithout
<1>6. Sum(v, 1..n) \in Int
  <2>1. IsFiniteSet(1..n)
    BY <1>1, <1>2, FS_RemoveElement
  <2> QED
    BY <2>1, <1>2, <1>3, SumType
<1> QED
  BY <1>1, <1>2, <1>3, <1>5, <1>6

(* A list, whatever it holds.                                               *)
IsList(list) == list \in Seq({list[k] : k \in DOMAIN list})

LEMMA ListsAre ==
    ASSUME NEW S, NEW list \in Seq(S)
    PROVE  IsList(list)
<1>1. /\ DOMAIN list = 1..Len(list) /\ Len(list) \in Nat
      /\ list = [k \in 1..Len(list) |-> list[k]]
  OBVIOUS
<1> DEFINE T == {list[k] : k \in DOMAIN list}
<1>2. \A k \in 1..Len(list) : list[k] \in T
  BY <1>1
<1> HIDE DEF T
<1>3. list \in Seq(T)
  BY <1>1, <1>2
<1> QED
  BY <1>3 DEF IsList, T

(* What a function of the first numbers gives is a list.                    *)
LEMMA ListOf ==
    ASSUME NEW n \in Nat, NEW list, list = [k \in 1..n |-> list[k]]
    PROVE  IsList(list) /\ DOMAIN list = 1..n /\ Len(list) = n
<1> DEFINE T == {list[k] : k \in DOMAIN list}
<1>1. DOMAIN list = 1..n
  OBVIOUS
<1>2. \A k \in 1..n : list[k] \in T
  BY <1>1
<1> HIDE DEF T
<1>3. list \in Seq(T)
  BY <1>2
<1>4. Len(list) = n
  BY <1>1, <1>3
<1> QED
  BY <1>1, <1>3, <1>4 DEF IsList, T

(* So is one list after another.                                            *)
LEMMA ListsJoined ==
    ASSUME NEW one, IsList(one), NEW other, IsList(other)
    PROVE  /\ IsList(one \o other)
           /\ DOMAIN one = 1..Len(one) /\ Len(one) \in Nat
           /\ DOMAIN other = 1..Len(other) /\ Len(other) \in Nat
           /\ DOMAIN (one \o other) = 1..(Len(one) + Len(other))
           /\ \A k \in 1..Len(one) : (one \o other)[k] = one[k]
           /\ \A k \in 1..Len(other) : (one \o other)[Len(one) + k] = other[k]
<1> DEFINE R == {one[k] : k \in DOMAIN one}
           S == {other[k] : k \in DOMAIN other}
           both == one \o other
<1>1. one \in Seq(R) /\ other \in Seq(S)
  BY DEF IsList
<1> HIDE DEF R, S
<1>2. one \in Seq(R \union S) /\ other \in Seq(R \union S)
  BY <1>1
<1>3. /\ both \in Seq(R \union S) /\ Len(both) = Len(one) + Len(other)
      /\ \A i \in 1..(Len(one) + Len(other)) :
            both[i] = IF i <= Len(one) THEN one[i] ELSE other[i - Len(one)]
  BY <1>2, ConcatProperties
<1> HIDE DEF both
<1>4. IsList(both)
  BY <1>3, ListsAre
<1>5. /\ DOMAIN one = 1..Len(one) /\ Len(one) \in Nat
      /\ DOMAIN other = 1..Len(other) /\ Len(other) \in Nat
      /\ DOMAIN both = 1..(Len(one) + Len(other))
  BY <1>2, <1>3
<1>6. \A k \in 1..Len(one) : both[k] = one[k]
  BY <1>3, <1>5
<1>7. \A k \in 1..Len(other) : both[Len(one) + k] = other[k]
  <2> SUFFICES ASSUME NEW k \in 1..Len(other) PROVE both[Len(one) + k] = other[k]
    OBVIOUS
  <2>1. /\ Len(one) + k \in 1..(Len(one) + Len(other)) /\ ~(Len(one) + k <= Len(one))
        /\ (Len(one) + k) - Len(one) = k
    BY <1>5
  <2> QED
    BY <1>3, <2>1
<1> QED
  BY <1>4, <1>5, <1>6, <1>7 DEF both

(* And what is selected from a list.                                        *)
LEMMA SelectedLists ==
    ASSUME NEW list, IsList(list), NEW K \in SUBSET DOMAIN list
    PROVE  /\ IsList(Selected(list, K))
           /\ \E at : /\ Takes(Selected(list, K), list, K, at)
                      /\ \A m, n \in DOMAIN Selected(list, K) : m < n => at[m] < at[n]
<1> DEFINE S == {list[k] : k \in DOMAIN list}
<1>1. list \in Seq(S)
  BY DEF IsList
<1> HIDE DEF S
<1>2. Selected(list, K) \in Seq(S)
  BY <1>1, SelectedIs
<1>3. IsList(Selected(list, K))
  BY <1>2, ListsAre
<1>4. \E at : /\ Takes(Selected(list, K), list, K, at)
              /\ \A m, n \in DOMAIN Selected(list, K) : m < n => at[m] < at[n]
  BY <1>1, SelectedFrom
<1> QED
  BY <1>3, <1>4

(* And what is sorted.                                                      *)
LEMMA SortedLists ==
    ASSUME NEW list, IsList(list), NEW key \in [DOMAIN list -> Nat]
    PROVE  /\ IsList(Sorted(list, key)) /\ DOMAIN Sorted(list, key) = DOMAIN list
           /\ \E at : /\ Takes(Sorted(list, key), list, DOMAIN list, at)
                      /\ \A m, n \in DOMAIN list : m < n =>
                           key[at[m]] < key[at[n]] \/ (key[at[m]] = key[at[n]] /\ at[m] < at[n])
<1> DEFINE S == {list[k] : k \in DOMAIN list}
<1>1. list \in Seq(S)
  BY DEF IsList
<1> HIDE DEF S
<1>2. Sorted(list, key) \in Seq(S) /\ DOMAIN Sorted(list, key) = DOMAIN list
  BY <1>1, SortedIs
<1>3. IsList(Sorted(list, key))
  BY <1>2, ListsAre
<1>4. \E at : /\ Takes(Sorted(list, key), list, DOMAIN list, at)
              /\ \A m, n \in DOMAIN list : m < n =>
                   key[at[m]] < key[at[n]] \/ (key[at[m]] = key[at[n]] /\ at[m] < at[n])
  BY <1>1, SortedFrom
<1> QED
  BY <1>2, <1>3, <1>4
=============================================================================
