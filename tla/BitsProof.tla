----------------------------- MODULE BitsProof -----------------------------
(***************************************************************************)
(* Proofs about shifts and masks.  Before them, what they and the proofs   *)
(* about the page table need of induction: a recursive function is what    *)
(* its defining equation says.                                             *)
(***************************************************************************)
EXTENDS Bits, WellFoundedInduction, TLAPS

----------------------------------------------------------------------------
(* Induction and recursion                                                 *)

\* A nonempty set of naturals has a least element.
LEMMA LeastNatural ==
    ASSUME NEW T \in SUBSET Nat, T # {}
    PROVE  \E x \in T : \A y \in T : x <= y
<1> DEFINE Less == OpToRel(<, Nat)
<1>1. PICK x \in T : \A y \in T : <<y, x>> \notin Less
  <2>1. IsWellFoundedOn(Less, Nat)
    BY NatLessThanWellFounded
  <2> HIDE DEF Less
  <2> QED  BY <2>1, WFMin
<1>2. ASSUME NEW y \in T PROVE x <= y
  <2>1. x \in Nat /\ y \in Nat /\ ~(y < x)
    BY <1>1 DEF OpToRel
  <2> QED  BY <2>1
<1> QED  BY <1>2

\* A set of naturals that has every one whose predecessors it has, has them all.
LEMMA StrongInduction ==
    ASSUME NEW D \in SUBSET Nat, NEW T,
           \A n \in D : (\A m \in D : m < n => m \in T) => n \in T
    PROVE  D \subseteq T
<1> SUFFICES ASSUME D \ T # {} PROVE FALSE
  OBVIOUS
<1>1. PICK n \in D \ T : \A y \in D \ T : n <= y
  BY LeastNatural
<1>2. ASSUME NEW m \in D, m < n PROVE m \in T
  <2>1. m \notin D \ T
    BY <1>1, <1>2
  <2> QED  BY <2>1
<1> QED  BY <1>1, <1>2

\* The functions on the part of D up to n that obey a recursion.
Solves(D, p, b, G, n, f) ==
    /\ f[0] = b
    /\ \A m \in D \ {0} : m <= n => f[m] = G[m][f[p[m]]]

Below(D, n) == {m \in D : m <= n}

\* A recursion on a set D of naturals: the value at 0 is b, and the one at n is
\* made by G[n] of the one at p[n], which comes before it; all are in R.
IsRecursion(D, p, R, b, G) ==
    /\ D \in SUBSET Nat /\ 0 \in D
    /\ p \in [D -> D] /\ \A n \in D \ {0} : p[n] < n
    /\ b \in R /\ G \in [D -> [R -> R]]

IsSolution(D, p, R, b, G, F) ==
    /\ F \in [D -> R]
    /\ F[0] = b /\ \A n \in D \ {0} : F[n] = G[n][F[p[n]]]

\* It has a solution.
LEMMA Recursion ==
    ASSUME NEW D, NEW p, NEW R, NEW b, NEW G, IsRecursion(D, p, R, b, G)
    PROVE  \E F : IsSolution(D, p, R, b, G, F)
<1> USE DEF IsRecursion
<1>0. \A n \in D : n \in Nat /\ n <= n /\ (n # 0 => p[n] \in D /\ p[n] <= n)
  <2>1. ASSUME NEW n \in D, n # 0 PROVE p[n] \in D /\ p[n] <= n
    <3>1. p[n] \in D /\ p[n] < n
      BY <2>1
    <3>2. p[n] \in Nat /\ n \in Nat
      BY <3>1
    <3> QED  BY <3>1, <3>2
  <2>2. \A n \in D : n \in Nat
    OBVIOUS
  <2> QED  BY <2>1, <2>2
<1> DEFINE Part(n) == {f \in [Below(D, n) -> R] : Solves(D, p, b, G, n, f)}
<1>1. ASSUME NEW m \in D, NEW n \in D, NEW f \in Part(m), NEW g \in Part(n), NEW i \in D, i <= m, i <= n
      PROVE  f[i] = g[i]
  <2> DEFINE T == {k \in D : k <= m /\ k <= n => f[k] = g[k]}
  <2>1. ASSUME NEW k \in D, \A j \in D : j < k => j \in T PROVE k \in T
    <3>1. CASE k = 0
      BY <3>1 DEF Solves
    <3>2. CASE k # 0 /\ k <= m /\ k <= n
      <4>1. p[k] \in D /\ p[k] < k
        BY <3>2
      <4>2. p[k] <= m /\ p[k] <= n
        <5>1. k \in Nat /\ p[k] \in Nat /\ m \in Nat /\ n \in Nat
          BY <4>1, <1>0
        <5> QED  BY <5>1, <4>1, <3>2
      <4>3. f[p[k]] = g[p[k]]
        BY <4>1, <4>2, <2>1
      <4>4. f[k] = G[k][f[p[k]]] /\ g[k] = G[k][g[p[k]]]
        BY <3>2 DEF Solves
      <4> QED  BY <4>3, <4>4
    <3> QED  BY <3>1, <3>2
  <2> HIDE DEF T
  <2>2. D \subseteq T
    BY <2>1, StrongInduction
  <2> QED  BY <2>2, <1>1 DEF T
<1> HIDE DEF Part
<1>1a. \A m, n \in D : m <= n => \A f \in Part(m) : \A g \in Part(n) : g[m] = f[m]
  BY <1>1, <1>0
<1> USE DEF Part
<1> DEFINE part(n) == CHOOSE f : f \in Part(n)
           T == {n \in D : Part(n) # {}}
<1>2. ASSUME NEW n \in D, \A m \in D : m < n => m \in T PROVE n \in T
  <2>1. CASE n = 0
    <3> DEFINE f == [m \in Below(D, 0) |-> b]
    <3>1. 0 \in Below(D, 0)
      BY DEF Below
    <3>2. f[0] = b /\ f \in [Below(D, 0) -> R]
      BY <3>1
    <3>3. \A m \in D \ {0} : ~(m <= 0)
      OBVIOUS
    <3> HIDE DEF f
    <3>4. f \in Part(0)
      BY <3>2, <3>3 DEF Solves
    <3> QED  BY <2>1, <3>4
  <2>2. CASE n # 0
    <3>1. \A m \in D : m < n => part(m) \in Part(m)
      BY <1>2
    <3>2. p[n] \in D /\ p[n] < n
      BY <2>2
    <3> DEFINE q == p[n]
               f == [m \in Below(D, n) |-> IF m = n THEN G[n][part(q)[q]] ELSE part(m)[m]]
    <3> HIDE DEF Part, part
    <3>3. ASSUME NEW m \in D, m < n PROVE part(m) \in [Below(D, m) -> R] /\ Solves(D, p, b, G, m, part(m))
      BY <3>1, <3>3 DEF Part
    <3>4. ASSUME NEW m \in D, m < n PROVE part(m)[m] \in R /\ f[m] = part(m)[m]
      <4>1. m \in Below(D, m) /\ m \in Below(D, n) /\ m # n
        BY <3>4 DEF Below
      <4> QED  BY <4>1, <3>3, <3>4
    <3>5. part(q)[q] \in R
      BY <3>2, <3>4
    <3>6. n \in Below(D, n) /\ f[n] = G[n][part(q)[q]]
      BY DEF Below
    <3>7. f \in [Below(D, n) -> R]
      <4>1. ASSUME NEW m \in Below(D, n) PROVE (IF m = n THEN G[n][part(q)[q]] ELSE part(m)[m]) \in R
        <5>1. m \in D /\ (m = n \/ m < n)
          BY DEF Below
        <5>2. G[n] \in [R -> R]
          OBVIOUS
        <5> QED  BY <5>1, <5>2, <3>4, <3>5
      <4> QED  BY <4>1
    <3> HIDE DEF f
    <3>8. f[0] = b
      <4>1. 0 < n
        BY <2>2
      <4> QED  BY <4>1, <3>3, <3>4 DEF Solves
    <3>9. ASSUME NEW m \in D \ {0}, m <= n PROVE f[m] = G[m][f[p[m]]]
      <4>1. CASE m = n
        BY <4>1, <3>2, <3>4, <3>6
      <4>2. CASE m # n
        <5>1. m < n /\ p[m] \in D /\ p[m] < m /\ p[m] < n /\ p[m] <= m
          <6>1. p[m] \in D /\ p[m] < m
            OBVIOUS
          <6>2. m \in Nat /\ p[m] \in Nat /\ n \in Nat
            BY <6>1, <1>0
          <6> QED  BY <6>1, <6>2, <3>9, <4>2
        <5>2. part(m)[m] = G[m][part(m)[p[m]]]
          BY <5>1, <3>3 DEF Solves
        <5>3. part(m)[p[m]] = part(p[m])[p[m]]
          <6>1. part(m) \in Part(m) /\ part(p[m]) \in Part(p[m])
            BY <5>1, <3>1
          <6>2. p[m] <= p[m] /\ p[m] <= m
            BY <5>1, <1>0
          <6> DEFINE k == p[m]
                     f1 == part(k)
                     g1 == part(m)
          <6>3. k \in D /\ k <= m /\ f1 \in Part(k) /\ g1 \in Part(m)
            BY <6>1, <6>2, <5>1
          <6> HIDE DEF k, f1, g1
          <6>4. g1[k] = f1[k]
            BY <6>3, <1>1a
          <6> QED  BY <6>4 DEF k, f1, g1
        <5> QED  BY <5>1, <5>2, <5>3, <3>4
      <4> QED  BY <4>1, <4>2
    <3>10. f \in Part(n)
      BY <3>7, <3>8, <3>9 DEF Part, Solves
    <3> QED  BY <3>10
  <2> QED  BY <2>1, <2>2
<1> HIDE DEF T
<1>3. D \subseteq T
  BY <1>2, StrongInduction
<1>4. \A n \in D : part(n) \in Part(n)
  BY <1>3 DEF T
<1> DEFINE F == [n \in D |-> part(n)[n]]
<1>5. ASSUME NEW n \in D PROVE part(n) \in [Below(D, n) -> R] /\ Solves(D, p, b, G, n, part(n))
  BY <1>4
<1> HIDE DEF Part, part
<1>6. ASSUME NEW n \in D PROVE part(n)[n] \in R
  <2>1. n \in Below(D, n)
    BY DEF Below
  <2> QED  BY <2>1, <1>5
<1>7. F \in [D -> R] /\ \A n \in D : F[n] = part(n)[n]
  BY <1>6
<1> HIDE DEF F
<1>8. F[0] = b
  BY <1>5, <1>7 DEF Solves
<1>9. ASSUME NEW n \in D \ {0} PROVE F[n] = G[n][F[p[n]]]
  <2>1. p[n] \in D /\ n \in D /\ p[n] <= n /\ p[n] <= p[n] /\ n <= n
    BY <1>0
  <2>2. part(n)[n] = G[n][part(n)[p[n]]]
    BY <2>1, <1>5 DEF Solves
  <2>3. part(n)[p[n]] = part(p[n])[p[n]]
    <3>1. part(n) \in Part(n) /\ part(p[n]) \in Part(p[n])
      BY <2>1, <1>4
    <3> DEFINE k == p[n]
               f1 == part(k)
               g1 == part(n)
    <3>2. k \in D /\ k <= n /\ f1 \in Part(k) /\ g1 \in Part(n)
      BY <3>1, <2>1
    <3> HIDE DEF k, f1, g1
    <3>3. g1[k] = f1[k]
      BY <3>2, <1>1a
    <3> QED  BY <3>3 DEF k, f1, g1
  <2> QED  BY <2>1, <2>2, <2>3, <1>7
<1>10. F \in [D -> R] /\ \A n \in D \ {0} : F[n] = G[n][F[p[n]]]
  BY <1>7, <1>9
<1> QED  BY <1>8, <1>10 DEF IsSolution

----------------------------------------------------------------------------
(* Shifts and masks                                                        *)

Half == [n \in Nat |-> n \div 2]

\* What is left of a number when its lowest bit is shifted out.
LEMMA HalfIsLess ==
    /\ Half \in [Nat -> Nat]
    /\ \A n \in Nat \ {0} : Half[n] < n /\ Half[n] = n \div 2
    /\ \A n \in Nat : n \div 2 \in Nat /\ n % 2 \in {0, 1} /\ n = 2 * (n \div 2) + (n % 2)
  BY DEF Half

\* Pow2, unfolded.
LEMMA Pow2Values ==
    /\ Pow2 \in [Nat -> Nat \ {0}]
    /\ Pow2[0] = 1
    /\ \A n \in Nat \ {0} : Pow2[n] = 2 * Pow2[n - 1]
<1> DEFINE R == Nat \ {0}
           p == [n \in Nat |-> IF n = 0 THEN 0 ELSE n - 1]
           G == [n \in Nat |-> [x \in R |-> 2 * x]]
           Body(f) == [n \in Nat |-> IF n = 0 THEN 1 ELSE 2 * f[n - 1]]
<1>1. p \in [Nat -> Nat] /\ \A n \in Nat \ {0} : p[n] = n - 1 /\ p[n] < n
  OBVIOUS
<1>2. G \in [Nat -> [R -> R]] /\ \A n \in Nat : \A x \in R : G[n][x] = 2 * x
  OBVIOUS
<1>3. 1 \in R
  OBVIOUS
<1> HIDE DEF p, G, R
<1>4. IsRecursion(Nat, p, R, 1, G)
  BY <1>1, <1>2, <1>3 DEF IsRecursion
<1>5. PICK F : IsSolution(Nat, p, R, 1, G, F)
  BY <1>4, Recursion
<1>6. /\ F \in [Nat -> R] /\ F[0] = 1
      /\ \A n \in Nat \ {0} : F[n] = 2 * F[n - 1]
  <2>1. /\ F \in [Nat -> R] /\ F[0] = 1
        /\ \A n \in Nat \ {0} : F[n] = G[n][F[p[n]]]
    BY <1>5 DEF IsSolution
  <2>2. ASSUME NEW n \in Nat \ {0} PROVE F[n] = 2 * F[n - 1]
    <3>1. p[n] = n - 1 /\ n - 1 \in Nat
      BY <1>1
    <3> QED  BY <3>1, <2>1, <1>2
  <2> QED  BY <2>1, <2>2
<1>7. F = Body(F)
  BY <1>6
<1> HIDE DEF Body
<1>8. Pow2 = CHOOSE f : f = Body(f)
  BY DEF Pow2, Body
<1>9. Pow2 = Body(Pow2)
  BY <1>7, <1>8
<1>10. Pow2[0] = 1 /\ \A n \in Nat \ {0} : Pow2[n] = 2 * Pow2[n - 1]
  BY <1>9 DEF Body
<1>11. \A n \in Nat : Pow2[n] \in Nat \ {0}
  <2> DEFINE T == {n \in Nat : Pow2[n] \in Nat \ {0}}
  <2>1. ASSUME NEW n \in Nat, \A m \in Nat : m < n => m \in T PROVE n \in T
    <3>1. CASE n = 0
      BY <3>1, <1>10
    <3>2. CASE n # 0
      <4>1. n - 1 \in T
        BY <3>2, <2>1
      <4> QED  BY <4>1, <3>2, <1>10
    <3> QED  BY <3>1, <3>2
  <2> HIDE DEF T
  <2>2. Nat \subseteq T
    BY <2>1, StrongInduction
  <2> QED  BY <2>2 DEF T
<1>12. Pow2 = [n \in Nat |-> Pow2[n]]
  BY <1>9 DEF Body
<1>13. Pow2 \in [Nat -> Nat \ {0}]
  BY <1>11, <1>12
<1> QED  BY <1>10, <1>13

\* The bitwise and, unfolded.
LEMMA BitAndValues ==
    /\ BitAnd \in [Nat -> [Nat -> Nat]]
    /\ \A y \in Nat : BitAnd[0][y] = 0
    /\ \A x \in Nat \ {0} : \A y \in Nat :
          BitAnd[x][y] = 2 * BitAnd[x \div 2][y \div 2] + (x % 2) * (y % 2)
<1> DEFINE R == [Nat -> Nat]
           b == [y \in Nat |-> 0]
           Step(x, f) == [y \in Nat |-> 2 * f[y \div 2] + (x % 2) * (y % 2)]
           G == [x \in Nat |-> [f \in R |-> Step(x, f)]]
           Value(f, x) == [y \in Nat |-> IF x = 0 THEN 0
                                      ELSE 2 * f[x \div 2][y \div 2] + (x % 2) * (y % 2)]
           Body(f) == [x \in Nat |-> Value(f, x)]
<1>0. \A x \in Nat : x \div 2 \in Nat /\ x % 2 \in Nat
  BY HalfIsLess
<1>1. ASSUME NEW x \in Nat, NEW f \in R PROVE Step(x, f) \in R
  <2>1. ASSUME NEW y \in Nat PROVE 2 * f[y \div 2] + (x % 2) * (y % 2) \in Nat
    <3>1. y \div 2 \in Nat /\ y % 2 \in {0, 1} /\ x % 2 \in {0, 1}
      BY HalfIsLess
    <3>2. (x % 2) * (y % 2) \in {0, 1}
      BY <3>1
    <3>3. f[y \div 2] \in Nat
      BY <3>1
    <3> QED  BY <3>2, <3>3
  <2> QED  BY <2>1
<1>2. b \in R
  OBVIOUS
<1> HIDE DEF R, Step
<1>3. G \in [Nat -> [R -> R]] /\ \A x \in Nat : \A f \in R : G[x][f] = Step(x, f)
  BY <1>1
<1> HIDE DEF G, b
<1>4. IsRecursion(Nat, Half, R, b, G)
  BY <1>2, <1>3, HalfIsLess DEF IsRecursion
<1>5. PICK F : IsSolution(Nat, Half, R, b, G, F)
  BY <1>4, Recursion
<1>6. F \in [Nat -> R] /\ F[0] = b /\ \A n \in Nat \ {0} : F[n] = G[n][F[Half[n]]]
  BY <1>5 DEF IsSolution
<1>7. ASSUME NEW x \in Nat PROVE F[x] = Value(F, x)
  <2>1. CASE x = 0
    BY <2>1, <1>6 DEF b
  <2>2. CASE x # 0
    <3>1. F[x] = Step(x, F[x \div 2])
      BY <2>2, <1>3, <1>6, HalfIsLess
    <3> QED  BY <3>1, <2>2 DEF Step
  <2> QED  BY <2>1, <2>2
<1> HIDE DEF Value
<1>8. F = Body(F)
  BY <1>6, <1>7
<1>9. BitAnd = Body(BitAnd)
  <2> HIDE DEF Body
  <2>1. BitAnd = CHOOSE f : f = Body(f)
    BY DEF BitAnd, Body, Value
  <2> QED  BY <2>1, <1>8
<1>10. \A x \in Nat : BitAnd[x] = Value(BitAnd, x)
  BY <1>9
<1>11. BitAnd = [x \in Nat |-> BitAnd[x]]
  BY <1>9
<1> DEFINE T == {x \in Nat : BitAnd[x] \in R}
<1>12. ASSUME NEW x \in Nat, \A m \in Nat : m < x => m \in T PROVE x \in T
  <2>1. CASE x = 0
    BY <2>1, <1>10, <1>2 DEF Value, b
  <2>2. CASE x # 0
    <3>1. x \div 2 \in Nat /\ x \div 2 < x
      BY <2>2, HalfIsLess
    <3>2. x \div 2 \in T
      BY <3>1, <1>12
    <3>3. BitAnd[x] = Step(x, BitAnd[x \div 2])
      BY <2>2, <1>10 DEF Value, Step
    <3> QED  BY <3>2, <3>3, <1>1
  <2> QED  BY <2>1, <2>2
<1> HIDE DEF T
<1>13. Nat \subseteq T
  BY <1>12, StrongInduction
<1>14. BitAnd \in [Nat -> R]
  BY <1>11, <1>13 DEF T
<1>15. \A y \in Nat : BitAnd[0][y] = 0
  BY <1>10 DEF Value
<1>16. \A x \in Nat \ {0} : \A y \in Nat :
          BitAnd[x][y] = 2 * BitAnd[x \div 2][y \div 2] + (x % 2) * (y % 2)
  BY <1>10 DEF Value
<1> QED  BY <1>14, <1>15, <1>16 DEF R

\* The shifts of cache.c are products: 1 << (m + n) is (1 << m) * (1 << n).
LEMMA Pow2Sum ==
    \A m, n \in Nat : Pow2[m + n] = Pow2[m] * Pow2[n]
<1> SUFFICES ASSUME NEW n \in Nat PROVE \A m \in Nat : Pow2[m + n] = Pow2[m] * Pow2[n]
  OBVIOUS
<1> DEFINE T == {m \in Nat : Pow2[m + n] = Pow2[m] * Pow2[n]}
<1>0. /\ \A m \in Nat : Pow2[m] \in Nat /\ Pow2[m] > 0
      /\ Pow2[0] = 1
      /\ \A m \in Nat \ {0} : Pow2[m] = 2 * Pow2[m - 1]
  BY Pow2Values
<1>1. ASSUME NEW m \in Nat, \A k \in Nat : k < m => k \in T PROVE m \in T
  <2>1. CASE m = 0
    BY <2>1, <1>0
  <2>2. CASE m # 0
    <3>1. m - 1 \in T /\ m - 1 \in Nat /\ m + n \in Nat \ {0} /\ (m + n) - 1 = (m - 1) + n
          /\ (m - 1) + n \in Nat
      BY <2>2, <1>1
    <3>2. Pow2[m + n] = 2 * Pow2[(m - 1) + n] /\ Pow2[m] = 2 * Pow2[m - 1]
      BY <3>1, <2>2, <1>0
    <3>3. Pow2[(m - 1) + n] = Pow2[m - 1] * Pow2[n]
      BY <3>1
    <3> DEFINE x == Pow2[m - 1]
               y == Pow2[n]
    <3>4. x \in Nat /\ y \in Nat
      BY <3>1, <1>0
    <3> HIDE DEF x, y
    <3>5. 2 * (x * y) = (2 * x) * y
      BY <3>4
    <3> QED  BY <3>2, <3>3, <3>5 DEF x, y
  <2> QED  BY <2>1, <2>2
<1> HIDE DEF T
<1>2. Nat \subseteq T
  BY <1>1, StrongInduction
<1> QED  BY <1>2 DEF T

\* Nothing is left of x under a mask of no bits.
LEMMA AndZero == \A x \in Nat : BitAnd[x][0] = 0
<1> DEFINE T == {x \in Nat : BitAnd[x][0] = 0}
<1>1. ASSUME NEW x \in Nat, \A k \in Nat : k < x => k \in T PROVE x \in T
  <2>1. CASE x = 0
    BY <2>1, BitAndValues
  <2>2. CASE x # 0
    <3>1. x \div 2 \in Nat /\ x \div 2 < x /\ x % 2 \in {0, 1} /\ 0 \div 2 = 0 /\ 0 % 2 = 0
      BY <2>2, HalfIsLess
    <3>2. BitAnd[x \div 2][0] = 0
      BY <3>1, <1>1
    <3>3. BitAnd[x][0] = 2 * BitAnd[x \div 2][0 \div 2] + (x % 2) * (0 % 2)
      BY <2>2, BitAndValues
    <3> QED  BY <3>1, <3>2, <3>3
  <2> QED  BY <2>1, <2>2
<1> HIDE DEF T
<1>2. Nat \subseteq T
  BY <1>1, StrongInduction
<1> QED  BY <1>2 DEF T

\* Quotient and remainder are unique.
LEMMA Division ==
    ASSUME NEW q \in Nat, NEW n \in Nat \ {0}, NEW r \in 0 .. n - 1
    PROVE  (q * n + r) \div n = q /\ (q * n + r) % n = r
  OBVIOUS

\* A number is its quotient times n, and its remainder.
LEMMA DivisionInverse ==
    ASSUME NEW a \in Nat, NEW n \in Nat \ {0}
    PROVE  /\ a \div n \in Nat /\ a % n \in 0 .. n - 1
           /\ a = (a \div n) * n + (a % n)
  OBVIOUS

\* get_set's mask is a remainder.
LEMMA MaskIsRemainder ==
    \A n, x \in Nat : BitAnd[x][Pow2[n] - 1] = x % Pow2[n]
<1> DEFINE T == {n \in Nat : \A x \in Nat : BitAnd[x][Pow2[n] - 1] = x % Pow2[n]}
<1>0. /\ \A m \in Nat : Pow2[m] \in Nat /\ Pow2[m] > 0
      /\ Pow2[0] = 1
      /\ \A m \in Nat \ {0} : Pow2[m] = 2 * Pow2[m - 1]
  BY Pow2Values
<1>1. ASSUME NEW n \in Nat, \A k \in Nat : k < n => k \in T PROVE n \in T
  <2> SUFFICES ASSUME NEW x \in Nat PROVE BitAnd[x][Pow2[n] - 1] = x % Pow2[n]
    OBVIOUS
  <2>1. CASE n = 0
    <3>1. Pow2[n] = 1 /\ x % 1 = 0
      BY <2>1, <1>0
    <3> QED  BY <3>1, AndZero
  <2>2. CASE n # 0
    <3> DEFINE P == Pow2[n - 1]
               h == x \div 2
               r == x % 2
    <3>1. n - 1 \in Nat /\ n - 1 < n
      BY <2>2
    <3>2. P \in Nat \ {0} /\ Pow2[n] = 2 * P
      BY <3>1, <2>2, <1>0
    <3>3. n - 1 \in T
      BY <3>1, <1>1
    <3>4. h \in Nat /\ r \in {0, 1} /\ x = 2 * h + r
      BY HalfIsLess
    <3>5. BitAnd[h][P - 1] = h % P
      BY <3>3, <3>4
    <3> HIDE DEF P, T
    <3>6. (2 * P - 1) \div 2 = P - 1 /\ (2 * P - 1) % 2 = 1 /\ 2 * P - 1 \in Nat
      BY <3>2
    <3>7. BitAnd[x][2 * P - 1] = 2 * (h % P) + r
      <4>1. CASE x = 0
        <5>1. h = 0 /\ r = 0 /\ 0 % P = 0
          BY <4>1, <3>2, <3>4
        <5>2. BitAnd[0][2 * P - 1] = 0
          BY <3>6, BitAndValues
        <5> QED  BY <4>1, <5>1, <5>2
      <4>2. CASE x # 0
        <5>1. BitAnd[x][2 * P - 1] = 2 * BitAnd[h][(2 * P - 1) \div 2] + r * ((2 * P - 1) % 2)
          BY <4>2, <3>6, BitAndValues
        <5>2. r * 1 = r
          BY <3>4
        <5> QED  BY <5>1, <5>2, <3>5, <3>6
      <4> QED  BY <4>1, <4>2
    <3> HIDE DEF h, r
    <3>8. x % (2 * P) = 2 * (h % P) + r
      <4> DEFINE q == h \div P
                 s == h % P
      <4>1. q \in Nat /\ s \in 0 .. P - 1 /\ h = q * P + s
        BY <3>2, <3>4, DivisionInverse
      <4> HIDE DEF q, s
      <4>2. 2 * s + r \in 0 .. 2 * P - 1 /\ 2 * P \in Nat \ {0}
        BY <4>1, <3>2, <3>4
      <4>3. x = q * (2 * P) + (2 * s + r)
        <5>1. 2 * (q * P) = q * (2 * P)
          BY <4>1, <3>2
        <5>2. q * P \in Nat /\ q * (2 * P) \in Nat
          BY <4>1, <3>2
        <5> QED  BY <5>1, <5>2, <4>1, <3>2, <3>4
      <4>4. x % (2 * P) = 2 * s + r
        BY <4>1, <4>2, <4>3, Division
      <4> QED  BY <4>4 DEF s
    <3> QED  BY <3>2, <3>7, <3>8
  <2> QED  BY <2>1, <2>2
<1> HIDE DEF T
<1>2. Nat \subseteq T
  BY <1>1, StrongInduction
<1> QED  BY <1>2 DEF T

\* The tag and the set of an evicted line's address have no bit in common.
LEMMA AndDisjoint ==
    \A n, t \in Nat : \A y \in 0 .. Pow2[n] - 1 : BitAnd[t * Pow2[n]][y] = 0
<1> DEFINE T == {n \in Nat : \A t \in Nat : \A y \in 0 .. Pow2[n] - 1 : BitAnd[t * Pow2[n]][y] = 0}
<1>0. /\ \A m \in Nat : Pow2[m] \in Nat /\ Pow2[m] > 0
      /\ Pow2[0] = 1
      /\ \A m \in Nat \ {0} : Pow2[m] = 2 * Pow2[m - 1]
  BY Pow2Values
<1>1. ASSUME NEW n \in Nat, \A k \in Nat : k < n => k \in T PROVE n \in T
  <2> SUFFICES ASSUME NEW t \in Nat, NEW y \in 0 .. Pow2[n] - 1
               PROVE  BitAnd[t * Pow2[n]][y] = 0
    OBVIOUS
  <2>1. CASE n = 0
    <3>1. y = 0 /\ t * Pow2[n] = t
      BY <2>1, <1>0
    <3> QED  BY <3>1, AndZero
  <2>2. CASE n # 0
    <3> DEFINE P == Pow2[n - 1]
               x == t * P
    <3>1. n - 1 \in Nat /\ n - 1 < n
      BY <2>2
    <3>2. P \in Nat \ {0} /\ Pow2[n] = 2 * P
      BY <3>1, <2>2, <1>0
    <3>3. n - 1 \in T
      BY <3>1, <1>1
    <3> HIDE DEF T
    <3>4. y \in Nat /\ y \div 2 \in 0 .. P - 1 /\ y % 2 \in {0, 1}
      <4>1. y \in Nat /\ y < 2 * P
        BY <3>2
      <4>2. y \div 2 \in Nat /\ y % 2 \in {0, 1} /\ y = 2 * (y \div 2) + (y % 2)
        BY <4>1, HalfIsLess
      <4> QED  BY <4>1, <4>2, <3>2
    <3>5. BitAnd[x][y \div 2] = 0
      BY <3>3, <3>4 DEF T
    <3> HIDE DEF P
    <3>6. x \in Nat /\ t * (2 * P) = 2 * x
      BY <3>2
    <3> HIDE DEF x
    <3>7. BitAnd[2 * x][y] = 0
      <4>1. CASE x = 0
        <5>1. BitAnd[0][y] = 0
          BY <3>4, BitAndValues
        <5> QED  BY <4>1, <5>1
      <4>2. CASE x # 0
        <5>1. 2 * x \in Nat \ {0} /\ (2 * x) \div 2 = x /\ (2 * x) % 2 = 0
          BY <4>2, <3>6
        <5>2. BitAnd[2 * x][y] = 2 * BitAnd[(2 * x) \div 2][y \div 2] + ((2 * x) % 2) * (y % 2)
          BY <5>1, <3>4, BitAndValues
        <5>3. 0 * (y % 2) = 0
          BY <3>4
        <5> QED  BY <5>1, <5>2, <5>3, <3>5
      <4> QED  BY <4>1, <4>2
    <3> QED  BY <3>2, <3>6, <3>7
  <2> QED  BY <2>1, <2>2
<1> HIDE DEF T
<1>2. Nat \subseteq T
  BY <1>1, StrongInduction
<1> QED  BY <1>2 DEF T

\* A mask leaves no more than there is.
LEMMA BitAndBound == \A x, y \in Nat : BitAnd[x][y] \in Nat /\ BitAnd[x][y] <= x /\ BitAnd[x][y] <= y
<1> DEFINE T == {x \in Nat : \A y \in Nat : BitAnd[x][y] <= x /\ BitAnd[x][y] <= y}
<1>1. ASSUME NEW x \in Nat, \A k \in Nat : k < x => k \in T PROVE x \in T
  <2> SUFFICES ASSUME NEW y \in Nat PROVE BitAnd[x][y] <= x /\ BitAnd[x][y] <= y
    OBVIOUS
  <2>1. CASE x = 0
    <3>1. BitAnd[0][y] = 0
      BY BitAndValues
    <3> QED  BY <3>1, <2>1
  <2>2. CASE x # 0
    <3> DEFINE u == x \div 2
               v == y \div 2
               b == x % 2
               c == y % 2
               m == BitAnd[u][v]
    <3>1. /\ u \in Nat /\ u < x /\ b \in {0, 1} /\ x = 2 * u + b
          /\ v \in Nat /\ c \in {0, 1} /\ y = 2 * v + c
      BY <2>2, HalfIsLess
    <3>2. m \in Nat /\ m <= u /\ m <= v
      BY <3>1, <1>1, BitAndValues
    <3>3. BitAnd[x][y] = 2 * m + b * c
      BY <2>2, BitAndValues
    <3> HIDE DEF u, v, b, c, m
    <3>4. b * c \in {0, 1} /\ b * c <= b /\ b * c <= c
      BY <3>1
    <3> QED  BY <3>1, <3>2, <3>3, <3>4
  <2> QED  BY <2>1, <2>2
<1> HIDE DEF T
<1>2. Nat \subseteq T
  BY <1>1, StrongInduction
<1> QED  BY <1>2, BitAndValues DEF T

\* What two numbers of n bits have together takes no more bits.
LEMMA OrBelow == \A n \in Nat : \A x, y \in 0 .. Pow2[n] - 1 : Or(x, y) \in 0 .. Pow2[n] - 1
<1> DEFINE T == {n \in Nat : \A x, y \in 0 .. Pow2[n] - 1 : Or(x, y) \in 0 .. Pow2[n] - 1}
<1>0. /\ \A m \in Nat : Pow2[m] \in Nat /\ Pow2[m] > 0
      /\ Pow2[0] = 1
      /\ \A m \in Nat \ {0} : Pow2[m] = 2 * Pow2[m - 1]
  BY Pow2Values
<1>1. ASSUME NEW n \in Nat, \A k \in Nat : k < n => k \in T PROVE n \in T
  <2> SUFFICES ASSUME NEW x \in 0 .. Pow2[n] - 1, NEW y \in 0 .. Pow2[n] - 1
               PROVE  Or(x, y) \in 0 .. Pow2[n] - 1
    OBVIOUS
  <2>1. CASE n = 0
    <3>1. x = 0 /\ y = 0
      BY <2>1, <1>0
    <3>2. BitAnd[0][0] = 0
      BY BitAndValues
    <3>3. Or(x, y) = 0
      BY <3>1, <3>2 DEF Or
    <3> QED  BY <3>3, <2>1, <1>0
  <2>2. CASE n # 0
    <3> DEFINE P == Pow2[n - 1]
               u == x \div 2
               v == y \div 2
               b == x % 2
               c == y % 2
               m == BitAnd[u][v]
    <3>1. n - 1 \in Nat /\ n - 1 < n /\ P \in Nat \ {0} /\ Pow2[n] = 2 * P
      BY <2>2, <1>0
    <3>2. x \in Nat /\ y \in Nat /\ x < 2 * P /\ y < 2 * P
      BY <3>1
    <3>3. /\ u \in Nat /\ b \in {0, 1} /\ x = 2 * u + b
          /\ v \in Nat /\ c \in {0, 1} /\ y = 2 * v + c
      BY <3>2, HalfIsLess
    <3>4. m \in Nat
      BY <3>3, BitAndValues
    <3>5. BitAnd[x][y] = 2 * m + b * c
      <4>1. CASE x = 0
        <5>1. u = 0 /\ b = 0 /\ b * c = 0
          BY <4>1, <3>3
        <5>2. BitAnd[x][y] = 0 /\ m = 0
          BY <4>1, <5>1, <3>2, <3>3, BitAndValues
        <5> QED  BY <5>1, <5>2
      <4>2. CASE x # 0
        BY <4>2, <3>2, BitAndValues
      <4> QED  BY <4>1, <4>2
    <3>6. n - 1 \in T
      BY <3>1, <1>1
    <3> HIDE DEF u, v, b, c
    <3>7. u \in 0 .. P - 1 /\ v \in 0 .. P - 1
      <4> HIDE DEF P
      <4> QED  BY <3>1, <3>2, <3>3
    <3>8. u + v - m \in 0 .. P - 1
      BY <3>6, <3>7 DEF Or
    <3> HIDE DEF P, m, T
    <3>9. b + c - b * c \in {0, 1}
      BY <3>3
    <3>10. x + y - BitAnd[x][y] = 2 * (u + v - m) + (b + c - b * c)
      <4>1. b * c \in {0, 1}
        BY <3>3
      <4> QED  BY <4>1, <3>3, <3>4, <3>5
    <3> DEFINE k == u + v - m
               l == b + c - b * c
    <3>11. k \in 0 .. P - 1 /\ l \in {0, 1} /\ Or(x, y) = 2 * k + l
      BY <3>8, <3>9, <3>10 DEF Or
    <3> HIDE DEF k, l
    <3> QED  BY <3>1, <3>11
  <2> QED  BY <2>1, <2>2
<1> HIDE DEF T
<1>2. Nat \subseteq T
  BY <1>1, StrongInduction
<1> QED  BY <1>2 DEF T

\* The lowest i + 1 bits are the lowest i, and the next.
LEMMA NextBit ==
    ASSUME NEW x \in Nat, NEW i \in Nat
    PROVE  /\ Bit(x, i) \in {0, 1}
           /\ Pow2[i] \in Nat \ {0} /\ Pow2[i + 1] = 2 * Pow2[i]
           /\ x % Pow2[i + 1] = (x % Pow2[i]) + Bit(x, i) * Pow2[i]
<1> DEFINE P == Pow2[i]
           q == x \div P
           r == x % P
           h == q \div 2
           b == q % 2
<1>1. P \in Nat \ {0} /\ Pow2[i + 1] = 2 * P
  <2>1. i + 1 \in Nat \ {0} /\ (i + 1) - 1 = i
    OBVIOUS
  <2> QED  BY <2>1, Pow2Values
<1> HIDE DEF P
<1>2. q \in Nat /\ r \in 0 .. P - 1 /\ x = q * P + r
  BY <1>1, DivisionInverse
<1> HIDE DEF q, r
<1>3. h \in Nat /\ b \in {0, 1} /\ q = 2 * h + b
  BY <1>2, HalfIsLess
<1> HIDE DEF h, b
<1>4. b * P + r \in 0 .. 2 * P - 1 /\ 2 * P \in Nat \ {0}
  BY <1>1, <1>2, <1>3
<1>5. x = h * (2 * P) + (b * P + r)
  <2>1. (2 * h + b) * P = h * (2 * P) + b * P
    BY <1>1, <1>3
  <2>2. h * (2 * P) \in Nat /\ b * P \in Nat
    BY <1>1, <1>3
  <2> QED  BY <2>1, <2>2, <1>2, <1>3
<1>6. x % (2 * P) = b * P + r
  BY <1>3, <1>4, <1>5, Division
<1>7. Bit(x, i) = b
  BY DEF Bit, b, q, P
<1>8. b * P \in Nat
  BY <1>1, <1>3
<1> QED  BY <1>1, <1>2, <1>3, <1>6, <1>7, <1>8 DEF r, P
=============================================================================
